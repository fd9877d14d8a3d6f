------------------------------- MODULE Editor -------------------------------
(***************************************************************************)
(* The input loop of the editor (Inputl() of ed.inputl.c): it starts a     *)
(* line, runs one command for every key and acts on what the command       *)
(* returns, until a line, an end of file or an interrupt ends it; then the *)
(* shell enters the line in its history and asks for the next.  Keys are   *)
(* named by the commands that the maps bind them to.                       *)
(***************************************************************************)
EXTENDS EdCommands

CONSTANTS
  EmacsCmds,  \* what the keys of emacs mode are bound to
  ViCmds,     \* what vi's maps bind: 0 is CcKeyMap, 1 is CcAltMap
  Typing,     \* texts that are typed in one go
  Chars,      \* the characters that a command reads or inserts
  Modes,      \* records of the settings that a session may have
  MaxKeys     \* bound on the commands of a behaviour

VARIABLES
  e,          \* the editor's state
  editing,    \* Inputl() waits for a key
  keys        \* commands so far, bounded by MaxKeys

vars == <<e, editing, keys>>

(* The buffer and the pointers when the shell starts. *)
Blank(m) == [InputBuf |-> [i \in Offsets |-> NUL], LastChar |-> 0, Cursor |-> 0,
  Mark |-> 0, MarkIsSet |-> FALSE, VImode |-> m.VImode, AltKeyMap |-> 0, MetaNext |-> FALSE,
  inputmode |-> "INSERT", DoingArg |-> FALSE, Argument |-> 1, LastCmd |-> "F_UNASSIGNED",
  InsertPos |-> IF m.VImode THEN 0 ELSE NULL, ActionPos |-> NULL, ActionFlag |-> {},
  UndoBuf |-> [i \in Offsets |-> NUL], UndoPtr |-> 0, UndoSize |-> 0, UndoAction |-> {},
  KillRing |-> [j \in 0 .. m.killring - 1 |-> << >>], KillRingLen |-> 0,
  KillRingMax |-> m.killring, KillPos |-> 0, YankPos |-> 0, killdup |-> m.killdup,
  Hist |-> m.Hist, Hist_num |-> 0, HistBuf |-> << >>, HistLit |-> m.HistLit,
  CurrentHistLit |-> FALSE, HistSaved |-> 0, patbuf |-> << >>, searchdir |-> "F_UP_SEARCH_HIST",
  srch_dir |-> "FWD", srch_char |-> NUL, GhostBuf |-> << >>, predict |-> m.predict,
  T_CanColor |-> TRUE, SavedBuf |-> << >>, LastSaved |-> 0, CursSaved |-> 0,
  RestoreSaved |-> FALSE, Expand |-> FALSE, rc |-> "NORM",
  dabbrev |-> [event |-> -1, hist |-> 0, word |-> 0, start |-> NULL, cursor |-> NULL]]

-----------------------------------------------------------------------------
(* A line starts: the pointers are reset, what undo, a pending delete and  *)
(* the input mode remember is not.                                         *)

ResetInLine(x) ==
  [x EXCEPT !.Cursor = 0, !.LastChar = 0, !.Mark = 0, !.MarkIsSet = FALSE, !.MetaNext = FALSE,
            !.AltKeyMap = 0, !.Hist_num = 0, !.DoingArg = FALSE, !.Argument = 1,
            !.LastCmd = "F_UNASSIGNED", !.GhostBuf = << >>]

(* Saved input, a history position or an expanded line comes back first.   *)
Started(x) ==
  LET r == ResetInLine(x)
      s == IF ~r.RestoreSaved THEN r
           ELSE [r EXCEPT !.InputBuf = Copied(@, 0, Append(r.SavedBuf, NUL)),
                          !.LastChar = r.LastSaved, !.Cursor = r.CursSaved,
                          !.Hist_num = r.HistSaved, !.HistSaved = 0, !.RestoreSaved = FALSE]
      h == IF s.HistSaved = 0 THEN s
           ELSE [GetHistLine([s EXCEPT !.Hist_num = s.HistSaved]) EXCEPT !.HistSaved = 0]
  IN  IF h.Expand THEN [e_up_hist(h) EXCEPT !.Expand = FALSE] ELSE h

e_startover(x) == Rc(ResetInLine(x), "REFRESH")
e_unassigned(x) == Rc(x, "NORM")

-----------------------------------------------------------------------------
(* The command table, CcFuncTbl.                                           *)

LineFunc(cmd, x) ==
  CASE cmd = "F_UP_HIST" -> e_up_hist(x)          [] cmd = "F_DOWN_HIST" -> e_down_hist(x)
    [] cmd = "F_UP_SEARCH_HIST" -> e_up_search_hist(x)
    [] cmd = "F_DOWN_SEARCH_HIST" -> e_down_search_hist(x)
    [] cmd = "F_TOGGLE_HIST" -> e_toggle_hist(x)  [] cmd = "F_LAST_ITEM" -> e_last_item(x)
    [] cmd = "F_DABBREV_EXPAND" -> e_dabbrev_expand(x)
    [] cmd = "F_EXPAND_HISTORY" -> e_expand_history(x)
    [] cmd = "F_MAGIC_SPACE" -> e_magic_space(x)  [] cmd = "F_EXPAND" -> e_expand(x)
    [] cmd = "F_PREDICT_ACCEPT" -> e_predict_accept(x)
    [] cmd = "F_NEWLINE" -> e_newline(x)          [] cmd = "F_NEWLINE_HOLD" -> e_newline_hold(x)
    [] cmd = "F_NEWLINE_DOWN_HIST" -> e_newline_down_hist(x)
    [] cmd = "F_SEND_EOF" -> e_send_eof(x)        [] cmd = "F_LIST_EOF" -> e_list_eof(x)
    [] cmd = "F_LIST_CHOICES" -> e_list_choices(x) [] cmd = "F_WHICH" -> e_which(x)
    [] cmd = "F_RUN_FG_EDITOR" -> e_run_fg_editor(x, TRUE)
    [] cmd = "V_RSRCH_FWD" -> v_rsrch_fwd(x)      [] cmd = "V_RSRCH_BACK" -> v_rsrch_back(x)

EditFunc(cmd, x) ==
  CASE cmd = "F_DELPREV" -> e_delprev(x)          [] cmd = "V_DELPREV" -> v_delprev(x)
    [] cmd = "F_DELNEXT" -> e_delnext(x)          [] cmd = "F_DELNEXT_EOF" -> e_delnext_eof(x)
    [] cmd = "F_DELNEXT_LIST" -> e_delnext_list(x)
    [] cmd = "F_DELNEXT_LIST_EOF" -> e_delnext_list_eof(x)
    [] cmd = "F_DELWORDPREV" -> e_delwordprev(x)  [] cmd = "F_DELWORDNEXT" -> e_delwordnext(x)
    [] cmd = "F_KILLEND" -> e_killend(x)          [] cmd = "F_KILLBEG" -> e_killbeg(x)
    [] cmd = "F_KILLALL" -> e_killall(x)          [] cmd = "F_KILLREGION" -> e_killregion(x)
    [] cmd = "F_COPYREGION" -> e_copyregion(x)    [] cmd = "F_YANK_KILL" -> e_yank_kill(x)
    [] cmd = "F_YANK_POP" -> e_yank_pop(x)        [] cmd = "F_CHARSWITCH" -> e_charswitch(x)
    [] cmd = "F_GCHARSWITCH" -> e_gcharswitch(x)  [] cmd = "F_CAPITALCASE" -> e_capitalcase(x)
    [] cmd = "F_UPPERCASE" -> e_uppercase(x)      [] cmd = "F_LOWERCASE" -> e_lowercase(x)
    [] cmd = "F_COPYPREV" -> e_copyprev(x)        [] cmd = "F_STARTOVER" -> e_startover(x)
    [] cmd = "V_CHANGE_CASE" -> v_change_case(x)  [] cmd = "V_CMD_MODE" -> v_cmd_mode(x)
    [] cmd = "V_INSBEG" -> v_insbeg(x)            [] cmd = "V_INSERT" -> v_insert(x)
    [] cmd = "V_ADD" -> v_add(x)                  [] cmd = "V_ADDEND" -> v_addend(x)
    [] cmd = "V_REPLONE" -> v_replone(x)          [] cmd = "V_REPLMODE" -> v_replmode(x)
    [] cmd = "V_SUBSTCHAR" -> v_substchar(x)      [] cmd = "V_SUBSTLINE" -> v_substline(x)
    [] cmd = "V_CHGTOEND" -> v_chgtoend(x)        [] cmd = "V_CHGMETA" -> v_chgmeta(x)
    [] cmd = "V_DELMETA" -> v_delmeta(x)          [] cmd = "V_UNDO" -> v_undo(x)
    [] OTHER -> LineFunc(cmd, x)

MoveFunc(cmd, x) ==
  CASE cmd = "F_TOEND" -> e_toend(x)              [] cmd = "F_TOBEG" -> e_tobeg(x)
    [] cmd = "F_CHARBACK" -> e_charback(x)        [] cmd = "F_CHARFWD" -> e_charfwd(x)
    [] cmd = "F_WORDBACK" -> e_wordback(x)        [] cmd = "F_WORDFWD" -> e_wordfwd(x)
    [] cmd = "V_WORDBACK" -> v_wordback(x)        [] cmd = "V_WORDFWD" -> v_wordfwd(x)
    [] cmd = "V_WORDBEGNEXT" -> v_wordbegnext(x)  [] cmd = "V_ENDWORD" -> v_endword(x)
    [] cmd = "V_EWORD" -> v_eword(x)              [] cmd = "V_RCHAR_FWD" -> v_rchar_fwd(x)
    [] cmd = "V_RCHAR_BACK" -> v_rchar_back(x)    [] cmd = "V_ZERO" -> v_zero(x)
    [] cmd = "F_SET_MARK" -> e_set_mark(x)        [] cmd = "F_EXCHANGE_MARK" -> e_exchange_mark(x)
    [] cmd = "F_ARGFOUR" -> e_argfour(x)          [] cmd = "F_METANEXT" -> e_metanext(x)
    [] cmd = "F_INSOVR" -> e_insovr(x)            [] cmd = "F_UNASSIGNED" -> e_unassigned(x)
    [] OTHER -> EditFunc(cmd, x)

CcFuncTbl(cmd, x, c) ==
  CASE cmd = "F_INSERT" -> e_insert(x, c)
    [] cmd = "F_QUOTE" -> e_quote(x, c)
    [] cmd = "F_DIGIT" -> e_digit(x, c)
    [] cmd = "F_ARGDIGIT" -> e_argdigit(x, c)
    [] cmd = "V_CHAR_FWD" -> v_char_fwd(x, c)
    [] cmd = "V_CHAR_BACK" -> v_char_back(x, c)
    [] cmd = "V_CHARTO_FWD" -> v_charto_fwd(x, c)
    [] cmd = "V_CHARTO_BACK" -> v_charto_back(x, c)
    [] cmd = "V_USH_META" -> v_search(x, "F_UP_SEARCH_HIST", IF c = " " THEN << >> ELSE <<c>>, c = " ")
    [] cmd = "V_DSH_META" -> v_search(x, "F_DOWN_SEARCH_HIST", IF c = " " THEN << >> ELSE <<c>>, c = " ")
    [] OTHER -> MoveFunc(cmd, x)

-----------------------------------------------------------------------------
(* One turn of the loop: the command, and what its return code asks for.   *)

NoArgument(x) == [x EXCEPT !.Argument = 1, !.DoingArg = FALSE]

Done(x, cmd) ==
  [x EXCEPT !.LastCmd = cmd,
     !.GhostBuf = IF cmd \in {"F_INSERT", "F_PREDICT_ACCEPT"} THEN @ ELSE << >>]

Returned(x) ==
  CASE x.rc = "PRESERVE_ARG" -> x
    [] x.rc = "NEWLINE" -> [x EXCEPT !.Hist_num = 0]
    [] x.rc = "WHICH" -> [x EXCEPT !.InputBuf = Copied(@, x.LastChar, <<NL>>), !.LastChar = @ + 1]
    [] x.rc = "EOF" -> x
    [] OTHER -> NoArgument(x)

Ends == {"NEWLINE", "WHICH", "EOF"}
Turn(x, cmd) == Returned(Done(x, cmd))

(* A line with words in it becomes the newest event.                       *)
Entered(x) ==
  LET s == Text(x.InputBuf, 0, x.LastChar - 1)
  IN  IF x.rc # "NEWLINE" \/ Words(s) = << >> THEN x
      ELSE [x EXCEPT !.Hist = <<Event(Words(s), s)>> \o @]

-----------------------------------------------------------------------------
Bound(x) == IF x.VImode THEN ViCmds[x.AltKeyMap] ELSE EmacsCmds
ReadsChar == {"F_INSERT", "F_QUOTE", "F_DIGIT", "F_ARGDIGIT", "V_CHAR_FWD", "V_CHAR_BACK",
              "V_CHARTO_FWD", "V_CHARTO_BACK", "V_USH_META", "V_DSH_META"}

Init == \E m \in Modes : e = Started(Blank(m)) /\ editing = TRUE /\ keys = 0

Key(cmd, c) ==
  /\ editing /\ keys < MaxKeys
  /\ cmd \in Bound(e) /\ (cmd \notin ReadsChar => c = "a")
  /\ e' = Turn(CcFuncTbl(cmd, e, c), cmd)
  /\ editing' = (e'.rc \notin Ends)
  /\ keys' = keys + 1

(* Input typed ahead is read as a macro, character by character.  Bound: it *)
(* is counted as a key only where the line has something in it.            *)
Type(s) ==
  /\ editing /\ keys < MaxKeys
  /\ "F_INSERT" \in Bound(e) /\ ~e.DoingArg
  /\ e' = FoldLeft(LAMBDA x, c : Turn(e_insert(x, c), "F_INSERT"), e, s)
  /\ keys' = IF e.LastChar = 0 THEN keys ELSE keys + 1
  /\ UNCHANGED editing

(* The line was run; ^C abandons it.                                       *)
NextLine ==
  /\ ~editing
  /\ e' = Started(Entered(e))
  /\ editing' = TRUE
  /\ UNCHANGED keys

Interrupt ==
  /\ editing /\ keys < MaxKeys
  /\ e' = Started(e)
  /\ keys' = keys + 1
  /\ UNCHANGED editing

Next ==
  \/ \E cmd \in EmacsCmds \cup ViCmds[0] \cup ViCmds[1], c \in Chars : Key(cmd, c)
  \/ \E s \in Typing : Type(s)
  \/ NextLine
  \/ Interrupt

Spec == Init /\ [][Next]_vars

-----------------------------------------------------------------------------
InLine(x) ==
  /\ x.Cursor \in 0 .. x.LastChar
  /\ x.LastChar <= InputLim
  /\ x.DoingArg \/ x.Argument = 1
MarkInLine(x) == x.Mark \in 0 .. x.LastChar
UndoInLine(x) == x.UndoPtr + (IF x.UndoAction = {"INSERT"} THEN 0 ELSE x.UndoSize) <= x.LastChar

(* No command takes the cursor out of the line, the line out of the buffer *)
(* or leaves an argument behind, as the checks at the head of the loop     *)
(* say, as long as the mark and the place to undo are within the line: a   *)
(* line that is brought in from the history leaves them where they were.   *)
StaysInLine == editing' /\ InLine(e) /\ MarkInLine(e) /\ UndoInLine(e) => InLine(e')

(* The line being typed is kept while history lines are shown, except by   *)
(* vi's searches, whose pattern has taken its place in the buffer.         *)
KeepsDraft ==
  e.Hist_num = 0 /\ e'.Hist_num # 0 /\ editing /\ editing' /\ e'.LastCmd \notin {"V_USH_META", "V_DSH_META"}
    => e'.HistBuf = Line(e)

(* What a kill took away is what a yank puts back, at the same place.      *)
Kills == {"F_KILLEND", "F_KILLBEG", "F_KILLALL", "F_KILLREGION", "F_DELWORDPREV", "F_DELWORDNEXT"}
YankedBack(f, y) == f.rc = "REFRESH" /\ y.rc = "REFRESH" => Line(y) = Line(e)
Killed(f) == YankedBack(f, e_yank_kill(f))
KillYank ==
  editing /\ InLine(e) /\ MarkInLine(e) /\ ~e.DoingArg => \A k \in Kills : Killed(CcFuncTbl(k, e, NUL))

(* vi: undo brings back what a delete took, with or without a motion, and  *)
(* undoing twice is nothing; a delete that waits while the line gets       *)
(* shorter than its start is another matter: c_delfini() notes the size it *)
(* wanted to take.                                                         *)
ViDeletes == {"F_DELPREV", "F_DELNEXT", "F_DELWORDPREV", "V_DELPREV", "V_SUBSTCHAR", "V_DELMETA",
              "V_WORDFWD", "V_EWORD", "F_TOEND", "F_TOBEG", "F_CHARBACK", "V_WORDBACK"}
UndoneBack(f) == f.LastChar < e.LastChar => Line(v_undo(f)) = Line(e)
UndoWorks ==
  e.VImode /\ InLine(e) /\ editing /\ e.ActionPos <= e.LastChar =>
    /\ \A k \in ViDeletes : UndoneBack(CcFuncTbl(k, e, NUL))
    /\ UndoInLine(e) /\ e.LastChar + e.UndoSize < InputLim => Line(v_undo(v_undo(e))) = Line(e)
=============================================================================
