--------------------------------- MODULE KeyMaps ---------------------------------
(* The editor's keys (ed.defns.c, ed.xmap.c, tc.bind.c, ed.inputl.c): two maps from
   characters to commands, the tree of key sequences, the arrow keys, the bindkey
   builtin that changes them, and the reading of the next command from the
   keyboard and from macros.  Characters are their codes. *)
EXTENDS Integers, Sequences, SequencesExt, FiniteSets

CONSTANTS MAXMACROLEVELS,
          Chars,    \* the characters typed
          Ops,      \* the bindkey commands given
          Texts,    \* macro -> its characters
          Ends,     \* external: what the terminal sends: arrow -> sequence, <<>> unknown
          MaxMade   \* bound: macros stored
VARIABLES km,       \* the maps, the tree, the arrow keys
          at,       \* the nodes among which the next character of a sequence is looked for
          KeyMacro, \* the macros being read, the innermost last
          alt, meta,\* the alternative map is in use; the next character gets the meta bit
          busy,     \* a command line is run
          done,     \* the last key sequence typed and what it did
          shown     \* the last thing bindkey printed
keyVars == <<km, at, KeyMacro, alt, meta, busy, done, shown>>

(* The default maps, for the characters at hand. *)
CcEmacsMap == [c \in Chars |-> CASE c = 10 -> "newline" [] c = 24 -> "F_XKEY" [] c = 27 -> "metanext" [] c = 127 -> "delprev"
                                 [] c = 226 -> "wordback" [] OTHER -> "insert"]
CcViMap == [c \in Chars |-> CASE c = 10 -> "newline" [] c = 27 -> "cmd_mode" [] c = 127 -> "delprev" [] c = 226 -> "F_UNASSIGNED" [] OTHER -> "insert"]
CcViCmdMap == [c \in Chars |-> CASE c = 10 -> "newline" [] c = 24 -> "expand" [] c = 27 -> "metanext" [] c = 65 -> "addend" [] c = 66 -> "wordback"
                                 [] c = 79 -> "F_XKEY" [] c = 98 -> "wordback" [] c = 117 -> "undo" [] c = 127 -> "delprev" [] c = 94 -> "tobeg" [] OTHER -> "F_UNASSIGNED"]
Arrows == {"up", "down"}
\* ResetArrowKeys(), the sequences of DefaultArrowKeys(), those of the emacs map after ^X.
NoArrows == [a \in Arrows |-> [type |-> "CMD", val |-> IF a = "up" THEN "up_hist" ELSE "down_hist"]]
ArrowSeqs(vi) == << <<"up", <<27, 79, 65>> >>, <<"down", <<27, 79, 66>> >> >> \o IF vi THEN << <<"up", <<79, 65>> >>, <<"down", <<79, 66>> >> >> ELSE <<>>
Cx == << <<<<24, 24>>, "exchange_mark">>, <<<<24, 98>>, "list_glob">> >>

(* The tree: the siblings in their order, each with the nodes below it. *)
Nodes(t, c) == {i \in 1 .. Len(t) : t[i].ch = c}
Node(t, c) == IF Nodes(t, c) = {} THEN 0 ELSE CHOOSE i \in Nodes(t, c) : \A j \in Nodes(t, c) : i <= j
GetFreeNode(c) == [ch |-> c, type |-> "NOD", val |-> "", id |-> 0, next |-> <<>>]
RECURSIVE TryNode(_, _, _)
\* TryNode(): the sequence key is bound to v; longer ones that begin with it are lost.
TryNode(t, key, v) ==
  LET i == Node(t, key[1])
      n == IF i = 0 THEN GetFreeNode(key[1]) ELSE t[i]
      new == IF Len(key) = 1 THEN [n EXCEPT !.next = <<>>, !.type = v.type, !.val = v.val, !.id = v.id] ELSE [n EXCEPT !.next = TryNode(@, Tail(key), v)]
  IN IF i = 0 THEN Append(t, new) ELSE [t EXCEPT ![i] = new]
RECURSIVE TryDeleteNode(_, _)
\* TryDeleteNode(): key and what begins with it; gone: the node was deleted, and with its last node the one above.
TryDeleteNode(t, key) ==
  LET i == Node(t, key[1])
      sub == TryDeleteNode(t[i].next, Tail(key))
  IN IF i = 0 THEN [t |-> t, gone |-> FALSE]
     ELSE IF Len(key) = 1 THEN [t |-> RemoveAt(t, i), gone |-> TRUE]
     ELSE IF t[i].next = <<>> THEN [t |-> t, gone |-> FALSE]
     ELSE IF sub.gone /\ sub.t = <<>> THEN [t |-> RemoveAt(t, i), gone |-> TRUE]
     ELSE [t |-> [t EXCEPT ![i].next = sub.t], gone |-> FALSE]
RECURSIVE Enumerate(_, _)
\* Enumerate(): every sequence below, with its node.
Enumerate(t, buf) ==
  FlattenSeq([i \in 1 .. Len(t) |-> IF t[i].next = <<>> THEN << <<Append(buf, t[i].ch), t[i]>> >> ELSE Enumerate(t[i].next, Append(buf, t[i].ch))])
RECURSIVE Lookup(_, _, _)
\* Lookup(): what is printed for key, <<>> when it is not bound.
Lookup(t, key, buf) ==
  LET i == Node(t, key[1]) IN
  IF key = <<>> THEN Enumerate(t, buf)
  ELSE IF i = 0 THEN <<>>
  ELSE IF t[i].next # <<>> THEN Lookup(t[i].next, Tail(key), Append(buf, key[1]))
  ELSE IF Len(key) = 1 THEN << <<Append(buf, key[1]), t[i]>> >> ELSE <<>>

(* What the tree stands for, as bindkey is described: the last binding of a
   sequence counts, and one of two sequences, one of which begins with the other. *)
Bound(tab, key, v) == [k \in {x \in DOMAIN tab : ~IsPrefix(x, key) /\ ~IsPrefix(key, x)} \cup {key} |-> IF k = key THEN [type |-> v.type, val |-> v.val] ELSE tab[k]]
Unbound(tab, key) == [k \in {x \in DOMAIN tab : ~IsPrefix(key, x)} |-> tab[k]]

AddXkey(m, key, v) ==
  CASE key = <<>> \/ v = [type |-> "CMD", val |-> "F_XKEY"] -> m
    [] v.type = "NOD" -> [m EXCEPT !.aborted = TRUE]
    [] OTHER -> [m EXCEPT !.Xmap = TryNode(@, key, [type |-> v.type, val |-> v.val, id |-> IF v.type = "CMD" THEN 0 ELSE m.made + 1]),
                          !.made = IF v.type = "CMD" THEN @ ELSE @ + 1, !.table = Bound(@, key, v)]
DeleteXkey(m, key) == IF key = <<>> \/ m.Xmap = <<>> THEN m ELSE [m EXCEPT !.Xmap = TryDeleteNode(@, key).t, !.table = Unbound(@, key)]
\* ClearXkey(): the sequences of a character that gets a command, unless the other map leads to them.
ClearXkey(m, which, key) ==
  LET other == IF which = "CcKeyMap" THEN "CcAltMap" ELSE "CcKeyMap" IN
  IF m[which][key[1]] = "F_XKEY" /\ m[other][key[1]] # "F_XKEY" THEN DeleteXkey(m, key) ELSE m
DefaultArrowKeys(m) == FoldLeft(LAMBDA n, s : IF n.aborted THEN n ELSE AddXkey(n, s[2], m.arrow[s[1]]), m, ArrowSeqs(m.VImode))
ResetXmap(m) == DefaultArrowKeys([m EXCEPT !.Xmap = <<>>, !.table = <<>>])
BindArrow(m, a) ==
  LET which == IF m.VImode THEN "CcAltMap" ELSE "CcKeyMap"
      dmap == IF m.VImode THEN CcViCmdMap ELSE CcEmacsMap
      p == Ends[a]
      v == m.arrow[a]
  IN CASE p = <<>> \/ m.aborted -> m
       [] v.type = "NOD" -> ClearXkey(m, which, p)
       [] v.type # "NOD" /\ Len(p) > 1 /\ (dmap[p[1]] = m[which][p[1]] \/ m[which][p[1]] = "F_XKEY") -> [AddXkey(m, p, v) EXCEPT ![which][p[1]] = "F_XKEY"]
       [] v.type # "NOD" /\ m[which][p[1]] = "F_UNASSIGNED" ->
            LET n == ClearXkey(m, which, p) IN IF v.type = "CMD" THEN [n EXCEPT ![which][p[1]] = v.val] ELSE AddXkey(n, p, v)
       [] OTHER -> m
BindArrowKeys(m) == LET n == DefaultArrowKeys(m) IN IF n.aborted THEN n ELSE BindArrow(BindArrow(n, "down"), "up")
\* ed_InitMetaBindings(): what a meta character does, its plain one does after the lead-in.
ed_InitMetaBindings(m) ==
  LET is(which) == {c \in Chars : m[which][c] = "metanext"}
      which == IF is("CcKeyMap") = {} /\ (is("CcAltMap") # {} \/ m.VImode) THEN "CcAltMap" ELSE "CcKeyMap"
      i == IF is(which) = {} THEN 27 ELSE CHOOSE c \in is(which) : \A d \in is(which) : c <= d
      bound == SelectSeq(SetToSeq({c \in Chars : c >= 128}), LAMBDA c : m[which][c] \notin {"insert", "F_UNASSIGNED", "F_XKEY"})
  IN [FoldLeft(LAMBDA n, c : AddXkey(n, <<i, c - 128>>, [type |-> "CMD", val |-> m[which][c]]), m, bound) EXCEPT ![which][i] = "F_XKEY"]
ed_InitVIMaps(m) ==
  LET n == ed_InitMetaBindings([ResetXmap([m EXCEPT !.VImode = TRUE]) EXCEPT !.CcKeyMap = CcViMap, !.CcAltMap = CcViCmdMap])
  IN IF n.aborted THEN n ELSE BindArrowKeys([n EXCEPT !.arrow = NoArrows])
ed_InitEmacsMaps(m) ==
  LET n == ed_InitMetaBindings([ResetXmap([m EXCEPT !.VImode = FALSE]) EXCEPT !.CcKeyMap = CcEmacsMap, !.CcAltMap = [c \in Chars |-> "F_UNASSIGNED"]])
      x == FoldLeft(LAMBDA o, s : AddXkey(o, s[1], [type |-> "CMD", val |-> s[2]]), n, Cx)
  IN IF n.aborted THEN n ELSE BindArrowKeys([x EXCEPT !.arrow = NoArrows])

(* Key sequences as text. *)
BS == 92
CARET == 94
Iscntrl(c) == c < 32 \/ c = 127
Isprint(c) == c >= 32 /\ c < 127
Octal(c) == <<BS, 48 + (c \div 64), 48 + ((c \div 8) % 8), 48 + (c % 8)>>
unparsech(c) == CASE Iscntrl(c) -> <<CARET, IF c = 127 THEN 63 ELSE c + 64>>
                  [] c \in {BS, CARET} -> <<BS, c>>
                  [] Isprint(c) /\ c \notin {BS, CARET} -> <<c>>
                  [] OTHER -> Octal(c)
unparsestring(key) == FlattenSeq([k \in 1 .. Len(key) |-> unparsech(key[k])])
okcontrol(c) == c \in 65 .. 90 \cup 97 .. 122 \cup {64, 94, 95, 63, 92, 124, 91, 123, 93, 125}
handlecontrol(c) == IF c = 63 THEN 127 ELSE (c % 32) + (IF c >= 128 THEN 128 ELSE 0)
Letters == [c \in {97, 98, 101, 102, 110, 114, 116, 118} |->
              CASE c = 97 -> 7 [] c = 98 -> 8 [] c = 101 -> 27 [] c = 102 -> 12 [] c = 110 -> 10 [] c = 114 -> 13 [] c = 116 -> 9 [] c = 118 -> 11]
CHAR_ERR == [c |-> -1, to |-> 0]
\* Up to n digits from place i on; the number in the base b.
Digits(s, i, n, set) == CHOOSE k \in 0 .. n : (\A j \in i .. i + k - 1 : j <= Len(s) /\ s[j] \in set) /\ (k = n \/ i + k > Len(s) \/ s[i + k] \notin set)
HexDigit == 48 .. 57 \cup 65 .. 70 \cup 97 .. 102
HexValue(c) == IF c < 58 THEN c - 48 ELSE IF c < 71 THEN c - 55 ELSE c - 87
Number(s, b) == FoldLeft(LAMBDA v, c : b * v + HexValue(c), 0, s)
parse_hex_range(s, i, n) == LET k == Digits(s, i, n, HexDigit) IN [c |-> Number(SubSeq(s, i, i + k - 1), 16), to |-> i + k]
\* parseescape() where it must give a character: the one that begins at place i of s, and the place behind it.
parseescape(s, i) ==
  LET c == s[i + 1]
      oct == Digits(s, i + 1, 3, 48 .. 55)
      val == Number(SubSeq(s, i + 1, i + oct), 8)
      hex == parse_hex_range(s, i + 2, IF c = 120 THEN 2 ELSE IF c = 117 THEN 4 ELSE 8)
      brace == parse_hex_range(s, i + 3, 8)
      isHex(j) == j <= Len(s) /\ s[j] \in HexDigit
  IN CASE i = Len(s) -> CHAR_ERR
       [] s[i] = CARET -> IF okcontrol(c) THEN [c |-> handlecontrol(c), to |-> i + 2] ELSE [c |-> CARET, to |-> i + 1]
       [] c \in DOMAIN Letters -> [c |-> Letters[c], to |-> i + 2]
       [] c = 99 -> IF i + 2 <= Len(s) /\ okcontrol(s[i + 2]) /\ s[i + 2] # BS THEN [c |-> handlecontrol(s[i + 2]), to |-> i + 3]
                    ELSE IF i + 3 <= Len(s) /\ s[i + 2] = BS /\ s[i + 3] = BS THEN [c |-> 28, to |-> i + 4] ELSE CHAR_ERR
       [] c = 120 /\ i + 3 <= Len(s) /\ s[i + 2] = 123 /\ isHex(i + 3) -> IF brace.to <= Len(s) /\ s[brace.to] = 125 THEN [brace EXCEPT !.to = @ + 1] ELSE [c |-> BS, to |-> i + 1]
       [] c \in {120, 117, 85} /\ ~(c = 120 /\ i + 3 <= Len(s) /\ s[i + 2] = 123 /\ isHex(i + 3)) -> IF isHex(i + 2) THEN hex ELSE [c |-> BS, to |-> i + 1]
       [] oct > 0 -> IF val > 255 THEN CHAR_ERR ELSE [c |-> val, to |-> i + 1 + oct]
       [] OTHER -> [c |-> c, to |-> i + 2]
RECURSIVE parsestring(_, _, _)
parsestring(s, i, out) ==
  LET e == parseescape(s, i) IN
  CASE i > Len(s) -> out
    [] i <= Len(s) /\ s[i] \in {BS, CARET} -> IF e = CHAR_ERR THEN <<>> ELSE parsestring(s, e.to, Append(out, e.c))
    [] OTHER -> parsestring(s, i + 1, Append(out, s[i]))

(* The bindkey builtin: one command o, outside the reading of a sequence. *)
dobindkey(m, o) ==
  LET which == IF o.alt THEN "CcAltMap" ELSE "CcKeyMap"
      ch == o.key[1]
      v == [type |-> o.type, val |-> o.val]
      SetArrow == [m EXCEPT !.arrow[o.name] = v]
      xkey(n) == [n EXCEPT ![which][ch] = "F_XKEY"]
  IN CASE o.op = "emacs" -> ed_InitEmacsMaps(m)
       [] o.op = "vi" -> ed_InitVIMaps(m)
       [] o.op = "noarrow" -> [m EXCEPT !.arrow[o.name].type = "NOD"]
       [] o.op = "remove" /\ Len(o.key) > 1 -> DeleteXkey(m, o.key)
       [] o.op = "remove" /\ Len(o.key) = 1 -> [(IF m[which][ch] = "F_XKEY" THEN DeleteXkey(m, o.key) ELSE m) EXCEPT ![which][ch] = "F_UNASSIGNED"]
       [] o.op = "arrow" -> BindArrowKeys(IF v.type = "CMD" \/ ch \notin Chars THEN SetArrow ELSE [SetArrow EXCEPT ![which][ch] = "F_XKEY"])
       [] o.op = "bind" /\ v.type # "CMD" -> xkey(AddXkey(m, o.key, v))
       [] o.op = "bind" /\ v.type = "CMD" /\ Len(o.key) > 1 -> xkey(AddXkey(m, o.key, v))
       [] o.op = "bind" /\ v.type = "CMD" /\ Len(o.key) = 1 -> [ClearXkey(m, which, o.key) EXCEPT ![which][ch] = v.val]
       [] OTHER -> m
print_all_keys(m) == [k \in 1 .. Len(Enumerate(m.Xmap, <<>>)) |-> Enumerate(m.Xmap, <<>>)[k][1]]
printkey(m, o) == IF Len(o.key) < 2 THEN <<o.key>> ELSE [k \in 1 .. Len(Lookup(m.Xmap, o.key, <<>>)) |-> Lookup(m.Xmap, o.key, <<>>)[k][1]]

New == [Xmap |-> <<>>, table |-> <<>>, CcKeyMap |-> CcEmacsMap, CcAltMap |-> CcEmacsMap, VImode |-> FALSE, arrow |-> NoArrows, aborted |-> FALSE, made |-> 0]
Nothing == [typed |-> <<>>, what |-> "", by |-> ""]
Init ==
  /\ km = ed_InitEmacsMaps(New)
  /\ at = <<>> /\ KeyMacro = <<>> /\ alt = FALSE /\ meta = FALSE /\ busy = FALSE
  /\ done = Nothing /\ shown = [op |-> "", key |-> <<>>, lines |-> {}]

\* A line that is run, or a command bound to a key, gives a bindkey command, or not.
Bindkey ==
  /\ busy /\ ~km.aborted
  /\ \E o \in Ops :
       /\ km.made < MaxMade \/ o.type = "CMD"
       /\ km' = IF o.op \in {"print", "list"} THEN km ELSE dobindkey(km, o)
       /\ shown' = LET ks == IF o.op = "print" THEN printkey(km, o) ELSE IF o.op = "list" THEN print_all_keys(km) ELSE <<>>
                   IN [op |-> o.op, key |-> o.key, lines |-> {<<k, unparsestring(k)>> : k \in ToSet(ks)}]
  /\ busy' = FALSE
  /\ done' = Nothing
  /\ UNCHANGED <<at, KeyMacro, alt, meta>>
\* The line is over: ResetInLine().
Again == busy /\ ~km.aborted /\ busy' = FALSE /\ done' = Nothing /\ UNCHANGED <<km, at, KeyMacro, alt, meta, shown>>

\* The command of a key runs: those that say how the next key is read.
Does(cmd, typed, by) ==
  /\ done' = [typed |-> typed, what |-> cmd, by |-> by]
  /\ meta' = (cmd = "metanext")
  /\ alt' = (cmd = "cmd_mode" \/ (alt /\ cmd \notin {"addend", "newline"}))
  /\ busy' = (cmd = "newline")
  /\ at' = <<>>
\* PushMacro(): the macro is read next; beyond the last level there is a beep.
PushMacro(stack, n) == IF n.val # "" /\ Len(stack) < MAXMACROLEVELS THEN Append(stack, [id |-> n.id, rest |-> Texts[n.val]]) ELSE stack
\* A macro, a command run in the middle of the line, the middle of a sequence, or none such.
Leads(by, n, typed, stack) ==
  /\ done' = [typed |-> typed, what |-> n.val, by |-> by]
  /\ at' = n.next
  /\ meta' = FALSE
  /\ busy' = (by = "EXE")
  /\ KeyMacro' = IF by = "STR" THEN PushMacro(stack, n) ELSE stack
  /\ UNCHANGED alt
\* Mutant: only the first of the nodes is looked at.
TraverseMapFirst(t, c, typed, stack) ==
  LET n == IF t[1].ch # c THEN GetFreeNode(c) ELSE t[1]
  IN CASE n.next # <<>> -> Leads("more", [n EXCEPT !.val = ""], typed, stack)
       [] n.next = <<>> /\ n.type = "CMD" -> Does(n.val, typed, "CMD") /\ KeyMacro' = stack
       [] n.next = <<>> /\ n.type = "NOD" -> Leads("none", n, typed, stack)
       [] OTHER -> Leads(n.type, n, typed, stack)
\* TraverseMap(): one character among the nodes.
TraverseMap(t, c, typed, stack) ==
  LET i == Node(t, c)
      n == IF i = 0 THEN GetFreeNode(c) ELSE t[i]
  IN CASE n.next # <<>> -> Leads("more", [n EXCEPT !.val = ""], typed, stack)
       [] n.next = <<>> /\ n.type = "CMD" -> Does(n.val, typed, "CMD") /\ KeyMacro' = stack
       [] n.next = <<>> /\ n.type = "NOD" -> Leads("none", n, typed, stack)
       [] OTHER -> Leads(n.type, n, typed, stack)
\* GetNextCommand() with the character c.
GetNextCommand(c, stack) ==
  LET ch == IF meta /\ c < 128 THEN c + 128 ELSE c
      cmd == IF ch \notin Chars THEN "F_UNASSIGNED" ELSE IF alt THEN km.CcAltMap[ch] ELSE km.CcKeyMap[ch]
      typed == Append(done.typed, c)
  IN /\ IF at # <<>> THEN TraverseMap(at, c, typed, stack) /\ UNCHANGED km
        ELSE IF cmd # "F_XKEY" THEN Does(cmd, <<ch>>, "map") /\ KeyMacro' = stack /\ UNCHANGED km
        ELSE IF km.Xmap = <<>> THEN km' = [km EXCEPT !.aborted = TRUE] /\ UNCHANGED <<at, KeyMacro, alt, meta, busy, done>>
        ELSE TraverseMap(km.Xmap, ch, <<ch>>, stack) /\ UNCHANGED km
     /\ UNCHANGED shown
\* The texts still held by the tree; a macro whose text is no more reads anything.
RECURSIVE Ids(_)
Ids(t) == UNION {{t[i].id} \cup Ids(t[i].next) : i \in 1 .. Len(t)}
\* GetNextChar(): from the innermost macro, which is left with its last character, or from the terminal.
FromMacro ==
  /\ ~busy /\ ~km.aborted /\ KeyMacro # <<>>
  /\ LET top == Last(KeyMacro)
         rest == Tail(top.rest)
     IN \E c \in (IF top.id \in Ids(km.Xmap) THEN {Head(top.rest)} ELSE Chars) :
          GetNextCommand(c, IF rest = <<>> THEN Front(KeyMacro) ELSE Append(Front(KeyMacro), [top EXCEPT !.rest = rest]))
Type == ~busy /\ ~km.aborted /\ KeyMacro = <<>> /\ \E c \in Chars : GetNextCommand(c, KeyMacro)
\* ^C while a key is read: Inputl() begins anew without the macros.
Interrupt ==
  /\ ~busy /\ ~km.aborted /\ (at # <<>> \/ KeyMacro # <<>> \/ alt \/ meta)
  /\ at' = <<>> /\ KeyMacro' = <<>> /\ alt' = FALSE /\ meta' = FALSE /\ done' = Nothing
  /\ UNCHANGED <<km, busy, shown>>
Next == Bindkey \/ Again \/ FromMacro \/ Type \/ Interrupt
Spec == Init /\ [][Next]_keyVars

(* The tree is what was bound: every sequence leads to its last binding, none is
   the beginning of another one, and no more is found (ed.xmap.c:234, 331). *)
TableKept ==
  LET e == Enumerate(km.Xmap, <<>>)
  IN km.aborted \/ [k \in {e[i][1] : i \in 1 .. Len(e)} |-> LET i == CHOOSE j \in 1 .. Len(e) : e[j][1] = k IN [type |-> e[i][2].type, val |-> e[i][2].val]] = km.table
(* Keys typed, or read from macros, one after the other do what their sequence is
   bound to, and nothing when no sequence begins like that (ed.xmap.c:170). *)
KeysDo ==
  done' # done =>
    LET d == done'
        longer == {k \in DOMAIN km.table : IsPrefix(d.typed, k) /\ k # d.typed}
    IN /\ d.by \in {"CMD", "STR", "EXE"} => d.typed \in DOMAIN km.table /\ km.table[d.typed] = [type |-> d.by, val |-> d.what]
       /\ d.by = "more" => longer # {}
       /\ d.by = "none" => longer = {} /\ d.typed \notin DOMAIN km.table
(* What bindkey prints of a sequence is all that begins with it, in a form that
   bindkey reads as the same sequence (ed.xmap.c:456, 659, 820). *)
KeysReadBack ==
  /\ \A l \in shown.lines : parsestring(l[2], 1, <<>>) = l[1]
  /\ shown.op = "print" /\ Len(shown.key) > 1 => {l[1] : l \in shown.lines} = {k \in DOMAIN km.table : IsPrefix(shown.key, k)}
================================================================================
