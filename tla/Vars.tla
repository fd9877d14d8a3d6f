--------------------------------- MODULE Vars ---------------------------------
(* Shell variables and aliases: set, @, unset, shift, foreach, alias, setenv and
   unsetenv (sh.set.c, sh.func.c), the C variables that update_vars() and unset()
   keep in step with them, and the environment that repeats some of them. *)
EXTENDS VarTree, Functions

CONSTANTS
  Groups,     \* bound: the sets of variables that are used together
  Values,     \* name -> the lists it may be set to
  Patterns,   \* the arguments of unset, unalias and unsetenv: sequences of sets of names
  Globs,      \* word -> what it expands to, for the words that are patterns
  Parts,      \* word -> the sequence of directories between its colons
  Chars,      \* word -> its characters, for histchars and promptchars
  Canon,      \* directory -> what dcanon() makes of it
  EnvValues,  \* environment name -> the values setenv may give it, PATH's as directories
  Guarded,    \* the variables that may be made read-only
  Listed,     \* the variables that shift and foreach are used with
  Mirror      \* variable -> the environment variables that repeat it
VARIABLES sh, group
vars == <<sh, group>>

NUL == "NUL"
FREED == "FREED"
Numbers == <<"1", "2", "3">>
IsNumber(w) == w \in Range(Numbers)
adrof(s, name) == adrof1(s.shvhed, name)
Has(s, name) == adrof(s, name) # Nil
Vec(s, name) == s.shvhed[adrof(s, name)].vec
varval(s, name) == IF Has(s, name) /\ Vec(s, name) # <<>> THEN Vec(s, name)[1] ELSE ""
Flags(s, name) == IF Has(s, name) THEN s.shvhed[adrof(s, name)].v_flags ELSE "none"
Failed(s) == [s EXCEPT !.err = TRUE]
Late(s, names) == [s EXCEPT !.late = @ \cup (names \cap (DOMAIN s.c \cup DOMAIN Mirror))]

(* What the shell keeps of a variable's value besides the variable. *)
set_noclobber(vec) == {"on"} \cup (Range(vec) \cap {"notempty", "ask"})
TwoChars(w) == IF Chars[w] = <<>> THEN <<NUL, NUL>> ELSE <<Chars[w][1], IF Len(Chars[w]) > 1 THEN Chars[w][2] ELSE NUL>>
Derived(name, vec) ==
  LET w == IF vec = <<>> THEN "" ELSE vec[1] IN
  CASE name = "noclobber" -> set_noclobber(vec)
    [] name \in {"histchars", "promptchars"} -> TwoChars(w)
    [] name = "implicitcd" -> IF w = "verbose" THEN 2 ELSE 1
    [] name = "symlinks" -> IF w \in {"ignore", "expand", "chase"} THEN w ELSE ""
    [] name = "wordchars" -> w
    [] name = "path" -> vec          \* the directories that were hashed
    [] OTHER -> TRUE
Default(name) ==
  CASE name = "noclobber" -> {}
    [] name = "histchars" -> <<"!", "^">>
    [] name = "promptchars" -> <<">", "#">>
    [] name = "implicitcd" -> 0
    [] name = "symlinks" -> ""
    [] name = "wordchars" -> "STR_WORD_CHARS"
    [] OTHER -> FALSE
(* unset() puts these right again; path, term and home it leaves alone. *)
Reset == {"noclobber", "histchars", "promptchars", "implicitcd", "symlinks", "wordchars", "edit", "vimode"}

tsetenv(s, name, val) == [s EXCEPT !.env = (name :> val) @@ @]
tsetenvAll(s, names, val) == [s EXCEPT !.env = [n \in names |-> val] @@ @]
exportpath(s, vec) ==
  LET stop == {i \in DOMAIN vec : i > 1 /\ vec[i] = ")"}
      kept == IF stop = {} THEN vec ELSE SubSeq(vec, 1, Min(stop) - 1)
  IN tsetenv(s, "PATH", FlattenSeq([i \in DOMAIN kept |-> Parts[kept[i]]]))

\* Mutant: only what was set with -w is looked at.
assignAny(s, name, vec, flags) == [s EXCEPT !.shvhed = setq(@, name, vec, flags)]
(* Write a variable; nobody writes a read-only one. *)
assign(s, name, vec, flags) ==
  IF Flags(s, name) = "ro" THEN Failed(s) ELSE [s EXCEPT !.shvhed = setq(@, name, vec, flags)]
setv(s, name, w, flags) == assign(s, name, <<w>>, flags)
globall(vec) == FlattenSeq([i \in DOMAIN vec |-> IF vec[i] \in DOMAIN Globs THEN Globs[vec[i]] ELSE <<vec[i]>>])
Unique(vec, how) ==
  LET keep(i) == CASE how = "-f" -> \A j \in 1 .. i - 1 : vec[j] # vec[i]
                   [] how = "-l" -> \A j \in i + 1 .. Len(vec) : vec[j] # vec[i]
                   [] OTHER -> TRUE
      kept == {i \in DOMAIN vec : keep(i)}
  IN [n \in 1 .. Cardinality(kept) |-> vec[CHOOSE i \in kept : Cardinality({j \in kept : j <= i}) = n]]
set1(s, name, vec, flags, how) ==
  IF flags = "ro" /\ Flags(s, name) = "rwonly" THEN Failed(s)
  ELSE IF vec # <<>> /\ globall(vec) = <<>> THEN Failed(s)
  ELSE assign(s, name, Unique(globall(vec), how), flags)

\* The words that the editor takes for parts of a name, as vi has them or not.
update_wordchars(c) ==
  [c EXCEPT !["wordchars"] = IF @ \notin {"STR_WORD_CHARS", "STR_WORD_CHARS_VI"} THEN @
                             ELSE IF c["vimode"] THEN "STR_WORD_CHARS_VI" ELSE "STR_WORD_CHARS"]

(* The editor comes on when a terminal gets a name that it can work with. *)
NewTerm(s, w, never) ==
  LET on == [s EXCEPT !.c["edit"] = TRUE, !.noediting = FALSE]
  IN IF s.noediting /\ w \notin never THEN setv(on, "edit", "", "rw") ELSE s
Home(s) ==
  LET s1 == setv(s, "home", Canon[varval(s, "home")], "rw")
  IN IF s1.err THEN s1 ELSE tsetenv(s1, "HOME", Canon[varval(s, "home")])
(* After every assignment but those of foreach and of the shell itself. *)
update_vars(s, name) ==
  LET w == varval(s, name)
      s1 == IF name \in DOMAIN s.c THEN [s EXCEPT !.c[name] = Derived(name, Vec(s, name))] ELSE s
      s2 == CASE name = "path" -> exportpath(s1, Vec(s, name))
              [] name = "home" -> Home(s1)
              [] name = "term" -> NewTerm(tsetenv(s1, "TERM", w), w, {"network", "unknown", "dumb"})
              [] name = "edit" -> [s1 EXCEPT !.noediting = FALSE]
              [] name = "vimode" -> [s1 EXCEPT !.c = update_wordchars(@)]
              [] name \in DOMAIN Mirror -> tsetenvAll(s1, Mirror[name], w)
              [] OTHER -> s1
  IN IF s.err THEN s
     ELSE IF s2.err THEN Late(s2, {name}) ELSE [s2 EXCEPT !.late = @ \ {name}]

(* One element of a list.  The old word is on the cleanup stack while the new
   one is expanded: an expansion that fails frees a word that the list still has. *)
asx(s, name, sub, w) ==
  LET a == adrof(s, name)
      new == globall(<<w>>)
  IN IF a = Nil \/ sub \notin DOMAIN Vec(s, name) \/ Flags(s, name) = "ro" THEN Failed(s)
     ELSE IF Len(new) # 1 THEN [Failed(s) EXCEPT !.shvhed[a].vec[sub] = FREED]
     ELSE [s EXCEPT !.shvhed[a].vec[sub] = new[1]]
operate(op, a, b) ==
  LET n(w) == IF w = "" THEN 0 ELSE CHOOSE i \in DOMAIN Numbers : Numbers[i] = w
      r == IF op = "+" THEN n(a) + n(b) ELSE n(a) - n(b)
  IN IF r \in DOMAIN Numbers THEN Numbers[r] ELSE "0"

doset(s, name, vec, flags, how) == update_vars(set1(s, name, vec, flags, how), name)
dosetElement(s, name, sub, w) == update_vars(asx(s, name, sub, w), name)
dolet(s, name, sub, op, w) ==
  LET old == IF sub = 0 THEN varval(s, name) ELSE Vec(s, name)[sub]
  IN IF sub # 0 /\ (~Has(s, name) \/ sub \notin DOMAIN Vec(s, name)) THEN Failed(s)
     ELSE IF ~IsNumber(w) \/ (op # "=" /\ ~IsNumber(old)) THEN Failed(s)
     ELSE LET val == IF op = "=" THEN w ELSE operate(op, old, w)
          IN update_vars(IF sub = 0 THEN setv(s, name, val, "rw") ELSE asx(s, name, sub, val), name)
shift(s, name) ==
  IF ~Has(s, name) \/ Vec(s, name) = <<>> THEN Failed(s)
  ELSE update_vars([s EXCEPT !.shvhed[adrof(s, name)].vec = Tail(@)], name)
doforeach(s, name, w) ==
  LET s1 == setv(s, name, w, "rw") IN IF s1.err THEN s1 ELSE Late(s1, {name})

(* The variables of a tree that match, one after the other, up to the first
   that is read-only. *)
RECURSIVE unset1(_, _)
unset1(h, patterns) ==
  IF patterns = <<>> THEN [tree |-> h, err |-> FALSE]
  ELSE LET p == madrof(h, patterns[1])
       IN IF p = Nil THEN unset1(h, Tail(patterns))
          ELSE IF h[p].v_flags = "ro" THEN [tree |-> h, err |-> TRUE]
          ELSE unset1(unsetv1(h, p), patterns)
\* Mutant: unset() looks at the words that it was given and not at the variables.
unsetNamed(s, patterns) ==
  LET r == unset1(s.shvhed, patterns)
      s1 == [s EXCEPT !.shvhed = r.tree]
      off == {n \in Reset \cap DOMAIN s.c : patterns[1] = {n}}
  IN IF r.err THEN Late(Failed(s1), Names)
     ELSE [s1 EXCEPT !.c = [n \in DOMAIN s.c |-> IF n \in off THEN Default(n) ELSE s.c[n]]]
unset(s, patterns) ==
  LET r == unset1(s.shvhed, patterns)
      s1 == [s EXCEPT !.shvhed = r.tree]
      gone == {n \in Names : Has(s, n) /\ ~Has(s1, n)}
      off == {n \in Reset \cap DOMAIN s.c : ~Has(s1, n)}
      c1 == [n \in DOMAIN s.c |-> IF n \in off THEN Default(n) ELSE s.c[n]]
  IN IF r.err THEN Late(Failed(s1), gone)
     ELSE [s1 EXCEPT !.c = update_wordchars(c1), !.late = @ \ off,
                     !.noediting = @ /\ ~(Has(s, "edit") /\ ~Has(s1, "edit"))]
importpath(s, dirs) ==
  assign(s, "path", [i \in DOMAIN dirs |-> IF dirs[i] = "" THEN "." ELSE dirs[i]], "rw")
dosetenv(s, name, val) ==
  LET s1 == tsetenv(s, name, val)
      s2 == CASE name = "PATH" -> importpath(s1, val)
              [] name = "TERM" -> setv(s1, "term", val, "rw")
              [] name = "HOME" -> setv(s1, "home", Canon[val], "rw")
              [] name = "SHLVL" -> setv(s1, "shlvl", val, "rw")
              [] OTHER -> s1
      var == CASE name = "PATH" -> {"path"} [] name = "TERM" -> {"term"} [] name = "HOME" -> {"home"}
               [] name = "SHLVL" -> {"shlvl"} [] OTHER -> {}
  IN IF s2.err THEN Late(s2, var)
     ELSE CASE name = "PATH" -> [s2 EXCEPT !.c["path"] = Vec(s2, "path"), !.late = @ \ {"path"}]
            [] name = "TERM" -> NewTerm([s2 EXCEPT !.late = @ \ {"term"}], val, {"unknown", "dumb"})
            [] OTHER -> [s2 EXCEPT !.late = @ \ var]
dounsetenv(s, patterns) == [s EXCEPT !.env = [n \in DOMAIN @ \ UNION Range(patterns) |-> @[n]]]
doalias(s, name, vec) ==
  IF name \in {"alias", "unalias"} THEN Failed(s) ELSE [s EXCEPT !.aliases = setq(@, name, vec, "rw")]
unalias(s, patterns) == [s EXCEPT !.aliases = unset1(@, patterns).tree]

Start == [shvhed |-> EmptyTree, aliases |-> EmptyTree, env |-> <<>>, noediting |-> FALSE, err |-> FALSE, late |-> {},
          c |-> [n \in Reset \cup {"path"} |-> IF n = "path" THEN <<>> ELSE Default(n)]]
Init == /\ group \in Groups
        /\ sh \in {Start} \cup (IF "term" \in group THEN {[Start EXCEPT !.noediting = TRUE]} ELSE {})

Do(s) == sh' = [s EXCEPT !.shvhed = Canonical(@), !.aliases = Canonical(@), !.err = FALSE] /\ UNCHANGED group
Set == \E n \in group, flags \in {"rw", "ro", "rwonly"}, how \in {"", "-f", "-l"} : \E vec \in Values[n] :
         /\ flags # "rw" => n \in Guarded
         /\ how # "" => n = "x"
         /\ Do(doset(sh, n, vec, flags, how))
SetElement == \E n \in group, sub \in 1 .. 2, w \in DOMAIN Globs \cup {"1"} :
                n = "x" /\ Do(dosetElement(sh, n, sub, w))
Let == \E n \in group, sub \in 0 .. 2, op \in {"=", "+", "-"}, w \in {"1", "b"} :
         n \in {"x", "shlvl"} /\ Do(dolet(sh, n, sub, op, w))
Shift == \E n \in group \cap Listed : Do(shift(sh, n))
Foreach == \E n \in group \cap Listed : \E vec \in Values[n] : Len(vec) = 1 /\ Do(doforeach(sh, n, vec[1]))
Unset == \E p \in Patterns : UNION Range(p) \subseteq group /\ Do(unset(sh, p))
Setenv == \E n \in DOMAIN EnvValues : \E val \in EnvValues[n] :
            /\ \E v \in group : v \in DOMAIN Mirror /\ n \in Mirror[v]
            /\ Do(dosetenv(sh, n, val))
UnsetenvCmd == \E n \in DOMAIN sh.env : Do(dounsetenv(sh, <<{n}>>))
Alias == \E n \in group : "alias" \in group /\ Do(doalias(sh, n, <<"1">>))
Unalias == \E p \in Patterns : "alias" \in group /\ UNION Range(p) \subseteq group /\ Do(unalias(sh, p))
Next == Set \/ SetElement \/ Let \/ Shift \/ Foreach \/ Unset \/ Setenv \/ UnsetenvCmd \/ Alias \/ Unalias
Spec == Init /\ [][Next]_vars

(* Both trees hold every variable once, in order, balanced, and are found and
   listed through the same links whatever was set and unset before. *)
TreesSound == Sound(sh.shvhed) /\ Sound(sh.aliases)
(* The shell behaves as its variables say: what it keeps of a variable in C is
   what the variable's present value makes of it, or the default when it is not
   set, unless foreach or a builtin that failed half way assigned it last. *)
FlagsMatch ==
  \A n \in DOMAIN sh.c \ sh.late :
    IF Has(sh, n) THEN sh.c[n] = Derived(n, Vec(sh, n))
    ELSE n \in Reset => sh.c[n] = update_wordchars([sh.c EXCEPT ![n] = Default(n)])[n]
Import(dirs) == [i \in DOMAIN dirs |-> IF dirs[i] = "" THEN "." ELSE dirs[i]]
(* Child processes see what the shell sees: the environment repeats home, path,
   term and shlvl, whichever side was set last. *)
EnvMatches ==
  \A n \in DOMAIN Mirror \ sh.late : \A e \in Mirror[n] \cap DOMAIN sh.env :
    Has(sh, n) => CASE n = "path" -> Import(sh.env[e]) = Import(FlattenSeq([i \in DOMAIN Vec(sh, n) |-> Parts[Vec(sh, n)[i]]]))
                    [] n = "home" -> Canon[sh.env[e]] = varval(sh, n)
                    [] OTHER -> sh.env[e] = varval(sh, n)
(* What is read-only stays: no builtin unsets it or gives it other words; only
   shift takes words from its front. *)
KeepsReadOnly ==
  \A n \in Names : Flags(sh, n) = "ro" => Flags(sh', n) = "ro" /\ IsSuffix(Vec(sh', n), Vec(sh, n))
=============================================================================
