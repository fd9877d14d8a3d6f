---------------------------------- MODULE CmdList -----------------------------------
(* The list of commands that completion and spelling offer (tw.init.c): filled when
   it is first asked for, kept until something is known to have changed, and left
   half filled by an interrupt. *)
EXTENDS Integers, Sequences, SequencesExt, FiniteSets, FiniteSetsExt

CONSTANTS
  Collated,   \* all names, in the order of fcompare()
  Builtins,   \* the names of bfunc
  Absolute, Relative, \* the directories there may be in path
  Dot,        \* the working directory, one of Relative
  Paths,      \* the values path may have
  Own,        \* the names an alias may have
  MaxChanges  \* bound: how much happens
VARIABLES
  files,      \* external: directory -> name -> "x" for an executable, "d" for a directory, "-" for another file
  path, aliases, recexec, autorehash, \* the shell's variables
  list, got,  \* tw_cmd and tw_cmd_got
  shown,      \* what the last completion took in, in order; <<>> for none
  always, ever, \* the names that could be executed all the time since the list was last freed on purpose, and at some time
  changes
cmdVars == <<files, path, aliases, recexec, autorehash, list, got, shown, always, ever, changes>>

Rank(n) == CHOOSE k \in 1 .. Len(Collated) : Collated[k] = n
Sorted(s) == SortSeq(s, LAMBDA a, b : Rank(a) < Rank(b))
Listed(S) == Sorted(SetToSeq(S))
\* What tw_cmd_cmd() takes in of a directory, and what tw_cmd_next() does, given what counts.
In(d, only) == {n \in DOMAIN files[d] : only => files[d][n] = "x"}

tw_cmd_cmd == FlattenSeq([k \in 1 .. Len(path) |-> IF path[k] \in Absolute THEN Listed(In(path[k], recexec)) ELSE <<>>])
REL == IF \E k \in 1 .. Len(path) : path[k] \in Relative THEN {"REL"} ELSE {}
tw_cmd_alias == Listed(aliases)
tw_cmd_builtin == Listed(Builtins)
Moved(l) ==
  FoldLeft(LAMBDA s, i : IF l[i] = l[i + 1] THEN [s EXCEPT !.fwd = @ + 1] ELSE IF s.fwd > 0 THEN [s EXCEPT !.list[i - s.fwd] = l[i]] ELSE s,
           [list |-> l, fwd |-> 0], [i \in 1 .. Len(l) - 1 |-> i])
\* Mutant: without the fix for the fence post.
tw_cmd_sortFence(l0) == LET m == Moved(Sorted(l0)) IN SubSeq(m.list, 1, Len(l0) - m.fwd)
(* tw_cmd_sort(): sorted, what comes twice moved over in place. *)
tw_cmd_sort(l0) ==
  LET l == Sorted(l0)
      m == Moved(l)
      last == [i \in 1 .. Len(l) |-> IF m.fwd > 0 /\ i = Len(l) - m.fwd THEN l[Len(l)] ELSE m.list[i]]
  IN SubSeq(last, 1, Len(l) - m.fwd)

(* tw_cmd_start(): each part that is not there yet; what there is after so many
   parts, and how much of the next was added when an interrupt came (-1: none). *)
Begun == IF "CMD" \in got THEN [list |-> list, got |-> got] ELSE [list |-> <<>>, got |-> {}]
Fresh == [list |-> <<>>, got |-> {}]
Adds(part) == CASE part = "CMD" -> tw_cmd_cmd [] part = "ALIAS" -> tw_cmd_alias [] part = "BUILTIN" -> tw_cmd_builtin
After(s, part) ==
  IF part \in s.got THEN s
  ELSE [list |-> s.list \o Adds(part), got |-> (IF part = "CMD" THEN REL ELSE s.got \ {"SORT"}) \cup {part}]
Parts == <<"CMD", "ALIAS", "BUILTIN">>
Filled(s, n) == FoldLeft(After, s, SubSeq(Parts, 1, n))
tw_cmd_start(s) ==
  LET f == Filled(s, 3) IN IF "SORT" \in f.got THEN f ELSE [list |-> tw_cmd_sort(f.list), got |-> f.got \cup {"SORT"}]
\* ... and the directories to look in after the list: defpath is the working directory.
pathv(g) == IF "REL" \in g /\ path # <<>> THEN path ELSE <<Dot>>
\* What TW_EXEC_CHK leaves of a directory; TW_DIR_OK is set in the working directory.
Checked(d) == {n \in DOMAIN files[d] : files[d][n] = "x" \/ (d = Dot /\ files[d][n] = "d")}
(* tw_cmd_next(): the list, then the relative directories as they are now. *)
tw_cmd_next(l, g) ==
  LET dirs == SelectSeq(pathv(g), LAMBDA d : d \in Relative)
  IN l \o FlattenSeq([k \in 1 .. Len(dirs) |-> Listed(Checked(dirs[k]))])

Reached(p, f, only) == UNION {{n \in DOMAIN f[p[k]] : only => f[p[k]][n] = "x"} : k \in {j \in 1 .. Len(p) : p[j] \in Absolute}}
Init ==
  /\ \E p \in Paths : path = p
  /\ files \in [Absolute \cup Relative -> {[n \in {} |-> ""]} \cup {[n \in {x} |-> "x"] : x \in Own}]
  /\ aliases \in {{}, Own} /\ recexec = FALSE /\ autorehash \in {"", "always", "complete"}
  /\ list = <<>> /\ got = {} /\ shown = <<>> /\ changes = 0
  /\ always = Reached(path, files, FALSE) /\ ever = always
tw_cmd_free == list' = <<>> /\ got' = {} /\ always' = Reached(path', files', recexec') /\ ever' = always'
Kept == list' = list /\ got' = got /\ always' = always \cap Reached(path', files', recexec') /\ ever' = ever \cup Reached(path', files', recexec')
Change == changes < MaxChanges /\ changes' = changes + 1 /\ shown' = <<>> /\ UNCHANGED autorehash
Alias(n) == Change /\ aliases' = aliases \cup {n} /\ UNCHANGED <<files, path, recexec>> /\ tw_cmd_free
Unalias(n) == Change /\ aliases' = aliases \ {n} /\ UNCHANGED <<files, path, recexec>> /\ tw_cmd_free
\* set path, setenv PATH: dohash(), as rehash alone does; unset path leaves the list.
SetPath(p) == Change /\ path' = p /\ UNCHANGED <<files, aliases, recexec>> /\ tw_cmd_free
UnsetPath == Change /\ path # <<>> /\ path' = <<>> /\ UNCHANGED <<files, aliases, recexec>> /\ Kept
SetRecognize == Change /\ recexec' = ~recexec /\ UNCHANGED <<files, path, aliases>> /\ tw_cmd_free
\* A file is made, changed or removed by another program.
File(d, n, how) ==
  /\ Change /\ UNCHANGED <<path, aliases, recexec>>
  /\ files' = [files EXCEPT ![d] = [x \in (DOMAIN @ \cup {n}) \ (IF how = "" THEN {n} ELSE {}) |-> IF x = n THEN how ELSE @[x]]]
  /\ Kept
(* A completion: autorehash fills the list once more. *)
Offer ==
  /\ changes < MaxChanges /\ changes' = changes + 1
  /\ LET s == tw_cmd_start(Begun)
         t == IF autorehash = "" THEN s ELSE tw_cmd_start(Fresh)
     IN /\ list' = t.list /\ got' = t.got /\ shown' = tw_cmd_next(t.list, t.got)
        /\ IF autorehash # "" \/ "CMD" \notin got THEN always' = Reached(path, files, recexec) /\ ever' = always' ELSE UNCHANGED <<always, ever>>
  /\ UNCHANGED <<files, path, aliases, recexec, autorehash>>
\* ^C while the k-th part is added, to what there was or, with autorehash, to nothing.
Interrupted(k) ==
  /\ Change /\ UNCHANGED <<files, path, aliases, recexec>>
  /\ \E s0 \in {Begun} \cup (IF autorehash = "" THEN {} ELSE {Fresh}) :
       LET s == Filled(s0, k - 1)
           add == Adds(Parts[k])
       IN /\ Parts[k] \notin s.got
          /\ \E n \in 0 .. Len(add) : list' = s.list \o SubSeq(add, 1, n)
          /\ got' = s.got \cup (IF k = 1 THEN REL ELSE {})
          /\ IF s0 = Fresh THEN always' = Reached(path, files, recexec) /\ ever' = always' ELSE UNCHANGED <<always, ever>>
Next ==
  \/ \E n \in Own : Alias(n) \/ Unalias(n)
  \/ \E p \in Paths : SetPath(p)
  \/ UnsetPath \/ SetRecognize \/ Offer
  \/ \E d \in Absolute \cup Relative, n \in Own, how \in {"x", "d", "-", ""} : File(d, n, how)
  \/ \E k \in 1 .. 3 : Interrupted(k)
Spec == Init /\ [][Next]_cmdVars

(* What can be run from a directory that is not absolute; without one in path the
   working directory is looked in all the same, although nothing runs from there. *)
Around ==
  LET rel == {path[k] : k \in DOMAIN path} \cap Relative
  IN UNION {Checked(d) : d \in IF rel = {} THEN {Dot} ELSE rel}
(* What is offered as a command is a builtin, an alias there is now, or a name in
   path: each that was there ever since the list was last freed, none that was
   never there since, each once; and what is there now in the relative directories
   of path, or in the working directory if path has none (where no command would
   be found).  An interrupt or an alias that was removed leaves nothing behind.
   foreach with path as its variable, which frees nothing, is left out. *)
OffersWhatIsThere ==
  shown # <<>> =>
    LET named == Builtins \cup aliases
        mine == {list[k] : k \in DOMAIN list}
    IN /\ \A k \in 1 .. Len(list) - 1 : Rank(list[k]) < Rank(list[k + 1])
       /\ named \cup always \subseteq mine /\ mine \subseteq named \cup ever
       /\ {shown[k] : k \in DOMAIN shown} = mine \cup Around
=============================================================================
