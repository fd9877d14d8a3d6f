------------------------------- MODULE DirPaths -------------------------------
(* The names that the shell gives to directories (sh.dir.c): an absolute path is
   the sequence of its components, <<>> being the root; a path that a user
   writes is [abs, p].  The file system is a set of directories, named by their
   physical paths, and of symbolic links to paths; gone are the directories
   that another process has removed. *)
EXTENDS Integers, Sequences, SequencesExt

CONSTANTS
  Dirs,   \* physical paths of the directories
  Links   \* physical path of a link -> where it points

NoDir == <<"?">>
Abs(p) == [abs |-> TRUE, p |-> p]
Rel(p) == [abs |-> FALSE, p |-> p]

(* The kernel: the directory that path rest leads to from directory done. *)
RECURSIVE Walk(_, _, _)
Walk(gone, done, rest) ==
  IF rest = <<>> THEN done
  ELSE LET c == Head(rest)
           d == Append(done, c)
       IN CASE c = "." -> Walk(gone, done, Tail(rest))
            [] c = ".." -> Walk(gone, IF done = <<>> THEN done ELSE Front(done), Tail(rest))
            [] d \in DOMAIN Links -> Walk(gone, IF Links[d].abs THEN <<>> ELSE done, Links[d].p \o Tail(rest))
            [] d \in Dirs \ gone -> Walk(gone, d, Tail(rest))
            [] OTHER -> NoDir
Resolve(gone, cwd, arg) ==
  IF ~arg.abs /\ cwd \in gone THEN NoDir ELSE Walk(gone, IF arg.abs THEN <<>> ELSE cwd, arg.p)
(* stat() of an absolute path, and the link it names. *)
stat(gone, path) == Walk(gone, <<>>, path)
\* Mutant: ".." is taken away from a link's own name.
areadlinkNever(gone, path) == NoDir
areadlink(gone, path) ==
  IF path = <<>> THEN NoDir
  ELSE LET d == stat(gone, Front(path))
       IN IF d # NoDir /\ Append(d, Last(path)) \in DOMAIN Links THEN Append(d, Last(path)) ELSE NoDir

(* Canonical form of path done \o rest, of which done is canonical already: a
   ".." takes away the component before it, where that is no link. *)
RECURSIVE dcanon_internal(_, _, _, _)
dcanon_internal(gone, chase, done, rest) ==
  IF rest = <<>> THEN done
  ELSE LET c == Head(rest)
           path == IF c = ".." THEN done ELSE Append(done, c)
           link == IF c = "." \/ (c # ".." /\ ~chase) THEN NoDir ELSE areadlink(gone, path)
           follow == IF link = NoDir THEN <<>> ELSE Links[link].p \o (IF c = ".." THEN rest ELSE Tail(rest))
       IN IF link # NoDir
          THEN dcanon_internal(gone, chase, IF Links[link].abs THEN <<>> ELSE Front(path), follow)
          ELSE CASE c = "." -> dcanon_internal(gone, chase, done, Tail(rest))
                 [] c = ".." -> dcanon_internal(gone, chase, IF done = <<>> THEN done ELSE Front(done), Tail(rest))
                 [] OTHER -> dcanon_internal(gone, chase, path, Tail(rest))

(* With symlinks set to ignore or expand, ".." is taken away from the name of
   the current directory, as long as what is left exists. *)
RECURSIVE Reduced(_, _, _)
Further(gone, path, rest) == IF stat(gone, path) = NoDir THEN NoDir ELSE IF rest = <<>> THEN path ELSE Reduced(gone, path, rest)
Reduced(gone, base, rest) ==
  LET p == SelectSeq(rest, LAMBDA c : c # ".")
      names == {i \in DOMAIN p : p[i] # ".."}
      ups == IF names = {} THEN Len(p) ELSE Min(names) - 1
      next == {i \in DOMAIN p : i > ups /\ p[i] = ".."}
      stop == IF next = {} THEN Len(p) ELSE Min(next) - 1
  IN Further(gone, SubSeq(base, 1, IF Len(base) > ups THEN Len(base) - ups ELSE 0) \o SubSeq(p, ups + 1, stop),
             SubSeq(p, stop + 1, Len(p)))
dnormalize(gone, name, arg, expnd) ==
  LET As(r) == IF r = NoDir THEN arg ELSE Abs(r)
  IN IF ~expnd \/ ".." \notin ToSet(arg.p) THEN arg ELSE As(Reduced(gone, IF arg.abs THEN <<>> ELSE name, arg.p))

(* A name in the directory home_ino is written with the name of $home; h has
   what is remembered of $home, which a home that does not exist leaves alone. *)
HomeKnown(gone, h) ==
  IF h.fresh \/ stat(gone, h.home) = NoDir THEN h ELSE [h EXCEPT !.ino = stat(gone, h.home), !.fresh = TRUE]
RECURSIVE HomePrefix(_, _, _)
HomePrefix(gone, ino, p) ==
  IF p = <<>> \/ stat(gone, p) = NoDir THEN 0
  ELSE IF stat(gone, p) = ino THEN Len(p) ELSE HomePrefix(gone, ino, Front(p))
InHome(h, path) == IsPrefix(h.home, path)
FixHome(gone, h, path) ==
  LET n == HomePrefix(gone, HomeKnown(gone, h).ino, path)
  IN IF InHome(h, path) \/ n = 0 THEN path ELSE h.home \o SubSeq(path, n + 1, Len(path))
HomeAfter(gone, h, path) == IF InHome(h, path) THEN h ELSE HomeKnown(gone, h)
=============================================================================
