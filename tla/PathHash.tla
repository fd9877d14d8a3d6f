------------------------------- MODULE PathHash -------------------------------
(* Finding the file of a command (sh.exec.c): a walk along $path that skips the
   directories in which the hash table of command names has no bit for the name,
   in three versions: doexec() runs the command, iscommand() answers which, and
   find_cmd() answers where and the -X test. *)
EXTENDS Integers, Sequences, SequencesExt, FiniteSetsExt, Functions, TLC

CONSTANTS
  Paths,     \* the values of $path that are used, sequences of directories
  Absolute,  \* the directories whose names start with /
  Commands,  \* the names of commands
  Slashed,   \* those with a / in them: they are not looked for along $path
  Builtins,  \* those that are builtins
  Aliased,   \* those that may have an alias
  HashName,  \* a name -> its hash value, before it is cut to the rows of the table
  Char,      \* the bits of a char (8 in the code)
  Buckets,   \* rows of the table for each char of its width (512 in the code)
  Kinds,     \* what a file may be: a binary, a script without magic, not executable
  MaxFiles   \* bound: files of these names at a time
PathHashAssumption ==
  /\ Slashed \subseteq Commands /\ "" \notin Absolute
  /\ HashName \in [Commands -> Nat] /\ Char \in Nat \ {0} /\ Buckets \in Nat \ {0}
  /\ Paths \subseteq Seq(STRING)
  /\ \A p \in Paths : \A i \in DOMAIN p : p[i] # "Permission denied"  \* a message of texec()

VARIABLES
  path,      \* $path, or Unset
  files,     \* <<directory, name>> -> the kind of the file there
  havhash,
  xhash,     \* the table: hashlength rows, hashwidth chars wide, and the bits that are set
  auto,      \* $autorehash
  aliases,   \* the names that have an alias
  fresh      \* no file and no directory has been added since dohash()
vars == <<path, files, havhash, xhash, auto, aliases, fresh>>

Unset == <<"unset">>
Here == ""                     \* the working directory
NotFound == "Command not found"
justabs == <<Here>>
Executable == {"binary", "script"}

(* The width of a table follows the length of $path, its number of rows the width;
   both given by hand (rehash 1000 2) are left out.  The place i of $path has bit i
   of a row, modulo the width. *)
hashwidth(p) == CASE Len(p) <= Char -> 1
                  [] Len(p) > Char /\ Len(p) <= 2 * Char -> 2
                  [] Len(p) > 2 * Char /\ Len(p) <= 4 * Char -> 4
                  [] OTHER -> 8
hashlength(p) == hashwidth(p) * Buckets
Column(i, width) == (i - 1) % (Char * width)
(* hashname() reduces by hashlength at every letter; as every length divides the
   longest, that is one value cut to the length. *)
hashname(n, length) == HashName[n] % length
(* dohash(): readdir() gives every file of a directory, of whatever kind. *)
Bits(p) == {<<hashname(x[2], hashlength(p)), Column(x[1], hashwidth(p))>> :
              x \in {y \in (DOMAIN p) \X Commands : p[y[1]] \in Absolute /\ <<p[y[1]], y[2]>> \in DOMAIN files}}
Table(p) == [length |-> hashlength(p), width |-> hashwidth(p), bits |-> Bits(p)]
\* Without $path dohash() returns as soon as it has cleared the width.
Rehashed == IF path = Unset THEN [xhash EXCEPT !.width = 0] ELSE Table(path)
(* The places of $path with a bit in a row of the table t.  What is read beyond the
   rows of t, or in a table whose width is lost, is whatever is there: the set junk. *)
bit(t, row, junk) ==
  {i \in DOMAIN path : IF t.width = 0 \/ row >= t.length THEN i \in junk ELSE <<row, Column(i, t.width)>> \in t.bits}
\* The table is as long as that of the present $path: set and rehash leave it so,
\* foreach (and unset) with path as its variable need not.
Sized == path # Unset /\ xhash.length = hashlength(path)
\* What may be found beyond the table, if anything can be read there.
Junk == IF Sized /\ xhash.width # 0 THEN {{}} ELSE SUBSET DOMAIN path
(* The hash value of a name is computed once, with the length the table has then:
   the table of autorehash is read in the row of the table before it. *)
hashval(n) == hashname(n, xhash.length)
Tried(n, junk) == bit(xhash, hashval(n), junk)
Retried(n, junk) == bit(Rehashed, hashval(n), junk)

opv(n) == IF path \in {Unset, <<>>} \/ n \in Slashed THEN justabs ELSE path
Skipped(b, n, i) == n \notin Slashed /\ opv(n)[i] \in Absolute /\ havhash /\ i \notin b
Kind(d, n) == IF <<d, n>> \in DOMAIN files THEN files[d, n] ELSE "absent"

(* The places of $path where the bits b let one look. *)
Looked(b, n) == {i \in DOMAIN opv(n) : ~Skipped(b, n, i)}
Rehashes(n) == auto /\ havhash /\ opv(n) # justabs

(* texec(): a file that execv() refuses for another reason than that it is not
   there leaves its message, a script without magic goes to a shell. *)
texec(d, n) == CASE Kind(d, n) = "binary" -> "ran"
                 [] Kind(d, n) = "script" -> "ran by sh"
                 [] Kind(d, n) = "plain" -> "Permission denied"
                 [] OTHER -> ""
Run(b, n) ==
  LET ok == {i \in Looked(b, n) : Kind(opv(n)[i], n) \in Executable}
  IN IF ok = {} THEN <<>> ELSE <<opv(n)[Min(ok)], texec(opv(n)[Min(ok)], n)>>
exerr(b, n) ==
  LET bad == {i \in Looked(b, n) : texec(opv(n)[i], n) = "Permission denied"}
  IN IF bad = {} THEN NotFound ELSE "Permission denied"
(* What becomes of the command.  The child that runs it has its own table. *)
doexec(n, junk) ==
  LET first == Run(Tried(n, junk), n)
      again == IF Rehashes(n) THEN Run(Retried(n, junk), n) ELSE <<>>
  IN IF path = Unset /\ n \notin Slashed THEN <<NotFound>>
     ELSE IF first # <<>> THEN first
     ELSE IF again # <<>> THEN again
     ELSE <<IF exerr(Tried(n, junk), n) # NotFound THEN exerr(Tried(n, junk), n)
            ELSE IF Rehashes(n) THEN exerr(Retried(n, junk), n) ELSE NotFound>>

executable(d, n) == Kind(d, n) \in Executable
\* The place along $path, or 0.
Place(b, n) == LET ok == {i \in Looked(b, n) : executable(opv(n)[i], n)} IN IF ok = {} THEN 0 ELSE Min(ok)
iscommand(n, junk) ==
  IF Place(Tried(n, junk), n) # 0 THEN Place(Tried(n, junk), n)
  ELSE IF Rehashes(n) THEN Place(Retried(n, junk), n) ELSE 0
tellmewhat(n, junk) ==
  IF n \in Builtins THEN <<"builtin">>
  ELSE IF iscommand(n, junk) = 0 THEN <<NotFound>> ELSE <<opv(n)[iscommand(n, junk)]>>
cmd_expand(n, junk) == IF n \in aliases THEN <<"alias">> ELSE tellmewhat(n, junk)
(* What the parser and execute() do with the name. *)
Executes(n, junk) ==
  IF n \in aliases THEN <<"alias">> ELSE IF n \in Builtins THEN <<"builtin">> ELSE doexec(n, junk)

(* find_cmd() skips by name, when there is a table (hav): every directory but "."
   is taken to be hashed. *)
Hits(hav, b, n) == IF path = Unset THEN {}
                   ELSE {i \in DOMAIN path : /\ ~(hav /\ path[i] # "." /\ i \notin b)
                                             /\ executable(path[i], n)}
\* Mutant: the table is renewed after the hash value has been computed.
dowhereStale(n, junk) ==
  IF n \in Slashed THEN {}
  ELSE (IF auto THEN Hits(TRUE, Retried(n, junk), n) ELSE Hits(havhash, Tried(n, junk), n))
       \cup (IF n \in Builtins THEN {0} ELSE {})
\* Where it is reported: a set of places, and what it is besides.
dowhere(n, junk) ==
  IF n \in Slashed THEN {}
  ELSE (IF auto THEN Hits(TRUE, bit(Rehashed, hashname(n, Rehashed.length), junk), n)
        ELSE Hits(havhash, Tried(n, junk), n))
       \cup (IF n \in Builtins THEN {0} ELSE {})
IsX(n, junk) == \/ n \in Builtins
                \/ Hits(havhash, Tried(n, junk), n) # {}
                \/ auto /\ havhash /\ Hits(TRUE, Retried(n, junk), n) # {}

\* Without $path the old table stays, if there was one.
Rehash == /\ xhash' = Rehashed
          /\ havhash' = (havhash \/ path # Unset)
          /\ fresh' = (path # Unset)
Init == /\ path \in Paths
        /\ files = <<>>
        /\ havhash = TRUE /\ xhash = Table(path)
        /\ auto = FALSE
        /\ aliases = {}
        /\ fresh = TRUE
SetPath == \E p \in Paths :
  /\ path' = p
  /\ havhash' = TRUE
  /\ xhash' = Table(p)
  /\ fresh' = TRUE
  /\ UNCHANGED <<files, auto, aliases>>
\* unset, and foreach, leave the table as it is.
UnsetPath == path' = Unset /\ fresh' = FALSE /\ UNCHANGED <<files, havhash, xhash, auto, aliases>>
ForeachPath == \E p \in Paths : Len(p) = 1 /\ path' = p /\ fresh' = FALSE /\ UNCHANGED <<files, havhash, xhash, auto, aliases>>
dohash == Rehash /\ UNCHANGED <<path, files, auto, aliases>>
dounhash == havhash' = FALSE /\ xhash' = [xhash EXCEPT !.bits = {}] /\ UNCHANGED <<path, files, auto, aliases, fresh>>
Autorehash == auto' = ~auto /\ UNCHANGED <<path, files, havhash, xhash, aliases, fresh>>
Alias == \E n \in Aliased : aliases' = SymDiff(aliases, {n}) /\ UNCHANGED <<path, files, havhash, xhash, auto, fresh>>
\* which rehashes in the shell itself when it must; so does where, and the -X test.
Which == \E n \in Commands \ (Builtins \cup aliases) :
  /\ \E junk \in Junk : Place(Tried(n, junk), n) = 0
  /\ Rehashes(n)
  /\ Rehash
  /\ UNCHANGED <<path, files, auto, aliases>>
Where == auto /\ Rehash /\ UNCHANGED <<path, files, auto, aliases>>
TestX == \E n \in Commands \ Builtins :
  /\ path # Unset /\ auto /\ havhash
  /\ \E junk \in Junk : Hits(TRUE, Tried(n, junk), n) = {}
  /\ Rehash
  /\ UNCHANGED <<path, files, auto, aliases>>
(* Other processes. *)
Install == \E n \in Commands \ Builtins, k \in Kinds, p \in Paths : \E d \in Range(p) \cup {Here} :
  /\ n \in Slashed => d = Here
  /\ Cardinality(DOMAIN files \cup {<<d, n>>}) <= MaxFiles
  /\ files' = (<<d, n>> :> k) @@ files
  /\ fresh' = FALSE
  /\ UNCHANGED <<path, havhash, xhash, auto, aliases>>
Uninstall == \E x \in DOMAIN files :
  /\ files' = [y \in DOMAIN files \ {x} |-> files[y]]
  /\ UNCHANGED <<path, havhash, xhash, auto, aliases, fresh>>
Next == \/ SetPath \/ UnsetPath \/ ForeachPath \/ dohash \/ dounhash \/ Autorehash \/ Alias \/ Which \/ Where \/ TestX
        \/ Install \/ Uninstall
Spec == Init /\ [][Next]_vars

\* The first place along $path with something to run.
First(n) == LET ok == {i \in DOMAIN opv(n) : executable(opv(n)[i], n)} IN IF ok = {} THEN 0 ELSE Min(ok)
\* No read for the name is beyond the table, before or after autorehash.
Within(n) == havhash => /\ xhash.width # 0
                        /\ auto => hashval(n) < Rehashed.length
(* The table hides nothing: with a table of the present directories, or none, a
   command is the first one along $path.  A stale table with autorehash may pass
   over a new command but never over the last one, as long as the hash values of
   the old table are good for the new one: where foreach has made a $path of more
   than Char directories short, the last command can be lost. *)
HashHidesNothing ==
  path # Unset => \A n \in Commands \ Builtins : First(n) # 0 => \A junk \in Junk :
    /\ ~havhash \/ fresh => Place(Tried(n, junk), n) = First(n)
    /\ auto /\ Sized => iscommand(n, junk) # 0
(* which tells what will be run, whatever has become of the table, the files and
   the aliases since, as long as no bit is read beyond the table: the shell and the
   child that runs the command need not find the same there. *)
WhichRuns ==
  path # Unset => \A n \in Commands : Within(n) => \A told, found \in Junk :
    cmd_expand(n, told)[1] =
      IF Executes(n, found)[1] = "Permission denied" THEN NotFound ELSE Executes(n, found)[1]
(* where and -X find a command in an absolute directory whenever the shell would
   run it from there; -X with the same exception, where only without autorehash, as
   it makes the new table before it computes the hash value (sh.exec.c:1045). *)
WhereFinds ==
  path \notin {Unset, <<>>} => \A n \in Commands \ (Builtins \cup Slashed) :
    \A run, junk \in Junk : LET i == iscommand(n, run) IN
      i # 0 /\ path[i] \in Absolute => /\ auto \/ Within(n) => i \in dowhere(n, junk)
                                       /\ Within(n) => IsX(n, junk)
=============================================================================
