---------------------------- MODULE Descriptors ----------------------------
(* The shell's file descriptors (sh.misc.c, sh.sem.c): what standard input,
   output and diagnostics are is kept in four safe descriptors, SHIN, SHOUT,
   SHDIAG and OLDSTD, and 0, 1 and 2 exist only while a builtin runs (didfds).
   x.fd is the descriptor table: the number of every open one, with its file. *)
EXTENDS Integers, FiniteSets, FiniteSetsExt, Functions

FSAFE == 5
FSHTTY == 15
FSHIN == 16
FSHOUT == 17
FSHDIAG == 18
FOLDSTD == 19
NOFILE == 40            \* bound: the numbers a process may have

IsOpen(x, n) == n \in DOMAIN x.fd
Lowest(x, from) == Min({n \in from .. NOFILE : ~IsOpen(x, n)})
xclose(x, n) == [x EXCEPT !.fd = [k \in DOMAIN @ \ {n} |-> @[k]]]
xdup2(x, i, j) == [x EXCEPT !.fd = [k \in DOMAIN @ \cup {j} |-> IF k = j THEN x.fd[i] ELSE @[k]]]
dup(x, i) == IF IsOpen(x, i) THEN xdup2(x, i, Lowest(x, 0)) ELSE x
xopen(x, file) == [x EXCEPT !.fd = [k \in DOMAIN @ \cup {Lowest(x, 0)} |->
                                      IF k = Lowest(x, 0) THEN file ELSE @[k]]]

(* The number renum() ends with: the first free one above FSAFE. *)
renum(x) == Lowest(x, FSAFE + 1)
Copied(x, i, j) == IF ~IsOpen(x, i) \/ i = j \/ (j < 0 /\ i > FSAFE) THEN i ELSE IF j >= 0 THEN j ELSE renum(x)
dcopy(x, i, j) == IF ~IsOpen(x, i) \/ Copied(x, i, j) = i THEN x ELSE xdup2(x, i, Copied(x, i, j))
dmove(x, i, j) == IF ~IsOpen(x, i) \/ Copied(x, i, j) = i THEN x
                  ELSE xclose(xdup2(x, i, Copied(x, i, j)), i)

(* dmove() into one of the safe descriptors, named by its field. *)
MoveTo(x, field, i) == [dmove(x, i, -1) EXCEPT ![field] = Copied(x, i, -1)]
CopyTo(x, field, i) == [dcopy(x, i, -1) EXCEPT ![field] = Copied(x, i, -1)]

donefds(x) == [xclose(xclose(xclose(x, 0), 1), 2) EXCEPT !.didfds = FALSE]
closem(x) == [x EXCEPT !.fd = [n \in DOMAIN @ \cap {x.SHIN, x.SHOUT, x.SHDIAG, x.OLDSTD, FSHTTY} |-> @[n]]]

(* Descriptors 0, 1 and 2 of a command, its output to the file c.to or, when
   that is "", where the shell's goes.  A command run again keeps what it has. *)
doio(x, c, again) ==
  IF x.didfds \/ again THEN x
  ELSE LET in  == dup(xclose(x, 0), x.OLDSTD)
           out == IF c.to = "" THEN dup(xclose(in, 1), x.SHOUT)
                  ELSE LET y == dcopy(dcopy(in, x.SHOUT, 1), x.SHDIAG, 2)
                       IN dmove(xopen(y, c.to), Lowest(y, 0), 1)
       IN [dup(xclose(out, 2), x.SHDIAG) EXCEPT !.didfds = TRUE]

(* pv[0] and pv[1] of a pipe, both above FSAFE. *)
mypipe(x) ==
  LET r == Lowest(x, FSAFE + 1)
      y == [x EXCEPT !.fd = [k \in DOMAIN @ \cup {r} |-> IF k = r THEN "pipe read" ELSE @[k]]]
      w == Lowest(y, FSAFE + 1)
  IN [x |-> [y EXCEPT !.fd = [k \in DOMAIN @ \cup {w} |-> IF k = w THEN "pipe write" ELSE @[k]]],
      pv |-> <<r, w>>]

(* Where what is written now goes: flush() (sh.print.c), and a child's 1. *)
Output(x) == LET n == IF x.didfds THEN 1 ELSE x.SHOUT IN IF IsOpen(x, n) THEN x.fd[n] ELSE "closed"

(* initdesc(), and the terminal that main() opens. *)
InitialTable == [n \in {FSHTTY, FSHIN, FSHOUT, FSHDIAG, FOLDSTD} |-> "tty"]
initdesc == [fd |-> InitialTable, SHIN |-> FSHIN, SHOUT |-> FSHOUT, SHDIAG |-> FSHDIAG,
             OLDSTD |-> FOLDSTD, didfds |-> FALSE]
=============================================================================
