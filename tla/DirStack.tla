------------------------------- MODULE DirStack -------------------------------
(* The directory stack (sh.dir.c): a ring of entries that goes through the
   header dhead, of which dcwd is the current one; walking di_prev from dcwd
   gives the stack as the user sees it.  Jobs keep the entry they were started
   in (p_cwd, di_count), and the variables cwd, owd and dirstack repeat what the
   ring says. *)
EXTENDS DirPaths, FiniteSets, FiniteSetsExt, TLC

CONSTANTS
  Args,      \* the paths a user may name
  CdPath,    \* $cdpath, a sequence of paths
  VarDirs,   \* name -> absolute path: variables that hold a directory
  Homes,     \* the values of $home
  Shifting,  \* directories that another process removes and makes again
  Saved,     \* the stacks that a login shell may load, the last entry first
  Assigned,  \* the lists that $dirstack may be set to
  Modes,     \* the settings of the shell: [symlinks, dunique, dextract, pushdtohome]
  MaxDirs,   \* bound: entries in the ring
  MaxJobs,   \* bound: jobs
  MaxSteps   \* bound: builtins that do something
VARIABLES ds, op, steps
vars == <<ds, op, steps>>

HEAD == 0
Nil == -1
Ids == 1 .. MaxDirs + MaxJobs + 1
Entry(nxt, prv, name) == [di_next |-> nxt, di_prev |-> prv, di_name |-> name, di_count |-> 0]
Fresh(s) == Min(Ids \ DOMAIN s.e)
Name(s, d) == s.e[d].di_name

(* di_prev from the entry d on, the header left out. *)
Before(s, d) == IF s.e[d].di_prev = HEAD THEN s.e[HEAD].di_prev ELSE s.e[d].di_prev
RECURSIVE Walked(_, _, _)
Walked(s, d, until) == IF d = until THEN <<>> ELSE <<d>> \o Walked(s, Before(s, d), until)
Stack(s) == <<s.dcwd>> \o Walked(s, Before(s, s.dcwd), s.dcwd)
printdirs(s) == [i \in DOMAIN Stack(s) |-> Name(s, Stack(s)[i])]
RECURSIVE FromHead(_, _)
FromHead(s, d) == IF d = HEAD THEN <<>> ELSE <<d>> \o FromHead(s, s.e[d].di_prev)

Unlink(s, d) == [s EXCEPT !.e = [[@ EXCEPT ![s.e[d].di_prev].di_next = s.e[d].di_next]
                                      EXCEPT ![s.e[d].di_next].di_prev = s.e[d].di_prev]]
(* Put d between dcwd and what follows it. *)
LinkAfterCwd(s, d) ==
  LET n == s.e[s.dcwd].di_next
      e1 == [s.e EXCEPT ![d].di_next = n, ![d].di_prev = s.dcwd]
      e2 == [e1 EXCEPT ![s.dcwd].di_next = d]
  IN [s EXCEPT !.e = [e2 EXCEPT ![n].di_prev = d]]
New(s, name) == [s EXCEPT !.e = (Fresh(s) :> Entry(Nil, Nil, name)) @@ @]
dfree(s, d) ==
  IF s.e[d].di_count # 0 THEN [s EXCEPT !.e[d].di_next = Nil, !.e[d].di_prev = Nil]
  ELSE [s EXCEPT !.e = [i \in DOMAIN @ \ {d} |-> @[i]]]

(* The variables. *)
dset(s, name) == [s EXCEPT !.owd = s.cwdvar, !.cwdvar = name]
dgetstack(s) == LET t == FromHead(s, s.e[HEAD].di_prev) IN [s EXCEPT !.dirstack = [i \in DOMAIN t |-> Name(s, t[i])]]

(* d is the new current entry; another one of the same name goes. *)
DropDuplicate(s, d) ==
  LET same == SelectSeq(FromHead(s, s.e[HEAD].di_prev), LAMBDA o : o # d /\ Name(s, o) = Name(s, d))
  IN IF s.mode.dunique /\ same # <<>> THEN dfree(Unlink(s, Head(same)), Head(same)) ELSE s
dnewcwd(s, d) ==
  LET s1 == [DropDuplicate(s, d) EXCEPT !.dcwd = d] IN dgetstack(dset(s1, Name(s1, d)))

chdir(s, arg) == LET d == Resolve(s.gone, s.pwd, arg) IN IF d = NoDir THEN s ELSE [s EXCEPT !.pwd = d]
Can(s, arg) == Resolve(s.gone, s.pwd, arg) # NoDir
dgoto(s, arg) ==
  LET c == dcanon_internal(s.gone, s.mode.symlinks = "chase", IF arg.abs THEN <<>> ELSE Name(s, s.dcwd), arg.p)
  IN [ok |-> TRUE, name |-> FixHome(s.gone, s.home, c),
      s |-> [chdir(s, arg) EXCEPT !.home = HomeAfter(s.gone, s.home, c)]]
(* The first of the ways to read a path that leads to a directory. *)
dways(s, a) ==
  LET Ignored(p, also) == dnormalize(s.gone, Name(s, s.dcwd), p, s.mode.symlinks \in {"ignore"} \cup also)
      plain == ~a.abs /\ ~(Len(a.p) > 1 /\ Head(a.p) \in {".", ".."})
  IN <<Ignored(a, {}), a>>
     \o (IF plain THEN [i \in DOMAIN CdPath |-> Ignored([CdPath[i] EXCEPT !.p = @ \o a.p], {"expand"})] ELSE <<>>)
     \o (IF plain /\ Len(a.p) = 1 /\ a.p[1] \in DOMAIN VarDirs THEN <<Abs(VarDirs[a.p[1]])>> ELSE <<>>)
dgotoFirst(s, works) == IF works = <<>> THEN [ok |-> FALSE, name |-> <<>>, s |-> s] ELSE dgoto(s, Head(works))
dfollow(s, arg, old) ==
  dgotoFirst(s, SelectSeq(dways(s, IF old THEN arg ELSE dnormalize(s.gone, Name(s, s.dcwd), arg, s.mode.symlinks = "expand")),
                          LAMBDA a : Can(s, a)))

(* +n counts from the current directory, -n from the end at the header. *)
dfind(s, sign, n) ==
  IF sign = "+" THEN IF n >= 1 /\ n < Len(Stack(s)) THEN Stack(s)[n + 1] ELSE Nil
  ELSE LET t == Reverse(FromHead(s, s.e[HEAD].di_prev))
       IN IF n < Len(t) /\ t[n + 1] # s.dcwd THEN t[n + 1] ELSE Nil

---------------------------------------------------------------------------
(* The builtins.  An error leaves everything as it is. *)
ReplaceCwd(s, name) ==
  LET d == Fresh(s)
      c == s.e[s.dcwd]
      s1 == New(s, name)
      e1 == [s1.e EXCEPT ![d].di_next = c.di_next, ![d].di_prev = c.di_prev]
      e2 == [e1 EXCEPT ![c.di_prev].di_next = d]
  IN dnewcwd(dfree([s1 EXCEPT !.e = [e2 EXCEPT ![c.di_next].di_prev = d]], s.dcwd), d)
ReplaceFollowed(s, f) == IF f.ok THEN ReplaceCwd(f.s, f.name) ELSE s
dochngdPath(s, arg, old) == ReplaceFollowed(s, dfollow(s, arg, old))
dochngdHome(s) == IF Can(s, Abs(s.home.home)) THEN ReplaceCwd(chdir(s, Abs(s.home.home)), s.home.home) ELSE s
dochngdEntry(s, d) ==
  IF ~Can(s, Abs(Name(s, d))) THEN s
  ELSE LET s1 == chdir(s, Abs(Name(s, d))) IN dnewcwd(dfree(Unlink(s1, s.dcwd), s.dcwd), d)
PushNew(f) ==
  LET d == Fresh(f.s) IN dnewcwd(LinkAfterCwd(New(f.s, f.name), d), d)
PushFollowed(s, f) == IF f.ok THEN PushNew(f) ELSE s
dopushdPath(s, arg, old) == PushFollowed(s, dfollow(s, arg, old))
dopushd(s) ==
  LET d == Before(s, s.dcwd)
  IN IF s.mode.pushdtohome
     THEN IF Can(s, Abs(s.home.home)) THEN dopushdPath(chdir(s, Abs(s.home.home)), Abs(s.home.home), FALSE) ELSE s
     ELSE IF d = s.dcwd \/ ~Can(s, Abs(Name(s, d))) THEN s
     ELSE dnewcwd(LinkAfterCwd(Unlink(chdir(s, Abs(Name(s, d))), d), d), d)
\* Mutant: pushd +n with dextract turns the stack instead.
dextractTurns(s, d) == s
dextract(s, d) == IF d = s.dcwd THEN s ELSE LinkAfterCwd(Unlink(s, d), d)
dopushdEntry(s, d) ==
  IF ~Can(s, Abs(Name(s, d))) THEN s
  ELSE LET s1 == chdir(s, Abs(Name(s, d))) IN dnewcwd(IF s.mode.dextract THEN dextract(s1, d) ELSE s1, d)
dopopd(s, d) ==
  LET p == Before(s, d)
  IN IF Len(Stack(s)) = 1 \/ (d = s.dcwd /\ ~Can(s, Abs(Name(s, p)))) THEN s
     ELSE IF d = s.dcwd THEN dnewcwd(dfree(Unlink(chdir(s, Abs(Name(s, p))), d), d), p)
     ELSE dfree(Unlink(s, d), d)
(* Only dcwd is left in the ring. *)
Alone(s) ==
  LET s1 == FoldLeft(LAMBDA t, d : dfree(t, d), s, Tail(Stack(s)))
      e1 == [s1.e EXCEPT ![HEAD].di_next = s.dcwd, ![HEAD].di_prev = s.dcwd]
  IN [s1 EXCEPT !.e = [e1 EXCEPT ![s.dcwd].di_next = HEAD, ![s.dcwd].di_prev = HEAD]]
dodirsClear(s) == Alone(s)
(* set dirstack = (...) *)
dsetstack(s, names) ==
  dgetstack(FoldLeft(LAMBDA t, n : LinkAfterCwd(New(t, n), Fresh(t)), Alone(s), names))
dtilde(s) ==
  LET e1 == [i \in DOMAIN s.e |-> IF i = HEAD \/ i \notin ToSet(Stack(s)) THEN s.e[i]
                                 ELSE [s.e[i] EXCEPT !.di_name = FixHome(s.gone, s.home, @)]]
      outside == \E d \in ToSet(Stack(s)) : ~InHome(s.home, Name(s, d))
      s1 == [s EXCEPT !.e = e1, !.home = IF outside THEN HomeKnown(s.gone, @) ELSE @]
  IN dset(s1, Name(s1, s1.dcwd))

(* dirs -S writes the stack from its end, at most limit + 1 entries (savedirs);
   dirs -L runs what it wrote. *)
recdirs(s, limit) ==
  LET t == Reverse(printdirs(s))
      n == IF limit = Nil \/ limit + 1 > Len(t) THEN Len(t) ELSE limit + 1
  IN SubSeq(t, 1, n)
loaddirs(s, file) ==
  IF file = <<>> THEN s
  ELSE FoldLeft(LAMBDA t, n : dopushdPath(t, Abs(n), FALSE), dochngdPath(s, Abs(Head(file)), FALSE), Tail(file))
dinit(mode, home) ==
  LET cwd == CHOOSE d \in Dirs : d = <<>>
  IN [e |-> (HEAD :> Entry(1, 1, <<>>)) @@ (1 :> Entry(HEAD, HEAD, cwd)), dcwd |-> 1, pwd |-> cwd, cwdvar |-> cwd,
      owd |-> NoDir, dirstack |-> <<cwd>>, gone |-> {}, jobs |-> <<>>, mode |-> mode,
      home |-> [home |-> home, ino |-> NoDir, fresh |-> FALSE]]
---------------------------------------------------------------------------
Init == \E mode \in Modes, home \in Homes, file \in Saved : ds = loaddirs(dinit(mode, home), file) /\ op = "start" /\ steps = 0
(* The name of the builtin, if it did anything. *)
Does(name, s) ==
  /\ IF s = ds THEN op' = "error" /\ steps' = steps ELSE op' = name /\ steps < MaxSteps /\ steps' = steps + 1
  /\ ds' = s
Room == Len(Stack(ds)) < MaxDirs
Cd == \E a \in Args : Does("cd", dochngdPath(ds, a, FALSE))
CdHome == Does("cd", dochngdHome(ds))
CdOld == ds.owd # NoDir /\ Does("cd", dochngdPath(ds, Abs(ds.owd), TRUE))
CdEntry == \E sign \in {"+", "-"}, n \in 0 .. MaxDirs : dfind(ds, sign, n) # Nil /\ Does("cd +n", dochngdEntry(ds, dfind(ds, sign, n)))
Pushd == Room /\ \E a \in Args : Does("pushd", dopushdPath(ds, a, FALSE))
PushdOld == Room /\ ds.owd # NoDir /\ Does("pushd", dopushdPath(ds, Abs(ds.owd), TRUE))
PushdNone == (ds.mode.pushdtohome => Room) /\ Does(IF ds.mode.pushdtohome THEN "pushd" ELSE "exchange", dopushd(ds))
PushdEntry == \E n \in 1 .. MaxDirs : dfind(ds, "+", n) # Nil /\ Does(IF ds.mode.dextract THEN "extract" ELSE "rotate", dopushdEntry(ds, dfind(ds, "+", n)))
Popd == Does("popd", dopopd(ds, ds.dcwd))
PopdEntry == \E n \in 1 .. MaxDirs : dfind(ds, "+", n) # Nil /\ Does("popd +n", dopopd(ds, dfind(ds, "+", n)))
DirsClear == Does("dirs -c", dodirsClear(ds))
SetDirstack == \E names \in Assigned : Does("set dirstack", dsetstack(ds, names))
SetHome == \E h \in Homes \ {ds.home.home} : Does("set home", dtilde([ds EXCEPT !.home.home = h, !.home.fresh = FALSE]))
(* A job remembers the directory that it is started in (palloc, pfree). *)
StartJob == Len(ds.jobs) < MaxJobs
            /\ Does("job", [ds EXCEPT !.jobs = Append(@, ds.dcwd), !.e[ds.dcwd].di_count = @ + 1])
EndJob ==
  \E i \in DOMAIN ds.jobs :
    LET d == ds.jobs[i]
        s1 == [ds EXCEPT !.jobs = RemoveAt(@, i), !.e[d].di_count = @ - 1]
    IN Does("job", IF s1.e[d].di_count = 0 /\ s1.e[d].di_next = Nil THEN dfree(s1, d) ELSE s1)
(* Another process removes a directory, or makes it again. *)
Shift == \E d \in Shifting : Does("rmdir", [ds EXCEPT !.gone = IF d \in @ THEN @ \ {d} ELSE @ \cup {d}])
Next ==
  \/ Cd \/ CdHome \/ CdOld \/ CdEntry \/ Pushd \/ PushdOld \/ PushdNone \/ PushdEntry \/ Popd \/ PopdEntry
  \/ DirsClear \/ SetDirstack \/ SetHome \/ StartJob \/ EndJob \/ Shift
Spec == Init /\ [][Next]_vars
---------------------------------------------------------------------------
(* The name of the current directory leads to the directory that the kernel has
   the shell in, whatever links, "..", cdpath and $home made of it (dcanon,
   dnormalize, dgoto, dfollow), at least once no directory is away. *)
CwdNamed == stat({}, Name(ds, ds.dcwd)) = ds.pwd
(* An entry exists as long as the ring or a job needs it, and no longer (dfree,
   pfree); the header and the entries are one ring in both directions. *)
EntriesKept ==
  LET ring == ToSet(Stack(ds)) \cup {HEAD}
  IN /\ DOMAIN ds.e = ring \cup ToSet(ds.jobs)
     /\ \A d \in ring : ds.e[ds.e[d].di_next].di_prev = d /\ ds.e[ds.e[d].di_prev].di_next = d
     /\ \A d \in DOMAIN ds.e : ds.e[d].di_count = Cardinality({i \in DOMAIN ds.jobs : ds.jobs[i] = d})
(* What dirs -S writes, a new shell reads back as the same stack: entry by entry
   the same directory (recdirs, loaddirs). *)
Reachable == \A i \in DOMAIN Stack(ds) : stat(ds.gone, printdirs(ds)[i]) # NoDir
Places(s) == [i \in DOMAIN printdirs(s) |-> stat(s.gone, printdirs(s)[i])]
LoadedAgain(limit) == loaddirs([dinit(ds.mode, ds.home.home) EXCEPT !.gone = ds.gone], recdirs(ds, limit))
SaveRestores == ~Reachable \/ ds.mode.dunique \/ Places(LoadedAgain(Nil)) = Places(ds)
=============================================================================
