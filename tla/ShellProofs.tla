------------------------------ MODULE ShellProofs ------------------------------
(* What the shell remembers of the world around it, and that it does not mislead:
   the table of commands (PathHash), who was logged in (Watch), when the mail was
   last looked at (PromptChecks). *)
EXTENDS PathHash, SequenceTheorems, NaturalsInduction, WellFoundedInduction, TLAPS

CONSTANTS
  MaxTime,                             \* of the two with a clock
  Ttys, Users, Watched, Interval,      \* of Watch
  Boxes, Dirs, Intvl, Tperiods,        \* of PromptChecks
  Minute, Start, Schedules, Logouts, MaxEvents   \* of Alarms

VARIABLES
  now, told,
  utmp, mtime, list, watch_period, stlast, watch, known,
  box, loginsh, chktim, seconds0, tperiod, t_period, periodic_active, alias, ranAt, unseen,
  sched, alarmAt, alm_fun, alrmcatch_pending, alrmcatch_disabled, autologout, mode, tries, armed, typed, ran, made

U == INSTANCE Watch
C == INSTANCE PromptChecks
A == INSTANCE Alarms

-------------------------------------------------------------------------------
(* The table of commands. *)

LEMMA MinIs ==
  ASSUME NEW S, S \subseteq Nat, S # {}
  PROVE  Min(S) \in S /\ \A q \in S : Min(S) <= q
<1>1. PICK x \in S : \A y \in S : ~(<<y, x>> \in OpToRel(<, Nat))
  BY NatLessThanWellFounded, WFMin
<1>2. \A y \in S : ~(y < x)  BY <1>1 DEF OpToRel
<1>3. \A y \in S : x <= y  BY <1>2
<1>. QED BY <1>3 DEF Min

\* The widths and lengths of tables, and hash values within them.
LEMMA WidthIs ==
  ASSUME PathHashAssumption, NEW p \in Paths
  PROVE  /\ hashwidth(p) \in {1, 2, 4, 8}
         /\ hashlength(p) \in Nat \ {0}
         /\ \A i \in DOMAIN p : Column(i, hashwidth(p)) \in Nat
<1>1. p \in Seq(STRING) /\ Char \in Nat \ {0} /\ Buckets \in Nat \ {0}  BY DEF PathHashAssumption
<1>2. Len(p) \in Nat /\ DOMAIN p = 1 .. Len(p)  BY <1>1
<1>3. hashwidth(p) \in {1, 2, 4, 8}
  <2>1. \/ Len(p) <= Char
        \/ Len(p) > Char /\ Len(p) <= 2 * Char
        \/ Len(p) > 2 * Char /\ Len(p) <= 4 * Char
        \/ Len(p) > 4 * Char
    BY <1>1, <1>2
  <2>. QED BY <1>1, <1>2, <2>1 DEF hashwidth
<1>4. hashlength(p) \in Nat \ {0}
  <2>1. \A w \in {1, 2, 4, 8} : w * Buckets \in Nat \ {0}  BY <1>1
  <2>. QED BY <1>3, <2>1 DEF hashlength
<1>5. ASSUME NEW i \in DOMAIN p PROVE Column(i, hashwidth(p)) \in Nat
  <2>1. \A w \in {1, 2, 4, 8} : Char * w \in Nat \ {0}  BY <1>1
  <2>2. i - 1 \in Nat  BY <1>2
  <2>3. \A k \in Nat \ {0} : (i - 1) % k \in Nat  BY <2>2
  <2>. QED BY <1>3, <2>1, <2>3 DEF Column
<1>. QED BY <1>3, <1>4, <1>5

LEMMA HashIs ==
  ASSUME PathHashAssumption, NEW n \in Commands, NEW l \in Nat \ {0}
  PROVE  hashname(n, l) \in Nat /\ hashname(n, l) < l
<1>1. HashName[n] \in Nat  BY DEF PathHashAssumption
<1>. QED BY <1>1 DEF hashname

\* The table that dohash() left has the size of $path and the bits of all files of
\* it, as long as none has been added to it.
Tables == [length : Nat \ {0}, width : Nat, bits : SUBSET (Nat \X Nat)]
Complete(t) == /\ t.width = hashwidth(path)
               /\ t.length = hashlength(path)
               /\ Bits(path) \subseteq t.bits
HashInv ==
  /\ path \in Paths \cup {Unset}
  /\ xhash \in Tables
  /\ fresh /\ havhash /\ path # Unset => Complete(xhash)

LEMMA TableIs == ASSUME PathHashAssumption, NEW p \in Paths PROVE Table(p) \in Tables
<1>1. hashwidth(p) \in Nat /\ hashlength(p) \in Nat \ {0}  BY WidthIs
<1>2. Bits(p) \subseteq Nat \X Nat
  <2> DEFINE K == {y \in (DOMAIN p) \X Commands : p[y[1]] \in Absolute /\ <<p[y[1]], y[2]>> \in DOMAIN files}
             B(x) == <<hashname(x[2], hashlength(p)), Column(x[1], hashwidth(p))>>
  <2>1. ASSUME NEW x \in K PROVE B(x) \in Nat \X Nat
    <3>1. x[1] \in DOMAIN p /\ x[2] \in Commands  BY <2>1
    <3>2. hashname(x[2], hashlength(p)) \in Nat  BY <1>1, <3>1, HashIs
    <3>3. Column(x[1], hashwidth(p)) \in Nat  BY <3>1, WidthIs
    <3>. QED BY <3>2, <3>3
  <2>2. Bits(p) = {B(x) : x \in K}  BY DEF Bits
  <2> HIDE DEF K, B
  <2>. QED BY <2>1, <2>2
<1>. QED BY <1>1, <1>2 DEF Table, Tables

LEMMA HashInit == ASSUME PathHashAssumption, Init PROVE HashInv
<1>1. path \in Paths /\ xhash = Table(path)  BY DEF Init
<1>2. Complete(Table(path))  BY DEF Table, Complete
<1>. QED BY <1>1, <1>2, TableIs DEF HashInv

LEMMA BitIn ==
  ASSUME NEW p, NEW i \in DOMAIN p, NEW n \in Commands, p[i] \in Absolute, <<p[i], n>> \in DOMAIN files
  PROVE  <<hashname(n, hashlength(p)), Column(i, hashwidth(p))>> \in Bits(p)
<1> DEFINE K == {y \in (DOMAIN p) \X Commands : p[y[1]] \in Absolute /\ <<p[y[1]], y[2]>> \in DOMAIN files}
           x0 == <<i, n>>
           B(x) == <<hashname(x[2], hashlength(p)), Column(x[1], hashwidth(p))>>
<1>1. x0[1] = i /\ x0[2] = n /\ x0 \in (DOMAIN p) \X Commands  OBVIOUS
<1>2. x0 \in K
  <2>1. p[x0[1]] \in Absolute /\ <<p[x0[1]], x0[2]>> \in DOMAIN files  BY <1>1
  <2>. QED BY <1>1, <2>1
<1>3. B(x0) = <<hashname(n, hashlength(p)), Column(i, hashwidth(p))>>  BY <1>1
<1>4. Bits(p) = {B(x) : x \in K}  BY DEF Bits
<1> HIDE DEF K, x0, B
<1>5. B(x0) \in Bits(p)  BY <1>2, <1>4
<1>. QED BY <1>3, <1>5

\* Only a file that comes adds to the bits of a path.
LEMMA BitsFollow ==
  ASSUME NEW p, DOMAIN files' \subseteq DOMAIN files
  PROVE  Bits(p)' \subseteq Bits(p)
BY DEF Bits

LEMMA HashNext == ASSUME PathHashAssumption, HashInv, [Next]_vars PROVE HashInv'
<1>1. CASE SetPath
  <2>1. PICK p \in Paths : path' = p /\ xhash' = Table(p) /\ files' = files  BY <1>1 DEF SetPath
  <2>2. Bits(p)' = Bits(p)  BY <2>1 DEF Bits
  <2>3. Complete(xhash)'  BY <2>1, <2>2 DEF Complete, Table
  <2>. QED BY <2>1, <2>3, TableIs DEF HashInv
<1>2. CASE UnsetPath \/ ForeachPath \/ Install
  <2>1. path' \in Paths \cup {Unset} /\ xhash' = xhash /\ ~fresh'
    BY <1>2 DEF UnsetPath, ForeachPath, Install, HashInv
  <2>. QED BY <2>1 DEF HashInv
<1>3. CASE dohash \/ Which \/ Where \/ TestX
  <2>1. Rehash /\ path' = path /\ files' = files  BY <1>3 DEF dohash, Which, Where, TestX
  <2>2. CASE path = Unset
    <3>1. xhash' = [xhash EXCEPT !.width = 0]  BY <2>1, <2>2 DEF Rehash, Rehashed
    <3>2. xhash' \in Tables  BY <3>1 DEF HashInv, Tables
    <3>. QED BY <2>1, <2>2, <3>2 DEF HashInv
  <2>3. CASE path # Unset
    <3>1. xhash' = Table(path) /\ path \in Paths  BY <2>1, <2>3 DEF Rehash, Rehashed, HashInv
    <3>2. Bits(path)' = Bits(path)  BY <2>1 DEF Bits
    <3>3. Complete(xhash)'  BY <2>1, <3>1, <3>2 DEF Complete, Table
    <3>. QED BY <2>1, <3>1, <3>3, TableIs DEF HashInv
  <2>. QED BY <2>2, <2>3
<1>4. CASE dounhash
  <2>1. xhash' = [xhash EXCEPT !.bits = {}] /\ ~havhash' /\ path' = path  BY <1>4 DEF dounhash
  <2>2. xhash' \in Tables  BY <2>1 DEF HashInv, Tables
  <2>. QED BY <2>1, <2>2 DEF HashInv
<1>5. CASE Autorehash \/ Alias \/ Uninstall \/ UNCHANGED vars
  <2>1. path' = path /\ havhash' = havhash /\ xhash' = xhash /\ fresh' = fresh
    BY <1>5 DEF Autorehash, Alias, Uninstall, vars
  <2>2. DOMAIN files' \subseteq DOMAIN files
    BY <1>5 DEF Autorehash, Alias, Uninstall, vars
  <2>3. Bits(path)' \subseteq Bits(path)
    BY <2>1, <2>2 DEF Bits
  <2>. QED BY <2>1, <2>3 DEF HashInv, Complete
<1>. QED BY <1>1, <1>2, <1>3, <1>4, <1>5 DEF Next

-------------------------------------------------------------------------------
LEMMA SeqDomain ==
  ASSUME NEW S, NEW s \in Seq(S) PROVE DOMAIN s = 1 .. Len(s) /\ Len(s) \in Nat
OBVIOUS

\* The places where a command may be: those along $path, or the only one.
LEMMA OpvIs ==
  ASSUME PathHashAssumption, path \in Paths, NEW n
  PROVE  /\ DOMAIN opv(n) \subseteq Nat \ {0}
         /\ \A i \in DOMAIN opv(n) : opv(n)[i] # "Permission denied"
         /\ opv(n) = path \/ opv(n) = justabs
         /\ opv(n) = justabs => \A i \in DOMAIN opv(n) : opv(n)[i] \notin Absolute
         /\ opv(n) # justabs => opv(n) = path /\ n \notin Slashed
<1>1. path \in Seq(STRING) /\ \A i \in DOMAIN path : path[i] # "Permission denied"
  BY DEF PathHashAssumption
<1>2. DOMAIN path \subseteq Nat \ {0}
  <2>1. DOMAIN path = 1 .. Len(path) /\ Len(path) \in Nat  BY <1>1, SeqDomain
  <2>. QED BY <2>1
<1>3. DOMAIN justabs = {1} /\ justabs[1] = "" /\ "" # "Permission denied"  BY DEF justabs, Here
<1>4. opv(n) = path \/ opv(n) = justabs  BY DEF opv
<1>5. opv(n) # justabs => n \notin Slashed  BY DEF opv
<1>6. "" \notin Absolute  BY DEF PathHashAssumption
<1>7. opv(n) = justabs => \A i \in DOMAIN opv(n) : opv(n)[i] \notin Absolute
  <2>1. ASSUME NEW i \in DOMAIN justabs PROVE justabs[i] \notin Absolute
    <3>1. i = 1  BY <1>3, <2>1
    <3>. QED BY <1>3, <1>6, <3>1
  <2>. QED BY <2>1
<1>8. \A i \in DOMAIN opv(n) : opv(n)[i] # "Permission denied"  BY <1>1, <1>3, <1>4
<1>9. DOMAIN opv(n) \subseteq Nat \ {0}
  <2>1. {1} \subseteq Nat \ {0}  OBVIOUS
  <2>. QED BY <1>2, <1>3, <1>4, <2>1
<1>. QED BY <1>4, <1>5, <1>7, <1>8, <1>9

\* The places where the bits b let a command be found.
Found(b, n) == {i \in Looked(b, n) : executable(opv(n)[i], n)}
There(n) == {i \in DOMAIN opv(n) : executable(opv(n)[i], n)}

LEMMA PlaceIs ==
  ASSUME PathHashAssumption, path \in Paths, NEW n, NEW b
  PROVE  /\ Found(b, n) = {} => Place(b, n) = 0 /\ Run(b, n) = <<>>
         /\ Found(b, n) # {} => /\ Place(b, n) # 0
                                /\ Place(b, n) \in Found(b, n)
                                /\ Run(b, n) = <<opv(n)[Place(b, n)], texec(opv(n)[Place(b, n)], n)>>
         /\ Place(b, n) # 0 => Place(b, n) \in Found(b, n)
<1>1. Place(b, n) = IF Found(b, n) = {} THEN 0 ELSE Min(Found(b, n))  BY DEF Place, Found
<1>2. Run(b, n) = IF Found(b, n) = {} THEN <<>>
                  ELSE <<opv(n)[Min(Found(b, n))], texec(opv(n)[Min(Found(b, n))], n)>>
  BY DEF Run, Found, executable
<1>3. Found(b, n) \subseteq Nat \ {0}  BY OpvIs DEF Found, Looked
<1>4. Found(b, n) # {} => Min(Found(b, n)) \in Found(b, n)
  <2>1. Found(b, n) \subseteq Nat  BY <1>3
  <2>. QED BY <2>1, MinIs
<1>. QED BY <1>1, <1>2, <1>3, <1>4

\* A complete table, read in the row of the present length, has the bits of the
\* files there are: it hides none of them.
LEMMA FullBits ==
  ASSUME PathHashAssumption, path \in Paths, NEW t, Complete(t), NEW n \in Commands, NEW junk,
         NEW i \in DOMAIN path, path[i] \in Absolute, <<path[i], n>> \in DOMAIN files
  PROVE  i \in bit(t, hashname(n, hashlength(path)), junk)
<1> DEFINE row == hashname(n, hashlength(path))
<1>1. t.width # 0 /\ ~(row >= t.length)
  <2>1. hashwidth(path) # 0 /\ hashlength(path) \in Nat \ {0}  BY WidthIs
  <2>2. row \in Nat /\ row < hashlength(path)  BY <2>1, HashIs
  <2>. QED BY <2>1, <2>2 DEF Complete
<1>2. <<row, Column(i, t.width)>> \in t.bits  BY BitIn DEF Complete
<1>. QED BY <1>1, <1>2 DEF bit

LEMMA NothingHidden ==
  ASSUME PathHashAssumption, path \in Paths, NEW n \in Commands, NEW b,
         havhash /\ opv(n) # justabs =>
           \A i \in DOMAIN path : path[i] \in Absolute /\ <<path[i], n>> \in DOMAIN files => i \in b
  PROVE  Place(b, n) = First(n)
<1>1. ASSUME NEW i \in DOMAIN opv(n), executable(opv(n)[i], n), Skipped(b, n, i) PROVE FALSE
  <2>1. n \notin Slashed /\ opv(n)[i] \in Absolute /\ havhash /\ i \notin b
    BY <1>1 DEF Skipped
  <2>2. opv(n) = path /\ opv(n) # justabs
    <3>1. ~(\A j \in DOMAIN opv(n) : opv(n)[j] \notin Absolute)  BY <1>1, <2>1
    <3>. QED BY <3>1, OpvIs
  <2>3. <<path[i], n>> \in DOMAIN files
    BY <1>1, <2>2 DEF executable, Kind, Executable
  <2>. QED BY <1>1, <2>1, <2>2, <2>3
<1>2. Found(b, n) = There(n)  BY <1>1 DEF Found, There, Looked
<1>3. First(n) = IF There(n) = {} THEN 0 ELSE Min(There(n))  BY DEF First, There
<1>4. Place(b, n) = IF Found(b, n) = {} THEN 0 ELSE Min(Found(b, n))  BY DEF Place, Found
<1>. QED BY <1>2, <1>3, <1>4

\* dohash() makes a complete table.
LEMMA RehashedIs == ASSUME path # Unset PROVE Complete(Rehashed) /\ Rehashed = Table(path)
BY DEF Rehashed, Table, Complete

LEMMA HidesNothing ==
  ASSUME PathHashAssumption, HashInv PROVE HashHidesNothing
<1>1. SUFFICES ASSUME path # Unset, NEW n \in Commands \ Builtins, First(n) # 0, NEW junk \in Junk
               PROVE  /\ ~havhash \/ fresh => Place(Tried(n, junk), n) = First(n)
                      /\ auto /\ Sized => iscommand(n, junk) # 0
  BY DEF HashHidesNothing
<1>2. path \in Paths  BY <1>1 DEF HashInv
<1>3. ASSUME ~havhash \/ fresh PROVE Place(Tried(n, junk), n) = First(n)
  <2>1. CASE havhash
    <3>1. Complete(xhash) /\ xhash.length = hashlength(path)  BY <1>1, <1>3, <2>1 DEF HashInv, Complete
    <3>2. \A i \in DOMAIN path : path[i] \in Absolute /\ <<path[i], n>> \in DOMAIN files => i \in Tried(n, junk)
      BY <1>2, <3>1, FullBits DEF Tried, hashval
    <3>. QED BY <1>2, <3>2, NothingHidden
  <2>2. CASE ~havhash  BY <1>2, <2>2, NothingHidden
  <2>. QED BY <2>1, <2>2
<1>4. ASSUME auto, Sized PROVE iscommand(n, junk) # 0
  <2>1. CASE Rehashes(n)
    <3>1. \A i \in DOMAIN path : path[i] \in Absolute /\ <<path[i], n>> \in DOMAIN files => i \in Retried(n, junk)
      BY <1>1, <1>2, <1>4, RehashedIs, FullBits DEF Retried, hashval, Sized
    <3>2. Place(Retried(n, junk), n) = First(n)  BY <1>2, <3>1, NothingHidden
    <3>. QED BY <1>1, <2>1, <3>2 DEF iscommand
  <2>2. CASE ~Rehashes(n)
    <3>1. ~havhash \/ opv(n) = justabs  BY <1>4, <2>2 DEF Rehashes
    <3>2. Place(Tried(n, junk), n) = First(n)  BY <1>2, <3>1, NothingHidden
    <3>. QED BY <1>1, <3>2 DEF iscommand
  <2>. QED BY <2>1, <2>2
<1>. QED BY <1>3, <1>4

\* Where no bit is read beyond the table, what is there makes no difference.
LEMMA WithinSame ==
  ASSUME PathHashAssumption, HashInv, path # Unset, NEW n \in Commands, Within(n), havhash, NEW j, NEW k
  PROVE  /\ Tried(n, j) = Tried(n, k)
         /\ auto => Retried(n, j) = Retried(n, k)
<1>1. path \in Paths /\ xhash.length \in Nat \ {0}  BY DEF HashInv, Tables
<1>2. hashval(n) \in Nat /\ hashval(n) < xhash.length  BY <1>1, HashIs DEF hashval
<1>3. Tried(n, j) = Tried(n, k)
  <2>1. xhash.width # 0 /\ ~(hashval(n) >= xhash.length)  BY <1>1, <1>2 DEF Within
  <2>. QED BY <2>1 DEF Tried, bit
<1>4. ASSUME auto PROVE Retried(n, j) = Retried(n, k)
  <2>1. Rehashed.width = hashwidth(path) /\ Rehashed.length = hashlength(path)  BY RehashedIs DEF Complete
  <2>2. Rehashed.width # 0 /\ Rehashed.length \in Nat  BY <1>1, <2>1, WidthIs
  <2>3. ~(hashval(n) >= Rehashed.length)  BY <1>2, <1>4, <2>2 DEF Within
  <2>. QED BY <2>2, <2>3 DEF Retried, bit
<1>. QED BY <1>3, <1>4

LEMMA LookedSame ==
  ASSUME PathHashAssumption, HashInv, path # Unset, NEW n \in Commands, Within(n), NEW j, NEW k
  PROVE  /\ Looked(Tried(n, j), n) = Looked(Tried(n, k), n)
         /\ Rehashes(n) => Looked(Retried(n, j), n) = Looked(Retried(n, k), n)
<1>1. CASE havhash  BY <1>1, WithinSame DEF Rehashes
<1>2. CASE ~havhash  BY <1>2 DEF Rehashes, Looked, Skipped
<1>. QED BY <1>1, <1>2

LEMMA ToldSame ==
  ASSUME PathHashAssumption, HashInv, path # Unset, NEW n \in Commands, Within(n), NEW j, NEW k
  PROVE  iscommand(n, j) = iscommand(n, k) /\ cmd_expand(n, j) = cmd_expand(n, k)
<1>1. \A b, c : Looked(b, n) = Looked(c, n) => Place(b, n) = Place(c, n)  BY DEF Place
<1>2. Place(Tried(n, j), n) = Place(Tried(n, k), n)  BY <1>1, LookedSame
<1>3. Rehashes(n) => Place(Retried(n, j), n) = Place(Retried(n, k), n)  BY <1>1, LookedSame
<1>4. iscommand(n, j) = iscommand(n, k)  BY <1>2, <1>3 DEF iscommand
<1>. QED BY <1>4 DEF cmd_expand, tellmewhat

LEMMA RunsWhich ==
  ASSUME PathHashAssumption, HashInv PROVE WhichRuns
<1>1. SUFFICES ASSUME path # Unset, NEW n \in Commands, NEW junk
               PROVE  cmd_expand(n, junk)[1] =
                        IF Executes(n, junk)[1] = "Permission denied" THEN NotFound ELSE Executes(n, junk)[1]
  BY ToldSame, Zenon DEF WhichRuns
<1>2. path \in Paths  BY <1>1 DEF HashInv
<1>3. CASE n \in aliases \/ n \in Builtins
  BY <1>3 DEF cmd_expand, Executes, tellmewhat
<1>4. CASE n \notin aliases /\ n \notin Builtins
  <2>1. Executes(n, junk) = doexec(n, junk)  BY <1>4 DEF Executes
  <2>2. cmd_expand(n, junk)[1] = IF iscommand(n, junk) = 0 THEN NotFound ELSE opv(n)[iscommand(n, junk)]
    BY <1>4 DEF cmd_expand, tellmewhat
  <2>3. CASE Place(Tried(n, junk), n) # 0
    <3>1. Place(Tried(n, junk), n) \in DOMAIN opv(n)  BY <1>2, <2>3, PlaceIs DEF Found, Looked
    <3>2. Run(Tried(n, junk), n) = <<opv(n)[Place(Tried(n, junk), n)], texec(opv(n)[Place(Tried(n, junk), n)], n)>>
      BY <1>2, <2>3, PlaceIs
    <3>3. doexec(n, junk) = Run(Tried(n, junk), n)  BY <1>1, <3>2 DEF doexec
    <3>4. opv(n)[Place(Tried(n, junk), n)] # "Permission denied"  BY <1>2, <3>1, OpvIs
    <3>5. iscommand(n, junk) = Place(Tried(n, junk), n)  BY <2>3 DEF iscommand
    <3>6. Executes(n, junk)[1] = opv(n)[Place(Tried(n, junk), n)]  BY <2>1, <3>2, <3>3
    <3>. QED BY <2>2, <2>3, <3>4, <3>5, <3>6
  <2>4. CASE Place(Tried(n, junk), n) = 0 /\ Rehashes(n) /\ Place(Retried(n, junk), n) # 0
    <3>1. Place(Retried(n, junk), n) \in DOMAIN opv(n)  BY <1>2, <2>4, PlaceIs DEF Found, Looked
    <3>2. Run(Retried(n, junk), n) = <<opv(n)[Place(Retried(n, junk), n)], texec(opv(n)[Place(Retried(n, junk), n)], n)>>
      BY <1>2, <2>4, PlaceIs
    <3>3. Run(Tried(n, junk), n) = <<>>  BY <1>2, <2>4, PlaceIs
    <3>4. n \notin Slashed  BY <1>2, <2>4, OpvIs DEF Rehashes
    <3>5. doexec(n, junk) = Run(Retried(n, junk), n)  BY <1>1, <2>4, <3>2, <3>3, <3>4 DEF doexec
    <3>6. opv(n)[Place(Retried(n, junk), n)] # "Permission denied"  BY <1>2, <3>1, OpvIs
    <3>7. iscommand(n, junk) = Place(Retried(n, junk), n)  BY <2>4 DEF iscommand
    <3>8. Executes(n, junk)[1] = opv(n)[Place(Retried(n, junk), n)]  BY <2>1, <3>2, <3>5
    <3>. QED BY <2>2, <2>4, <3>6, <3>7, <3>8
  <2>5. CASE Place(Tried(n, junk), n) = 0 /\ ~(Rehashes(n) /\ Place(Retried(n, junk), n) # 0)
    <3>1. iscommand(n, junk) = 0  BY <2>5 DEF iscommand
    <3>2. Run(Tried(n, junk), n) = <<>>  BY <1>2, <2>5, PlaceIs
    <3>3. Rehashes(n) => Run(Retried(n, junk), n) = <<>>  BY <1>2, <2>5, PlaceIs
    <3>4. doexec(n, junk)[1] \in {NotFound, "Permission denied"}
      <4>1. \A b : exerr(b, n) \in {NotFound, "Permission denied"}  BY DEF exerr
      <4>2. doexec(n, junk) = IF n \notin Slashed /\ path = Unset THEN <<NotFound>>
                        ELSE <<IF exerr(Tried(n, junk), n) # NotFound THEN exerr(Tried(n, junk), n)
                               ELSE IF Rehashes(n) THEN exerr(Retried(n, junk), n) ELSE NotFound>>
        BY <3>2, <3>3 DEF doexec
      <4>3. \E m : doexec(n, junk) = <<m>> /\ m \in {NotFound, "Permission denied"}
        <5>1. CASE n \notin Slashed /\ path = Unset  BY <4>2, <5>1
        <5>2. CASE exerr(Tried(n, junk), n) # NotFound /\ path # Unset  BY <4>1, <4>2, <5>2
        <5>3. CASE exerr(Tried(n, junk), n) = NotFound /\ path # Unset  BY <4>1, <4>2, <5>3
        <5>. QED BY <1>1, <5>1, <5>2, <5>3
      <4>4. PICK m : doexec(n, junk) = <<m>> /\ m \in {NotFound, "Permission denied"}  BY <4>3
      <4>5. <<m>>[1] = m  OBVIOUS
      <4>. QED BY <4>4, <4>5, Zenon
    <3>. QED BY <2>1, <2>2, <3>1, <3>4
  <2>. QED BY <2>3, <2>4, <2>5
<1>. QED BY <1>3, <1>4

LEMMA FindsWhere ==
  ASSUME PathHashAssumption, HashInv PROVE WhereFinds
<1>1. SUFFICES ASSUME path \notin {Unset, <<>>}, NEW n \in Commands \ (Builtins \cup Slashed), NEW run, NEW junk,
                      iscommand(n, run) # 0, path[iscommand(n, run)] \in Absolute
               PROVE  /\ auto \/ Within(n) => iscommand(n, run) \in dowhere(n, junk)
                      /\ Within(n) => IsX(n, junk)
  BY Zenon DEF WhereFinds
<1> DEFINE i == iscommand(n, run)
           Renewed == bit(Rehashed, hashname(n, Rehashed.length), junk)
<1>2. path \in Paths  BY <1>1 DEF HashInv
<1>3. opv(n) = path  BY <1>1 DEF opv
<1>4. ASSUME NEW k, iscommand(n, k) = i
      PROVE  \E b : /\ i \in DOMAIN path /\ executable(path[i], n) /\ i \in Hits(havhash, b, n)
                    /\ b = Tried(n, k) \/ (b = Retried(n, k) /\ Rehashes(n))
  <2>1. PICK b : /\ i = Place(b, n)
                 /\ b = Tried(n, k) \/ (b = Retried(n, k) /\ Rehashes(n))
    BY <1>1, <1>4 DEF iscommand
  <2>2. i \in Found(b, n)  BY <1>1, <1>2, <2>1, PlaceIs
  <2>3. i \in DOMAIN path /\ executable(path[i], n) /\ ~Skipped(b, n, i)
    BY <1>3, <2>2 DEF Found, Looked
  <2>4. havhash => i \in b  BY <1>1, <1>3, <2>3 DEF Skipped
  <2>5. i \in Hits(havhash, b, n)  BY <1>1, <2>3, <2>4 DEF Hits
  <2>. QED BY <2>1, <2>3, <2>5
<1>5. ASSUME auto PROVE i \in dowhere(n, junk)
  <2>1. i \in DOMAIN path /\ executable(path[i], n)  BY <1>4
  <2>2. <<path[i], n>> \in DOMAIN files  BY <2>1 DEF executable, Kind, Executable
  <2>3. Complete(Rehashed) /\ Rehashed.length = hashlength(path)  BY <1>1, RehashedIs DEF Complete
  <2>4. i \in Renewed  BY <1>1, <1>2, <2>1, <2>2, <2>3, FullBits
  <2>5. i \in Hits(TRUE, Renewed, n)  BY <1>1, <2>1, <2>4 DEF Hits
  <2>. QED BY <1>1, <1>5, <2>5 DEF dowhere
<1>6. ASSUME Within(n) PROVE IsX(n, junk) /\ (~auto => i \in dowhere(n, junk))
  <2>1. iscommand(n, junk) = i  BY <1>1, <1>6, ToldSame
  <2>2. PICK b : /\ i \in Hits(havhash, b, n)
                 /\ b = Tried(n, junk) \/ (b = Retried(n, junk) /\ Rehashes(n))
    BY <1>4, <2>1
  <2>3. ASSUME ~auto PROVE i \in dowhere(n, junk)
    <3>1. b = Tried(n, junk)  BY <2>2, <2>3 DEF Rehashes
    <3>. QED BY <1>1, <2>2, <2>3, <3>1 DEF dowhere
  <2>4. IsX(n, junk)
    <3>1. CASE b = Tried(n, junk)  BY <2>2, <3>1 DEF IsX
    <3>2. CASE b = Retried(n, junk) /\ Rehashes(n)
      <4>1. Hits(TRUE, b, n) = Hits(havhash, b, n)  BY <3>2 DEF Rehashes, Hits
      <4>. QED BY <2>2, <3>2, <4>1 DEF IsX, Rehashes
    <3>. QED BY <2>2, <3>1, <3>2
  <2>. QED BY <2>3, <2>4
<1>. QED BY <1>5, <1>6

(* The table of commands hides none that is there while it is fresh, and autorehash
   none as long as the size of the table is that of $path; which tells what will be
   run, and where and -X find what is run from an absolute directory, where no bit
   is read beyond the table (which with autorehash makes no difference to where) (sh.exec.c:152, 807, 1028, 1059): for any paths, names,
   hash function and size of the table, whatever becomes of the table, the files
   and the aliases, and whatever is found beyond the table. *)
THEOREM TableHidesNothing ==
  ASSUME PathHashAssumption PROVE Spec => [](HashHidesNothing /\ WhichRuns /\ WhereFinds)
<1>1. Init => HashInv  BY HashInit
<1>2. HashInv /\ [Next]_vars => HashInv'  BY HashNext
<1>3. HashInv => HashHidesNothing /\ WhichRuns /\ WhereFinds
  BY HidesNothing, RunsWhich, FindsWhere
<1>. QED BY <1>1, <1>2, <1>3, PTL DEF Spec

-------------------------------------------------------------------------------
(* The watch for logins. *)

Names == Users \cup {""}
Records == [name : Users, time : Nat]
Flags == {"online", "offline", "changed", "cleared", "announce"}
Entries == [name : Names, new : Names, time : Nat, status : SUBSET Flags]

\* No entry of the list is younger than the record in use of its terminal, and
\* it has the name of who was there when the records were last read.
Clock == now \in Nat /\ mtime \in Nat
Primed == watch => stlast # -1
RecordsOK == \A t \in DOMAIN utmp : utmp[t] \in Records /\ utmp[t].time <= now
EntriesOK == \A t \in DOMAIN list : list[t] \in Entries /\ list[t].time <= now
NotYounger == \A t \in DOMAIN list : t \in DOMAIN utmp => list[t].time <= utmp[t].time
Remembers == \A t \in Watched : known[t] = IF t \in DOMAIN list THEN list[t].name ELSE ""
WatchInv == Clock /\ Primed /\ RecordsOK /\ EntriesOK /\ NotYounger /\ Remembers

LEMMA WatchInit == ASSUME U!WatchAssumption, U!Init PROVE WatchInv
<1>1. utmp = <<>> /\ list = <<>> /\ now = 0 /\ mtime = 0 /\ watch = FALSE
      /\ known = [t \in Ttys |-> ""]
  BY DEF U!Init, U!initwatch
<1>2. DOMAIN utmp = {} /\ DOMAIN list = {}
  <2>1. \A s : s = <<>> => DOMAIN s = {}  OBVIOUS
  <2>. QED BY <1>1, <2>1
<1>3. \A t \in Watched : known[t] = ""  BY <1>1 DEF U!WatchAssumption
<1>4. now \in Nat /\ mtime \in Nat /\ ~watch  BY <1>1
<1>. QED BY <1>2, <1>3, <1>4 DEF WatchInv, Clock, Primed, RecordsOK, EntriesOK, NotYounger, Remembers

\* An entry after its record, if there is one, has been read.
LEMMA ReadTtys == DOMAIN U!Read = DOMAIN list \cup DOMAIN utmp
BY DEF U!Read

LEMMA ReadNew ==
  ASSUME WatchInv, NEW t \in DOMAIN utmp, t \notin DOMAIN list
  PROVE  /\ U!Read[t] \in Entries
         /\ U!Read[t].name = "" /\ U!Read[t].new = utmp[t].name
         /\ U!Read[t].time = utmp[t].time /\ U!Read[t].status = {"online"}
<1>1. U!Read[t] = [name |-> "", new |-> utmp[t].name, time |-> utmp[t].time, status |-> {"online"}]
  BY DEF U!Read, U!NewTty
<1>2. utmp[t].name \in Users /\ utmp[t].time \in Nat  BY DEF WatchInv, RecordsOK, Records
<1>3. "" \in Names /\ utmp[t].name \in Names  BY <1>2 DEF Names
<1>4. {"online"} \in SUBSET Flags  BY DEF Flags
<1>5. U!Read[t] \in Entries
  <2>1. \A n, w \in Names, x \in Nat, s \in SUBSET Flags :
          [name |-> n, new |-> w, time |-> x, status |-> s] \in Entries
    BY DEF Entries
  <2>. QED BY <1>1, <1>2, <1>3, <1>4, <2>1
<1> DEFINE r == [name |-> "", new |-> utmp[t].name, time |-> utmp[t].time, status |-> {"online"}]
<1>6. r.name = "" /\ r.new = utmp[t].name /\ r.time = utmp[t].time /\ r.status = {"online"}  OBVIOUS
<1>7. U!Read[t] = r  BY <1>1
<1> HIDE DEF r
<1>. QED BY <1>5, <1>6, <1>7

LEMMA ReadOnline ==
  ASSUME WatchInv, NEW t \in DOMAIN utmp, t \in DOMAIN list
  PROVE  /\ U!Read[t] \in Entries
         /\ U!Read[t].time = utmp[t].time
         /\ utmp[t].name = list[t].name =>
              U!Read[t].name = list[t].name /\ U!Read[t].status = {"online", "announce"}
         /\ utmp[t].name # list[t].name =>
              /\ U!Read[t].name = list[t].name /\ U!Read[t].new = utmp[t].name
              /\ U!Read[t].status = IF list[t].name = "" THEN {"online"} ELSE {"changed"}
<1>1. utmp[t].name \in Users /\ utmp[t].time \in Nat /\ list[t].time \in Nat
      /\ ~(utmp[t].time < list[t].time)
  <2>1. utmp[t] \in Records /\ list[t] \in Entries /\ list[t].time <= utmp[t].time
    BY DEF WatchInv, RecordsOK, EntriesOK, NotYounger
  <2>2. utmp[t].name \in Users /\ utmp[t].time \in Nat  BY <2>1 DEF Records
  <2>3. list[t].time \in Nat  BY <2>1 DEF Entries, Flags
  <2>. QED BY <2>1, <2>2, <2>3
<1>2. list[t] \in Entries  BY DEF WatchInv, EntriesOK
<1>3. U!Read[t] = U!Update(list[t], utmp[t])  BY DEF U!Read
<1>4. CASE utmp[t].name = list[t].name
  <2>1. U!Read[t] = [list[t] EXCEPT !.time = utmp[t].time, !.status = {"online", "announce"}]
    BY <1>1, <1>3, <1>4 DEF U!Update
  <2>. QED BY <1>1, <1>2, <1>4, <2>1 DEF Entries, Flags
<1>5. CASE utmp[t].name # list[t].name
  <2>1. U!Read[t] = [list[t] EXCEPT !.new = utmp[t].name, !.time = utmp[t].time,
                       !.status = IF list[t].name = "" THEN {"online"} ELSE {"changed"}]
    BY <1>1, <1>3, <1>5 DEF U!Update
  <2>2. CASE list[t].name = ""
    <3>1. U!Read[t] = [list[t] EXCEPT !.new = utmp[t].name, !.time = utmp[t].time, !.status = {"online"}]
      BY <2>1, <2>2
    <3>. QED BY <1>1, <1>2, <1>5, <2>2, <3>1 DEF Entries, Flags, Names
  <2>3. CASE list[t].name # ""
    <3>1. U!Read[t] = [list[t] EXCEPT !.new = utmp[t].name, !.time = utmp[t].time, !.status = {"changed"}]
      BY <2>1, <2>3
    <3>. QED BY <1>1, <1>2, <1>5, <2>3, <3>1 DEF Entries, Flags, Names
  <2>. QED BY <2>2, <2>3
<1>. QED BY <1>4, <1>5

LEMMA ReadGone ==
  ASSUME WatchInv, NEW t \in DOMAIN list, t \notin DOMAIN utmp
  PROVE  /\ U!Read[t] \in Entries
         /\ U!Read[t].name = list[t].name /\ U!Read[t].time = list[t].time
         /\ U!Read[t].status = {"offline", "cleared"}
<1>1. U!Read[t] = [list[t] EXCEPT !.status = {"offline", "cleared"}]  BY DEF U!Read, U!Cleared
<1>2. list[t] \in Entries  BY DEF WatchInv, EntriesOK
<1>. QED BY <1>1, <1>2 DEF Entries, Flags

\* What announcing an entry leaves.
LEMMA AnnouncedIn ==
  ASSUME NEW e \in Entries, e.status = {"online"} \/ e.status = {"changed"}
  PROVE  /\ U!Announced(e) \in Entries
         /\ U!Announced(e).time = e.time /\ U!Announced(e).name = e.new
         /\ U!Printed(e) = {<<"in", e.new>>}
<1>1. "cleared" \notin e.status /\ "offline" \notin e.status /\ e.status \cap {"online", "changed"} # {}
  OBVIOUS
<1>2. U!Announced(e) = [e EXCEPT !.name = e.new, !.status = e.status \cup {"announce"}]
  BY <1>1 DEF U!Announced
<1>3. U!Printed(e) = {<<"in", e.new>>}  BY <1>1 DEF U!Printed
<1>. QED BY <1>2, <1>3 DEF Entries, Flags

LEMMA AnnouncedOut ==
  ASSUME NEW e \in Entries, e.status = {"offline", "cleared"}, now \in Nat
  PROVE  /\ U!Announced(e) \in Entries
         /\ U!Announced(e).time = now /\ U!Announced(e).name = ""
         /\ U!Printed(e) = IF e.name # "" THEN {<<"out", e.name>>} ELSE {}
<1> DEFINE c == [e EXCEPT !.time = now, !.status = @ \ {"cleared"}]
<1>1. c \in Entries /\ c.name = e.name /\ c.time = now /\ c.status = {"offline"}
  BY DEF Entries, Flags
<1>2. U!Announced(e) =
        CASE "offline" \in c.status /\ c.name # "" -> [c EXCEPT !.name = "", !.status = @ \cup {"announce"}]
          [] c.status \cap {"online", "changed"} # {} -> [c EXCEPT !.name = c.new, !.status = @ \cup {"announce"}]
          [] OTHER -> c
  BY DEF U!Announced
<1> HIDE DEF c
<1>3. CASE e.name # ""
  <2>1. U!Announced(e) = [c EXCEPT !.name = "", !.status = c.status \cup {"announce"}]
    BY <1>1, <1>2, <1>3
  <2>2. U!Printed(e) = {<<"out", e.name>>}  BY <1>3 DEF U!Printed
  <2>3. "" \in Names /\ c.status \cup {"announce"} \in SUBSET Flags  BY <1>1 DEF Names, Flags
  <2>4. U!Announced(e) \in Entries /\ U!Announced(e).time = now /\ U!Announced(e).name = ""
    BY <1>1, <2>1, <2>3 DEF Entries
  <2>. QED BY <1>3, <2>2, <2>4
<1>4. CASE e.name = ""
  <2>1. U!Announced(e) = c  BY <1>1, <1>2, <1>4
  <2>2. U!Printed(e) = {}  BY <1>4 DEF U!Printed
  <2>. QED BY <1>1, <1>4, <2>1, <2>2
<1>. QED BY <1>3, <1>4

\* The entry of a terminal after a check, and what the check tells of it.
After(t) == IF U!Interesting(t, U!Read[t]) THEN U!Announced(U!Read[t]) ELSE U!Read[t]
Tells(t) == IF U!Who(t) \notin {"", known[t]} THEN {<<"in", U!Who(t)>>}
            ELSE IF known[t] # "" /\ U!Who(t) = "" THEN {<<"out", known[t]>>} ELSE {}

LEMMA CheckedOne ==
  ASSUME U!WatchAssumption, WatchInv, NEW t \in DOMAIN U!Read
  PROVE  /\ After(t) \in Entries /\ After(t).time <= now
         /\ t \in DOMAIN utmp => After(t).time = utmp[t].time
         /\ t \in Watched => /\ After(t).name = U!Who(t)
                             /\ U!Interesting(t, U!Read[t]) => U!Printed(U!Read[t]) = Tells(t)
                             /\ ~U!Interesting(t, U!Read[t]) => Tells(t) = {}
<1> DEFINE e == U!Read[t]
<1>0. /\ now \in Nat /\ "" \notin Users
      /\ t \in DOMAIN utmp => utmp[t].time <= now /\ utmp[t].name \in Users
      /\ t \in DOMAIN list => list[t].time <= now
      /\ t \in Watched => known[t] = IF t \in DOMAIN list THEN list[t].name ELSE ""
      /\ U!Who(t) = IF t \in DOMAIN utmp THEN utmp[t].name ELSE ""
      /\ U!Interesting(t, e) <=> t \in Watched /\ "announce" \notin e.status
  <2>1. now \in Nat /\ "" \notin Users  BY DEF WatchInv, Clock, U!WatchAssumption
  <2>2. t \in DOMAIN utmp => utmp[t].time <= now /\ utmp[t].name \in Users
    BY DEF WatchInv, RecordsOK, Records
  <2>3. t \in DOMAIN list => list[t].time <= now  BY DEF WatchInv, EntriesOK
  <2>4. t \in Watched => known[t] = IF t \in DOMAIN list THEN list[t].name ELSE ""
    BY DEF WatchInv, Remembers
  <2>. QED BY <2>1, <2>2, <2>3, <2>4 DEF U!Who, U!Interesting
<1>1. CASE t \in DOMAIN utmp /\ (t \notin DOMAIN list \/ utmp[t].name # list[t].name)
  <2>1. /\ e \in Entries /\ e.new = utmp[t].name /\ e.time = utmp[t].time
        /\ e.status = {"online"} \/ e.status = {"changed"}
    BY <1>1, ReadNew, ReadOnline
  <2>2. U!Interesting(t, e) <=> t \in Watched  BY <1>0, <2>1
  <2>3. /\ U!Announced(e) \in Entries /\ U!Announced(e).time = e.time /\ U!Announced(e).name = e.new
        /\ U!Printed(e) = {<<"in", e.new>>}
    BY <2>1, AnnouncedIn
  <2>4. U!Who(t) = utmp[t].name /\ utmp[t].name # ""  BY <1>0, <1>1
  <2>5. t \in Watched => Tells(t) = {<<"in", utmp[t].name>>}  BY <1>0, <1>1, <2>4 DEF Tells
  <2> HIDE DEF e
  <2>6. After(t) = IF t \in Watched THEN U!Announced(e) ELSE e  BY <2>2 DEF After, e
  <2>. QED BY <1>0, <1>1, <2>1, <2>2, <2>3, <2>4, <2>5, <2>6 DEF e
<1>2. CASE t \in DOMAIN utmp /\ t \in DOMAIN list /\ utmp[t].name = list[t].name
  <2>1. e \in Entries /\ e.name = list[t].name /\ e.time = utmp[t].time /\ e.status = {"online", "announce"}
    BY <1>2, ReadOnline
  <2>2. ~U!Interesting(t, e)  BY <1>0, <2>1
  <2>3. t \in Watched => Tells(t) = {}  BY <1>0, <1>2 DEF Tells
  <2>4. After(t) = e  BY <2>2 DEF After
  <2> HIDE DEF e
  <2>. QED BY <1>0, <1>2, <2>1, <2>2, <2>3, <2>4 DEF e
<1>3. CASE t \notin DOMAIN utmp
  <2>0. t \in DOMAIN list  BY <1>3, ReadTtys
  <2>1. e \in Entries /\ e.name = list[t].name /\ e.time = list[t].time /\ e.status = {"offline", "cleared"}
    BY <1>3, <2>0, ReadGone
  <2>2. U!Interesting(t, e) <=> t \in Watched  BY <1>0, <2>1
  <2>3. /\ U!Announced(e) \in Entries /\ U!Announced(e).time = now /\ U!Announced(e).name = ""
        /\ U!Printed(e) = IF e.name # "" THEN {<<"out", e.name>>} ELSE {}
    BY <1>0, <2>1, AnnouncedOut
  <2>4. t \in Watched => Tells(t) = IF list[t].name # "" THEN {<<"out", list[t].name>>} ELSE {}
    BY <1>0, <1>3, <2>0 DEF Tells
  <2>5. now <= now
    <3>1. now \in Nat  BY DEF WatchInv, Clock
    <3>. QED BY <3>1
  <2> HIDE DEF e
  <2>6. After(t) = IF t \in Watched THEN U!Announced(e) ELSE e  BY <2>2 DEF After, e
  <2>. QED BY <1>0, <1>3, <2>0, <2>1, <2>2, <2>3, <2>4, <2>5, <2>6 DEF e
<1>. QED BY <1>1, <1>2, <1>3

LEMMA WatchNext == ASSUME U!WatchAssumption, WatchInv, [U!Next]_U!vars PROVE WatchInv'
<1>0. /\ now \in Nat /\ mtime \in Nat
      /\ \A t \in DOMAIN utmp : utmp[t].time \in Nat /\ utmp[t].time <= now
      /\ \A t \in DOMAIN list : list[t].time \in Nat /\ list[t].time <= now
  BY DEF WatchInv, Clock, RecordsOK, EntriesOK, Records, Entries
<1>1. CASE U!Login
  <2>1. PICK t \in Ttys \ DOMAIN utmp, u \in Users :
          /\ utmp' = [x \in DOMAIN utmp \cup {t} |-> IF x = t THEN [name |-> u, time |-> now] ELSE utmp[x]]
          /\ mtime' = now
          /\ UNCHANGED <<now, list, watch, stlast, known>>
    BY <1>1 DEF U!Login
  <2>2. DOMAIN utmp' = DOMAIN utmp \cup {t} /\ utmp'[t] = [name |-> u, time |-> now]
        /\ \A x \in DOMAIN utmp : utmp'[x] = utmp[x]
    BY <2>1
  <2>3. utmp'[t] \in Records /\ utmp'[t].time = now  BY <1>0, <2>2 DEF Records
  <2>4. RecordsOK'  BY <1>0, <2>1, <2>2, <2>3 DEF WatchInv, RecordsOK
  <2>5. NotYounger'  BY <1>0, <2>1, <2>2, <2>3 DEF WatchInv, NotYounger
  <2>6. Clock' /\ Primed' /\ EntriesOK' /\ Remembers'
    BY <1>0, <2>1 DEF WatchInv, Clock, Primed, EntriesOK, Remembers
  <2>. QED BY <2>4, <2>5, <2>6 DEF WatchInv
<1>2. CASE U!Logout
  <2>1. PICK t \in DOMAIN utmp :
          /\ utmp' = [x \in DOMAIN utmp \ {t} |-> utmp[x]]
          /\ mtime' = now
          /\ UNCHANGED <<now, list, watch, stlast, known>>
    BY <1>2 DEF U!Logout
  <2>2. DOMAIN utmp' \subseteq DOMAIN utmp /\ \A x \in DOMAIN utmp' : utmp'[x] = utmp[x]  BY <2>1
  <2>3. RecordsOK' /\ NotYounger'  BY <2>1, <2>2 DEF WatchInv, RecordsOK, NotYounger
  <2>4. Clock' /\ Primed' /\ EntriesOK' /\ Remembers'
    BY <1>0, <2>1 DEF WatchInv, Clock, Primed, EntriesOK, Remembers
  <2>. QED BY <2>3, <2>4 DEF WatchInv
<1>3. CASE U!Tick
  <2>1. now' = now + 1 /\ UNCHANGED <<utmp, mtime, list, watch, stlast, known>>  BY <1>3 DEF U!Tick
  <2>2. \A n \in Nat : n <= now => n <= now + 1  BY <1>0
  <2>3. Clock' /\ RecordsOK' /\ EntriesOK'  BY <1>0, <2>1, <2>2 DEF WatchInv, Clock, RecordsOK, EntriesOK
  <2>4. Primed' /\ NotYounger' /\ Remembers'  BY <2>1 DEF WatchInv, Primed, NotYounger, Remembers
  <2>. QED BY <2>3, <2>4 DEF WatchInv
<1>4. CASE U!SetWatch \/ U!UnsetWatch
  <2>1. UNCHANGED <<now, utmp, mtime, list, known>>  BY <1>4 DEF U!SetWatch, U!UnsetWatch
  <2>2. watch' => stlast' # -1  BY <1>4 DEF U!SetWatch, U!UnsetWatch, U!resetwatch
  <2>3. Clock' /\ RecordsOK' /\ EntriesOK' /\ NotYounger' /\ Remembers'
    BY <2>1 DEF WatchInv, Clock, RecordsOK, EntriesOK, NotYounger, Remembers
  <2>. QED BY <2>2, <2>3 DEF WatchInv, Primed
<1>5. CASE U!dolog
  <2>1. /\ list' = [t \in DOMAIN list |-> [list[t] EXCEPT !.name = ""]]
        /\ known' = [t \in Ttys |-> ""] /\ stlast' = -2
        /\ UNCHANGED <<now, utmp, mtime, watch>>
    BY <1>5 DEF U!dolog, U!Forget, U!resetwatch
  <2>2. DOMAIN list' = DOMAIN list  BY <2>1
  <2>3. ASSUME NEW t \in DOMAIN list
        PROVE  list'[t] \in Entries /\ list'[t].time = list[t].time /\ list'[t].name = ""
    <3>1. list[t] \in Entries /\ list'[t] = [list[t] EXCEPT !.name = ""]
      BY <2>1 DEF WatchInv, EntriesOK
    <3>2. "" \in Names  BY DEF Names
    <3>. QED BY <3>1, <3>2 DEF Entries
  <2>4. \A t \in Watched : known'[t] = ""  BY <2>1 DEF U!WatchAssumption
  <2>5. EntriesOK' /\ NotYounger'  BY <2>1, <2>2, <2>3 DEF WatchInv, EntriesOK, NotYounger
  <2>6. Remembers'  BY <2>2, <2>3, <2>4 DEF Remembers
  <2>7. Clock' /\ RecordsOK'  BY <2>1 DEF WatchInv, Clock, RecordsOK
  <2>8. Primed'
    <3>1. stlast' = -2  BY <2>1
    <3>2. stlast' # -1  BY <3>1
    <3>. QED BY <3>2, Zenon DEF Primed
  <2>. QED BY <2>5, <2>6, <2>7, <2>8 DEF WatchInv
<1>6. CASE U!watch_login
  <2>1. UNCHANGED <<now, utmp, mtime, watch>>  BY <1>6 DEF U!watch_login
  <2>2. CASE stlast = mtime
    <3>1. UNCHANGED <<list, stlast, known>>  BY <1>6, <2>2 DEF U!watch_login
    <3>. QED BY <2>1, <3>1 DEF WatchInv, Clock, Primed, RecordsOK, EntriesOK, NotYounger, Remembers
  <2>3. CASE stlast # mtime
    <3>1. /\ stlast' = mtime
          /\ list' = [t \in DOMAIN U!Read |-> After(t)]
          /\ known' = [t \in Ttys |-> U!Who(t)]
      BY <1>6, <2>3 DEF U!watch_login, After
    <3>2. DOMAIN list' = DOMAIN U!Read /\ \A t \in DOMAIN U!Read : list'[t] = After(t)  BY <3>1
    <3>3. EntriesOK'  BY <2>1, <3>2, CheckedOne DEF EntriesOK
    <3>4. NotYounger'
      <4>1. \A t \in DOMAIN utmp : utmp[t].time \in Nat  BY <1>0
      <4>. QED BY <2>1, <3>2, <4>1, CheckedOne DEF NotYounger
    <3>5. Remembers'
      <4>1. \A t \in Watched : known'[t] = U!Who(t)  BY <3>1 DEF U!WatchAssumption
      <4>2. \A t \in Watched \ DOMAIN U!Read : U!Who(t) = ""  BY ReadTtys DEF U!Who
      <4>. QED BY <3>2, <4>1, <4>2, CheckedOne DEF Remembers
    <3>6. Primed'  BY <1>0, <3>1 DEF Primed
    <3>7. Clock' /\ RecordsOK'  BY <2>1 DEF WatchInv, Clock, RecordsOK
    <3>. QED BY <3>3, <3>4, <3>5, <3>6, <3>7 DEF WatchInv
  <2>. QED BY <2>2, <2>3
<1>7. CASE UNCHANGED U!vars
  BY <1>7 DEF U!vars, WatchInv, Clock, Primed, RecordsOK, EntriesOK, NotYounger, Remembers
<1>. QED BY <1>1, <1>2, <1>3, <1>4, <1>5, <1>6, <1>7 DEF U!Next

LEMMA CheckTells == ASSUME U!WatchAssumption, WatchInv PROVE U!TellsChanges
<1>. SUFFICES ASSUME U!watch_login
              PROVE  told' = IF stlast' = stlast THEN {}
                             ELSE {<<t, "in", U!Who(t)>> : t \in {x \in Watched : U!Who(x) \notin {"", known[x]}}}
                               \cup {<<t, "out", known[t]>> : t \in {x \in Watched : known[x] # "" /\ U!Who(x) = ""}}
  BY DEF U!TellsChanges
<1> DEFINE In == {<<t, "in", U!Who(t)>> : t \in {x \in Watched : U!Who(x) \notin {"", known[x]}}}
           Out == {<<t, "out", known[t]>> : t \in {x \in Watched : known[x] # "" /\ U!Who(x) = ""}}
           Shown == {x \in DOMAIN U!Read : U!Interesting(x, U!Read[x])}
           ToldOf(t) == {<<t, p[1], p[2]>> : p \in U!Printed(U!Read[t])}
<1>1. CASE stlast = mtime
  BY <1>1 DEF U!watch_login
<1>2. CASE stlast # mtime
  <2>1. stlast' = mtime /\ stlast # -1  BY <1>2 DEF U!watch_login, WatchInv, Primed
  <2>2. told' = UNION {ToldOf(t) : t \in Shown}  BY <1>2, <2>1 DEF U!watch_login
  <2>3. ASSUME NEW t \in Shown
        PROVE  t \in Watched /\ ToldOf(t) = {<<t, p[1], p[2]>> : p \in Tells(t)}
    <3>1. t \in Watched /\ U!Printed(U!Read[t]) = Tells(t)
      BY <2>3, CheckedOne DEF U!Interesting
    <3>. QED BY <3>1
  <2>4. ASSUME NEW t \in Watched, t \notin Shown PROVE Tells(t) = {}
    <3>1. CASE t \in DOMAIN U!Read  BY <2>4, <3>1, CheckedOne
    <3>2. CASE t \notin DOMAIN U!Read
      <4>1. t \notin DOMAIN list /\ t \notin DOMAIN utmp  BY <3>2, ReadTtys
      <4>2. known[t] = "" /\ U!Who(t) = ""  BY <4>1 DEF WatchInv, Remembers, U!Who
      <4>. QED BY <4>2 DEF Tells
    <3>. QED BY <3>1, <3>2
  <2> DEFINE About(t) == {<<t, p[1], p[2]>> : p \in Tells(t)}
  <2>5. told' = UNION {About(t) : t \in Watched}
    <3>1. \A t \in Watched \ Shown : About(t) = {}  BY <2>4
    <3>2. \A t \in Shown : t \in Watched /\ ToldOf(t) = About(t)  BY <2>3
    <3> HIDE DEF About, ToldOf, Shown
    <3>. QED BY <2>2, <3>1, <3>2
  <2>6. ASSUME NEW t \in Watched
        PROVE  About(t) = IF U!Who(t) \notin {"", known[t]} THEN {<<t, "in", U!Who(t)>>}
                          ELSE IF known[t] # "" /\ U!Who(t) = "" THEN {<<t, "out", known[t]>>} ELSE {}
    <3>1. \A a, b : {<<t, p[1], p[2]>> : p \in {<<a, b>>}} = {<<t, a, b>>}
      <4>1. \A a, b : <<a, b>>[1] = a /\ <<a, b>>[2] = b  OBVIOUS
      <4>. QED BY <4>1
    <3>2. {<<t, p[1], p[2]>> : p \in {}} = {}  OBVIOUS
    <3>. QED BY <3>1, <3>2 DEF Tells
  <2> HIDE DEF About
  <2>7. told' = In \cup Out
    BY <2>5, <2>6
  <2>. QED BY <1>2, <2>1, <2>7
<1>. QED BY <1>1, <1>2

(* A check before a prompt tells each login and logout on the watched terminals
   since the records were last read, and nothing else (watch_login(),
   tc.who.c:237): for any terminals, users, intervals and times. *)
THEOREM LoginsTold == ASSUME U!WatchAssumption PROVE U!Spec => [][U!TellsChanges]_U!vars
<1>1. U!Init => WatchInv  BY WatchInit
<1>2. WatchInv /\ [U!Next]_U!vars => WatchInv'  BY WatchNext
<1>3. WatchInv => U!TellsChanges  BY CheckTells
<1>. QED BY <1>1, <1>2, <1>3, PTL DEF U!Spec

-------------------------------------------------------------------------------
(* The mail. *)

\* The shell's clock is not behind what it has noted; what no look has seen is
\* there and not read, and all else is empty, old or read.
MailInv ==
  /\ now \in Nat /\ chktim \in Nat /\ seconds0 \in Nat
  /\ chktim <= now
  /\ box \in [Boxes -> [size : Nat, atime : Nat, mtime : Nat]]
  /\ \A b \in Boxes :
       /\ box[b].mtime <= now /\ box[b].atime <= now
       /\ b \in unseen => box[b].size > 0 /\ box[b].atime <= box[b].mtime
       /\ b \notin unseen => \/ box[b].size = 0 \/ box[b].mtime <= chktim
                             \/ b \notin Dirs /\ box[b].atime >= box[b].mtime
  /\ unseen \subseteq Boxes

LEMMA MailInit == C!Init => MailInv
<1>. SUFFICES ASSUME C!Init PROVE MailInv  OBVIOUS
<1>1. now = 1 /\ seconds0 = 1 /\ chktim \in {0, 1} /\ unseen = {}
      /\ box = [b \in Boxes |-> [size |-> 0, atime |-> 0, mtime |-> 0]]
  BY DEF C!Init
<1>2. box \in [Boxes -> [size : Nat, atime : Nat, mtime : Nat]]  BY <1>1
<1>3. \A b \in Boxes : box[b].size = 0 /\ box[b].mtime = 0 /\ box[b].atime = 0  BY <1>1
<1>. QED BY <1>1, <1>2, <1>3 DEF MailInv

LEMMA MailNext == MailInv /\ [C!Next]_C!vars => MailInv'
<1>. SUFFICES ASSUME MailInv, [C!Next]_C!vars PROVE MailInv'  OBVIOUS
<1>0. \A b \in Boxes : box[b].size \in Nat /\ box[b].atime \in Nat /\ box[b].mtime \in Nat
  BY DEF MailInv
<1>1. CASE C!Tick
  BY <1>0, <1>1 DEF C!Tick, C!mail, MailInv
<1>2. CASE C!Deliver
  <2>1. PICK b \in Boxes :
          /\ box' = [box EXCEPT ![b].size = @ + 1, ![b].mtime = now]
          /\ unseen' = unseen \cup {b}
          /\ UNCHANGED <<now, loginsh, chktim, seconds0>>
    BY <1>2 DEF C!Deliver
  <2>2. box' = [box EXCEPT ![b] = [size |-> box[b].size + 1, atime |-> box[b].atime, mtime |-> now]]
    <3>1. box[b] = [size |-> box[b].size, atime |-> box[b].atime, mtime |-> box[b].mtime] /\ box = [c \in Boxes |-> box[c]]
      BY DEF MailInv
    <3> DEFINE e == [size |-> box[b].size + 1, atime |-> box[b].atime, mtime |-> now]
    <3>2. \A c \in Boxes \ {b} : box'[c] = box[c]  BY <2>1, <3>1
    <3>3. box'[b] = e  BY <2>1, <3>1
    <3>4. box' = [c \in Boxes |-> box'[c]]  BY <2>1, <3>1
    <3> HIDE DEF e
    <3>5. [box EXCEPT ![b] = e] = [c \in Boxes |-> IF c = b THEN e ELSE box[c]]  BY <3>1
    <3>. QED BY <3>2, <3>3, <3>4, <3>5 DEF e
  <2>3. box' \in [Boxes -> [size : Nat, atime : Nat, mtime : Nat]]
    BY <1>0, <2>2 DEF MailInv
  <2>4. box'[b].size = box[b].size + 1 /\ box'[b].atime = box[b].atime /\ box'[b].mtime = now
    BY <2>2 DEF MailInv
  <2>5. \A c \in Boxes \ {b} : box'[c] = box[c]  BY <2>2 DEF MailInv
  <2>6. box[b].atime <= now
    BY DEF MailInv
  <2>. QED BY <1>0, <2>1, <2>3, <2>4, <2>5, <2>6 DEF MailInv
<1>3. CASE C!ReadMail
  <2>1. PICK b \in Boxes \ Dirs :
          /\ box' = [box EXCEPT ![b].atime = now]
          /\ unseen' = unseen \ {b}
          /\ UNCHANGED <<now, loginsh, chktim, seconds0>>
    BY <1>3 DEF C!ReadMail
  <2>2. box' = [box EXCEPT ![b] = [size |-> box[b].size, atime |-> now, mtime |-> box[b].mtime]]
    <3>1. box[b] = [size |-> box[b].size, atime |-> box[b].atime, mtime |-> box[b].mtime] /\ box = [c \in Boxes |-> box[c]]
      BY DEF MailInv
    <3> DEFINE e == [size |-> box[b].size, atime |-> now, mtime |-> box[b].mtime]
    <3>2. \A c \in Boxes \ {b} : box'[c] = box[c]  BY <2>1, <3>1
    <3>3. box'[b] = e  BY <2>1, <3>1
    <3>4. box' = [c \in Boxes |-> box'[c]]  BY <2>1, <3>1
    <3> HIDE DEF e
    <3>5. [box EXCEPT ![b] = e] = [c \in Boxes |-> IF c = b THEN e ELSE box[c]]  BY <3>1
    <3>. QED BY <3>2, <3>3, <3>4, <3>5 DEF e
  <2>3. box' \in [Boxes -> [size : Nat, atime : Nat, mtime : Nat]]
    BY <1>0, <2>2 DEF MailInv
  <2>4. box'[b].size = box[b].size /\ box'[b].atime = now /\ box'[b].mtime = box[b].mtime
    BY <2>2 DEF MailInv
  <2>5. \A c \in Boxes \ {b} : box'[c] = box[c]  BY <2>2 DEF MailInv
  <2>. QED BY <1>0, <2>1, <2>3, <2>4, <2>5 DEF MailInv
<1>4. CASE C!Prompt
  <2>1. /\ UNCHANGED <<now, box, loginsh, seconds0>>
        /\ \/ UNCHANGED <<chktim, unseen>>
           \/ chktim' = now /\ unseen' = {}
    BY <1>4 DEF C!Prompt, C!mailchk
  <2>. QED BY <1>0, <2>1 DEF MailInv
<1>5. CASE C!SetPeriodic \/ UNCHANGED C!vars
  BY <1>0, <1>5 DEF C!SetPeriodic, C!mail, C!vars, MailInv
<1>. QED BY <1>1, <1>2, <1>3, <1>4, <1>5 DEF C!Next

\* One look at the mail, from such a state.
LEMMA LookTells == MailInv => C!TellsOnce
<1>. SUFFICES ASSUME MailInv, C!Prompt, chktim' # chktim
              PROVE  /\ told' \subseteq unseen
                     /\ \A b \in unseen \ told' : \/ box[b].mtime <= chktim + (IF b \in Dirs THEN 1 ELSE 0)
                                                  \/ loginsh /\ box[b].mtime <= seconds0
                                                  \/ b \notin Dirs /\ box[b].mtime = box[b].atime
  BY DEF C!TellsOnce
<1>0. \A b \in Boxes : box[b].size \in Nat /\ box[b].atime \in Nat /\ box[b].mtime \in Nat
  BY DEF MailInv
<1>1. told' = {b \in Boxes : C!HasMail(b)}  BY DEF C!Prompt, C!mailchk
<1>2. ASSUME NEW b \in Boxes, C!HasMail(b) PROVE b \in unseen
  <2>1. CASE b \in Dirs  BY <1>0, <1>2, <2>1 DEF C!HasMail, MailInv
  <2>2. CASE b \notin Dirs  BY <1>0, <1>2, <2>2 DEF C!HasMail, MailInv
  <2>. QED BY <2>1, <2>2
<1>3. ASSUME NEW b \in unseen, ~C!HasMail(b)
      PROVE  \/ box[b].mtime <= chktim + (IF b \in Dirs THEN 1 ELSE 0)
             \/ loginsh /\ box[b].mtime <= seconds0
             \/ b \notin Dirs /\ box[b].mtime = box[b].atime
  <2>0. b \in Boxes /\ chktim \in Nat /\ seconds0 \in Nat  BY DEF MailInv
  <2>1. box[b].size > 0 /\ box[b].atime <= box[b].mtime  BY <2>0 DEF MailInv
  <2>2. CASE loginsh /\ ~C!isNew(b)  BY <1>0, <2>0, <2>2 DEF C!isNew
  <2>3. CASE b \in Dirs /\ ~(loginsh /\ ~C!isNew(b))
    BY <1>0, <1>3, <2>0, <2>1, <2>3 DEF C!HasMail
  <2>4. CASE b \notin Dirs /\ ~(loginsh /\ ~C!isNew(b))
    BY <1>0, <1>3, <2>0, <2>1, <2>4 DEF C!HasMail
  <2>. QED BY <2>2, <2>3, <2>4
<1>. QED BY <1>1, <1>2, <1>3 DEF MailInv

(* Mail is told of once, by the look that follows its coming, and missed only when
   it comes in the second of a look or of a reading, or before the login
   (mailchk(), sh.c:2334): for any boxes, intervals and times. *)
THEOREM MailToldOnce == C!Spec => [][C!TellsOnce]_C!vars
<1>. QED BY MailInit, MailNext, LookTells, PTL DEF C!Spec

-------------------------------------------------------------------------------
(* Scheduled events and alarms. *)

Later(a, b) == IF a >= b THEN a ELSE b

LEMMA LaterIs == ASSUME NEW a \in Int, NEW b \in Int PROVE A!Max({a, b}) = Later(a, b)
<1>1. Later(a, b) \in {a, b} /\ \A y \in {a, b} : Later(a, b) >= y  BY DEF Later
<1>2. \A x \in {a, b} : (\A y \in {a, b} : x >= y) => x = Later(a, b)  BY DEF Later
<1>. QED BY <1>1, <1>2 DEF A!Max

LEMMA GreatestIs ==
  ASSUME NEW n \in Nat, NEW S, S \subseteq 0 .. n, S # {}
  PROVE  A!Max(S) \in S /\ \A q \in S : q <= A!Max(S)
<1> DEFINE D == {n - x : x \in S}
<1>1. D \subseteq Nat /\ D # {}
  <2>1. \A x \in S : n - x \in Nat  OBVIOUS
  <2>. QED BY <2>1
<1>2. Min(D) \in D /\ \A q \in D : Min(D) <= q
  <2> HIDE DEF D
  <2>. QED BY <1>1, MinIs
<1>3. PICK x \in S : Min(D) = n - x  BY <1>2
<1>4. \A y \in S : y <= x
  <2> SUFFICES ASSUME NEW y \in S PROVE y <= x  OBVIOUS
  <2>1. n - y \in D  OBVIOUS
  <2>2. n - x <= n - y
    <3> HIDE DEF D
    <3>. QED BY <1>2, <1>3, <2>1
  <2>. QED BY <2>2
<1>5. \A z \in S : z \in Int  OBVIOUS
<1>. QED BY <1>4, <1>5 DEF A!Max

LEMMA RemoveAtIs ==
  ASSUME NEW X, NEW s \in Seq(X), NEW pos \in 1 .. Len(s)
  PROVE  LET t == A!RemoveAt(s, pos) IN
         /\ t \in Seq(X) /\ Len(t) = Len(s) - 1
         /\ \A i \in 1 .. Len(t) : t[i] = IF i < pos THEN s[i] ELSE s[i + 1]
<1> DEFINE a == SubSeq(s, 1, pos - 1)
           b == SubSeq(s, pos + 1, Len(s))
<1>1. a \in Seq(X) /\ Len(a) = pos - 1 /\ \A i \in 1 .. pos - 1 : a[i] = s[i]  OBVIOUS
<1>2. b \in Seq(X) /\ Len(b) = Len(s) - pos /\ \A i \in 1 .. Len(s) - pos : b[i] = s[pos + i]
  OBVIOUS
<1>3. A!RemoveAt(s, pos) = a \o b  BY DEF A!RemoveAt
<1> HIDE DEF a, b
<1>4. a \o b \in Seq(X) /\ Len(a \o b) = Len(s) - 1
  <2>1. a \o b \in Seq(X) /\ Len(a \o b) = Len(a) + Len(b)  BY <1>1, <1>2, ConcatProperties
  <2>. QED BY <1>1, <1>2, <2>1
<1>5. \A i \in 1 .. Len(s) - 1 : (a \o b)[i] = IF i < pos THEN s[i] ELSE s[i + 1]
  BY <1>1, <1>2
<1>. QED BY <1>3, <1>4, <1>5

LEMMA InsertAtIs ==
  ASSUME NEW X, NEW s \in Seq(X), NEW pos \in 1 .. Len(s) + 1, NEW x \in X
  PROVE  LET t == A!InsertAt(s, pos, x) IN
         /\ t \in Seq(X) /\ Len(t) = Len(s) + 1
         /\ \A i \in 1 .. Len(t) :
              t[i] = IF i < pos THEN s[i] ELSE IF i = pos THEN x ELSE s[i - 1]
<1> DEFINE a == SubSeq(s, 1, pos - 1)
           b == SubSeq(s, pos, Len(s))
           c == a \o << x >>
<1>1. a \in Seq(X) /\ Len(a) = pos - 1 /\ \A i \in 1 .. pos - 1 : a[i] = s[i]  OBVIOUS
<1>2. b \in Seq(X) /\ Len(b) = Len(s) - pos + 1
      /\ \A i \in 1 .. Len(s) - pos + 1 : b[i] = s[pos + i - 1]
  OBVIOUS
<1>3. A!InsertAt(s, pos, x) = c \o b  BY DEF A!InsertAt
<1> HIDE DEF a, b
<1>4. c \in Seq(X) /\ Len(c) = pos /\ \A i \in 1 .. pos : c[i] = IF i < pos THEN s[i] ELSE x
  BY <1>1
<1> HIDE DEF c
<1>5. c \o b \in Seq(X) /\ Len(c \o b) = Len(s) + 1
  <2>1. c \o b \in Seq(X) /\ Len(c \o b) = Len(c) + Len(b)  BY <1>2, <1>4, ConcatProperties
  <2>. QED BY <1>2, <1>4, <2>1
<1>6. \A i \in 1 .. Len(s) + 1 :
        (c \o b)[i] = IF i < pos THEN s[i] ELSE IF i = pos THEN x ELSE s[i - 1]
  <2>1. \A i \in 1 .. Len(c) + Len(b) : (c \o b)[i] = IF i <= Len(c) THEN c[i] ELSE b[i - Len(c)]
    BY <1>2, <1>4, ConcatProperties
  <2>. QED BY <1>2, <1>4, <2>1
<1>. QED BY <1>3, <1>5, <1>6

\* A list of events as sched keeps it: by time, those of one time as they came.
Events == [when : Int, id : Nat]
Before(d, e) == /\ d.when <= e.when /\ d.id # e.id
                /\ d.when = e.when => d.id < e.id
InOrder(q) == q \in Seq(Events) /\ \A i, j \in 1 .. Len(q) : i < j => Before(q[i], q[j])

LEMMA RestInOrder ==
  ASSUME NEW q, InOrder(q), NEW n \in 0 .. Len(q)
  PROVE  LET r == SubSeq(q, n + 1, Len(q)) IN
         /\ InOrder(r) /\ Len(r) = Len(q) - n
         /\ \A i \in 1 .. Len(r) : r[i] = q[n + i]
<1> DEFINE r == SubSeq(q, n + 1, Len(q))
<1>1. q \in Seq(Events) /\ Len(q) \in Nat  BY DEF InOrder
<1>2. r \in Seq(Events) /\ Len(r) = Len(q) - n  BY <1>1
<1>3. \A i \in 1 .. Len(r) : r[i] = q[n + i]  BY <1>1, <1>2
<1> HIDE DEF r
<1>4. \A i, j \in 1 .. Len(r) : i < j => Before(r[i], r[j])
  <2> SUFFICES ASSUME NEW i \in 1 .. Len(r), NEW j \in 1 .. Len(r), i < j PROVE Before(r[i], r[j])  OBVIOUS
  <2>1. n + i \in 1 .. Len(q) /\ n + j \in 1 .. Len(q) /\ n + i < n + j  BY <1>1, <1>2
  <2>. QED BY <1>3, <2>1 DEF InOrder
<1>. QED BY <1>2, <1>3, <1>4 DEF InOrder, r

LEMMA RemovedInOrder ==
  ASSUME NEW q, InOrder(q), NEW n \in 1 .. Len(q)
  PROVE  LET r == A!RemoveAt(q, n) IN
         InOrder(r) /\ \A i \in 1 .. Len(r) : \E j \in 1 .. Len(q) : r[i] = q[j]
<1> DEFINE r == A!RemoveAt(q, n)
           old(i) == IF i < n THEN i ELSE i + 1
<1>1. q \in Seq(Events) /\ Len(q) \in Nat  BY DEF InOrder
<1>2. /\ r \in Seq(Events) /\ Len(r) = Len(q) - 1
      /\ \A i \in 1 .. Len(r) : r[i] = IF i < n THEN q[i] ELSE q[i + 1]
  BY <1>1, RemoveAtIs
<1> HIDE DEF r
<1>3. \A i \in 1 .. Len(r) : old(i) \in 1 .. Len(q) /\ r[i] = q[old(i)]  BY <1>1, <1>2
<1>4. \A i, j \in 1 .. Len(r) : i < j => old(i) < old(j)  BY <1>1, <1>2
<1> HIDE DEF old
<1>5. \A i, j \in 1 .. Len(r) : i < j => Before(r[i], r[j])
  BY <1>3, <1>4 DEF InOrder
<1>. QED BY <1>2, <1>3, <1>5 DEF InOrder, r

\* dosched() keeps the list in order, the new event being the youngest.
LEMMA InsertedInOrder ==
  ASSUME NEW q, InOrder(q), NEW e \in Events, \A i \in 1 .. Len(q) : q[i].id < e.id
  PROVE  LET r == A!insert(q, e) IN
         /\ InOrder(r) /\ r # << >>
         /\ \A i \in 1 .. Len(r) : r[i] = e \/ \E j \in 1 .. Len(q) : r[i] = q[j]
<1> DEFINE S == {n \in 0 .. Len(q) : \A i \in 1 .. n : e.when >= q[i].when}
           k == A!Max(S)
           r == A!insert(q, e)
<1>1. q \in Seq(Events) /\ Len(q) \in Nat /\ (\A i \in 1 .. Len(q) : q[i] \in Events)  BY DEF InOrder
<1>2. S \subseteq 0 .. Len(q) /\ 0 \in S  BY <1>1
<1>3. k \in S /\ \A m \in S : m <= k
  <2> HIDE DEF S
  <2>. QED BY <1>1, <1>2, GreatestIs
<1>4. r = A!InsertAt(q, k + 1, e)  BY DEF A!insert
<1> HIDE DEF k
<1>5. k \in 0 .. Len(q) /\ (\A i \in 1 .. k : e.when >= q[i].when)  BY <1>3
<1>6. k + 1 \in 1 .. Len(q) => e.when < q[k + 1].when
  <2> SUFFICES ASSUME k + 1 \in 1 .. Len(q), ~(e.when < q[k + 1].when) PROVE FALSE  OBVIOUS
  <2>1. q[k + 1] \in Events  BY <1>1
  <2>2. e.when >= q[k + 1].when  BY <2>1 DEF Events
  <2>3. \A i \in 1 .. k + 1 : i \in 1 .. k \/ i = k + 1  BY <1>5
  <2>4. k + 1 \in S  BY <1>5, <2>2, <2>3
  <2> HIDE DEF S
  <2>5. k + 1 <= k  BY <1>3, <2>4
  <2>. QED BY <1>5, <2>5
<1> HIDE DEF S
<1>7. \A i \in 1 .. Len(q) : i > k => e.when < q[i].when
  <2> SUFFICES ASSUME NEW i \in 1 .. Len(q), i > k PROVE e.when < q[i].when  OBVIOUS
  <2>1. k + 1 \in 1 .. Len(q) /\ (i = k + 1 \/ k + 1 < i)  BY <1>1, <1>5
  <2>2. i = k + 1 \/ Before(q[k + 1], q[i])  BY <2>1 DEF InOrder
  <2>3. q[i] \in Events /\ q[k + 1] \in Events /\ e.when < q[k + 1].when  BY <1>1, <1>6, <2>1
  <2>. QED BY <2>2, <2>3 DEF Before, Events
<1>8. /\ r \in Seq(Events) /\ Len(r) = Len(q) + 1
      /\ \A i \in 1 .. Len(r) : r[i] = IF i < k + 1 THEN q[i] ELSE IF i = k + 1 THEN e ELSE q[i - 1]
  <2> DEFINE p == k + 1
             t == A!InsertAt(q, p, e)
  <2>1. p \in 1 .. Len(q) + 1  BY <1>1, <1>5
  <2> HIDE DEF p
  <2>2. /\ t \in Seq(Events) /\ Len(t) = Len(q) + 1
        /\ \A i \in 1 .. Len(t) : t[i] = IF i < p THEN q[i] ELSE IF i = p THEN e ELSE q[i - 1]
    BY <1>1, <2>1, InsertAtIs
  <2>3. r = t  BY <1>4 DEF p
  <2> HIDE DEF t, r
  <2>. QED BY <2>2, <2>3 DEF p
<1> HIDE DEF r
<1>9. \A i, j \in 1 .. Len(r) : i < j => Before(r[i], r[j])
  <2> SUFFICES ASSUME NEW i \in 1 .. Len(r), NEW j \in 1 .. Len(r), i < j PROVE Before(r[i], r[j])  OBVIOUS
  <2>1. CASE i <= k /\ j <= k
    <3>1. r[i] = q[i] /\ r[j] = q[j] /\ i \in 1 .. Len(q) /\ j \in 1 .. Len(q)  BY <1>1, <1>5, <1>8, <2>1
    <3>. QED BY <3>1 DEF InOrder
  <2>2. CASE i <= k /\ j = k + 1
    <3>1. r[i] = q[i] /\ r[j] = e /\ i \in 1 .. Len(q) /\ i \in 1 .. k  BY <1>1, <1>5, <1>8, <2>2
    <3>2. q[i] \in Events /\ e.when >= q[i].when /\ q[i].id < e.id  BY <1>1, <1>5, <3>1
    <3>. QED BY <3>1, <3>2 DEF Before, Events
  <2>3. CASE i <= k /\ j > k + 1
    <3>1. i \in 1 .. Len(q) /\ j - 1 \in 1 .. Len(q) /\ i < j - 1  BY <1>1, <1>5, <1>8, <2>3
    <3>2. r[i] = q[i] /\ r[j] = q[j - 1]  BY <1>5, <1>8, <2>3
    <3>. QED BY <3>1, <3>2 DEF InOrder
  <2>4. CASE i = k + 1
    <3>1. r[i] = e /\ r[j] = q[j - 1] /\ j - 1 \in 1 .. Len(q) /\ j - 1 > k  BY <1>1, <1>5, <1>8, <2>4
    <3>2. q[j - 1] \in Events /\ e.when < q[j - 1].when /\ q[j - 1].id < e.id  BY <1>1, <1>7, <3>1
    <3>. QED BY <3>1, <3>2 DEF Before, Events
  <2>5. CASE i > k + 1
    <3>1. /\ r[i] = q[i - 1] /\ r[j] = q[j - 1] /\ i - 1 \in 1 .. Len(q) /\ j - 1 \in 1 .. Len(q)
          /\ i - 1 < j - 1
      BY <1>1, <1>5, <1>8, <2>5
    <3>. QED BY <3>1 DEF InOrder
  <2>6. j <= k \/ j = k + 1 \/ j > k + 1  BY <1>5
  <2>. QED BY <1>5, <2>1, <2>2, <2>3, <2>4, <2>5, <2>6
<1>10. \A i \in 1 .. Len(r) : r[i] = e \/ \E j \in 1 .. Len(q) : r[i] = q[j]
  <2> SUFFICES ASSUME NEW i \in 1 .. Len(r) PROVE r[i] = e \/ \E j \in 1 .. Len(q) : r[i] = q[j]  OBVIOUS
  <2>1. CASE i < k + 1
    <3>1. i \in 1 .. Len(q) /\ r[i] = q[i]  BY <1>1, <1>5, <1>8, <2>1
    <3>. QED BY <3>1
  <2>2. CASE i = k + 1  BY <1>5, <1>8, <2>2
  <2>3. CASE i > k + 1
    <3>1. i - 1 \in 1 .. Len(q) /\ r[i] = q[i - 1]  BY <1>1, <1>5, <1>8, <2>3
    <3>. QED BY <3>1
  <2>. QED BY <1>5, <2>1, <2>2, <2>3
<1>. QED BY <1>1, <1>8, <1>9, <1>10 DEF InOrder, r

\* The events still to run and those that ran, made of m altogether.
Sorts(q, r, m) ==
  /\ InOrder(q) /\ r \in Seq(Events)
  /\ \A i \in 1 .. Len(q) : q[i].id <= m
  /\ \A i \in 1 .. Len(r) : r[i].id <= m /\ \A j \in 1 .. Len(q) : r[i].id # q[j].id

LEMMA DueIs ==
  ASSUME InOrder(sched)
  PROVE  A!Due(sched) \in 0 .. Len(sched) /\ \A i \in 1 .. A!Due(sched) : sched[i].when < now
<1> DEFINE S == {n \in 0 .. Len(sched) : \A i \in 1 .. n : sched[i].when < now}
<1>1. Len(sched) \in Nat  BY DEF InOrder
<1>2. S \subseteq 0 .. Len(sched) /\ 0 \in S  BY <1>1
<1>3. A!Max(S) \in S
  <2> HIDE DEF S
  <2>. QED BY <1>1, <1>2, GreatestIs
<1>. QED BY <1>3 DEF A!Due

\* The first n events of the list run: what ran is theirs in order, and the list
\* that is left, or that a new event is put into, has only later ones.
Ran(r, n) ==
  /\ r \in Seq(Events) /\ Len(r) = Len(ran) + n
  /\ \A i \in 1 .. Len(ran) : r[i] = ran[i]
  /\ \A i \in 1 .. Len(r) : i > Len(ran) => r[i] = sched[i - Len(ran)]
Left(q, m, n) ==
  \/ q = SubSeq(sched, n + 1, Len(sched)) /\ m = made
  \/ \E e \in Events : /\ e.id = made + 1 /\ e.when >= now /\ m = made + 1
                       /\ q = A!insert(SubSeq(sched, n + 1, Len(sched)), e)

LEMMA RunIs ==
  ASSUME Sorts(sched, ran, made), NEW n \in 0 .. Len(sched)
  PROVE  /\ Ran(ran \o SubSeq(sched, 1, n), n)
         /\ Ran(ran \o [i \in 1 .. n |-> sched[i]], n)
<1> DEFINE s == SubSeq(sched, 1, n)
           f == [i \in 1 .. n |-> sched[i]]
<1>1. sched \in Seq(Events) /\ ran \in Seq(Events) /\ Len(sched) \in Nat /\ Len(ran) \in Nat
  BY DEF Sorts, InOrder
<1>2. s \in Seq(Events) /\ Len(s) = n /\ \A i \in 1 .. n : s[i] = sched[i]  BY <1>1
<1>3. f \in Seq(Events) /\ Len(f) = n /\ \A i \in 1 .. n : f[i] = sched[i]
  <2>1. \A i \in 1 .. n : sched[i] \in Events  BY <1>1
  <2>2. n \in Nat /\ f \in [1 .. n -> Events]  BY <1>1, <2>1
  <2>3. f \in Seq(Events)  BY <2>2
  <2>. QED BY <2>2, <2>3
<1> HIDE DEF s, f
<1>4. ASSUME NEW t \in Seq(Events), Len(t) = n, \A i \in 1 .. n : t[i] = sched[i]
      PROVE  Ran(ran \o t, n)
  <2>1. ran \o t \in Seq(Events) /\ Len(ran \o t) = Len(ran) + n  BY <1>1, <1>4, ConcatProperties
  <2>2. \A i \in 1 .. Len(ran) + n : (ran \o t)[i] = IF i <= Len(ran) THEN ran[i] ELSE t[i - Len(ran)]
    BY <1>1, <1>4, ConcatProperties
  <2>3. \A i \in 1 .. Len(ran) : (ran \o t)[i] = ran[i]  BY <1>1, <2>2
  <2>4. \A i \in 1 .. Len(ran) + n : i > Len(ran) => (ran \o t)[i] = sched[i - Len(ran)]
    BY <1>1, <1>4, <2>2
  <2>. QED BY <2>1, <2>3, <2>4 DEF Ran
<1>. QED BY <1>2, <1>3, <1>4 DEF s, f

LEMMA RunsLeave ==
  ASSUME now \in Nat, made \in Nat, Sorts(sched, ran, made),
         NEW n \in 0 .. Len(sched), \A i \in 1 .. n : sched[i].when < now,
         NEW r, Ran(r, n), NEW q, NEW m, Left(q, m, n)
  PROVE  /\ m \in Nat /\ Sorts(q, r, m)
         /\ \A i \in Len(ran) + 1 .. Len(r) :
              /\ r[i].when < now
              /\ \A j \in 1 .. Len(q) : \/ r[i].when < q[j].when
                                        \/ r[i].when = q[j].when /\ r[i].id < q[j].id
              /\ \A j \in 1 .. i - 1 : r[j].id # r[i].id
<1> DEFINE rest == SubSeq(sched, n + 1, Len(sched))
<1>1. /\ sched \in Seq(Events) /\ ran \in Seq(Events) /\ Len(sched) \in Nat /\ Len(ran) \in Nat
      /\ \A i \in 1 .. Len(sched) : sched[i] \in Events
  BY DEF Sorts, InOrder
<1>2. InOrder(rest) /\ Len(rest) = Len(sched) - n /\ \A i \in 1 .. Len(rest) : rest[i] = sched[n + i]
  BY RestInOrder DEF Sorts
<1> HIDE DEF rest
<1>3. /\ m \in Nat /\ made <= m /\ InOrder(q)
      /\ \A j \in 1 .. Len(q) : \/ q[j] \in Events /\ q[j].id = made + 1 /\ q[j].when >= now /\ m = made + 1
                                \/ \E k \in n + 1 .. Len(sched) : q[j] = sched[k]
  <2>0. \A i \in 1 .. Len(rest) : n + i \in n + 1 .. Len(sched)  BY <1>1, <1>2
  <2>1. CASE q = rest /\ m = made  BY <1>2, <2>0, <2>1
  <2>2. ASSUME NEW e \in Events, e.id = made + 1, e.when >= now, m = made + 1, q = A!insert(rest, e)
        PROVE  <1>3!:
    <3>1. \A i \in 1 .. Len(rest) : rest[i].id < e.id
      <4> SUFFICES ASSUME NEW i \in 1 .. Len(rest) PROVE rest[i].id < e.id  OBVIOUS
      <4>1. n + i \in 1 .. Len(sched)  BY <1>1, <1>2
      <4>2. rest[i] \in Events /\ rest[i].id <= made  BY <1>1, <1>2, <4>1 DEF Sorts
      <4>. QED BY <2>2, <4>2 DEF Events
    <3>2. InOrder(q) /\ \A i \in 1 .. Len(q) : q[i] = e \/ \E j \in 1 .. Len(rest) : q[i] = rest[j]
      BY <1>2, <2>2, <3>1, InsertedInOrder
    <3>3. ASSUME NEW j \in 1 .. Len(q), q[j] # e PROVE \E k \in n + 1 .. Len(sched) : q[j] = sched[k]
      <4>1. PICK i \in 1 .. Len(rest) : q[j] = rest[i]  BY <3>2, <3>3
      <4>. QED BY <1>2, <2>0, <4>1
    <3>4. m \in Nat /\ made <= m  BY <2>2
    <3>. QED BY <2>2, <3>2, <3>3, <3>4
  <2>. QED BY <2>1, <2>2 DEF Left, rest
<1>4. \A j \in 1 .. Len(q) : q[j].id <= m
  <2> SUFFICES ASSUME NEW j \in 1 .. Len(q) PROVE q[j].id <= m  OBVIOUS
  <2>1. CASE q[j].id = made + 1 /\ m = made + 1  BY <2>1, <1>3
  <2>2. ASSUME NEW k \in n + 1 .. Len(sched), q[j] = sched[k] PROVE q[j].id <= m
    <3>1. k \in 1 .. Len(sched)  BY <1>1
    <3>2. sched[k] \in Events /\ sched[k].id <= made  BY <1>1, <3>1 DEF Sorts
    <3>. QED BY <1>3, <2>2, <3>2 DEF Events
  <2>. QED BY <1>3, <2>1, <2>2
<1>5. r \in Seq(Events) /\ Len(r) \in Nat /\ Len(r) = Len(ran) + n
  BY <1>1 DEF Ran
<1>6. ASSUME NEW i \in 1 .. Len(r), i <= Len(ran)
      PROVE  r[i] = ran[i] /\ r[i] \in Events /\ r[i].id <= made /\ \A k \in 1 .. Len(sched) : r[i].id # sched[k].id
  <2>1. i \in 1 .. Len(ran)  BY <1>1, <1>6
  <2>. QED BY <1>1, <2>1 DEF Ran, Sorts
<1>7. ASSUME NEW i \in 1 .. Len(r), i > Len(ran)
      PROVE  /\ i - Len(ran) \in 1 .. n /\ i - Len(ran) \in 1 .. Len(sched) /\ r[i] = sched[i - Len(ran)]
             /\ r[i] \in Events /\ r[i].id <= made /\ r[i].when < now
             /\ \A k \in n + 1 .. Len(sched) : Before(r[i], sched[k])
  <2>1. i - Len(ran) \in 1 .. n /\ i - Len(ran) \in 1 .. Len(sched)  BY <1>1, <1>5, <1>7
  <2>2. r[i] = sched[i - Len(ran)]  BY <1>7 DEF Ran
  <2>3. r[i].id <= made /\ r[i].when < now /\ r[i] \in Events  BY <1>1, <2>1, <2>2 DEF Sorts
  <2>4. \A k \in n + 1 .. Len(sched) : k \in 1 .. Len(sched) /\ i - Len(ran) < k  BY <1>1, <2>1
  <2>5. \A k \in n + 1 .. Len(sched) : Before(r[i], sched[k])  BY <2>1, <2>2, <2>4 DEF Sorts, InOrder
  <2>. QED BY <2>1, <2>2, <2>3, <2>5
<1>8. \A i \in 1 .. Len(r) : r[i].id <= m /\ \A j \in 1 .. Len(q) : r[i].id # q[j].id
  <2> SUFFICES ASSUME NEW i \in 1 .. Len(r) PROVE r[i].id <= m /\ \A j \in 1 .. Len(q) : r[i].id # q[j].id
    OBVIOUS
  <2>1. r[i] \in Events /\ r[i].id <= made  BY <1>1, <1>5, <1>6, <1>7
  <2>2. ASSUME NEW k \in n + 1 .. Len(sched) PROVE r[i].id # sched[k].id
    <3>1. CASE i <= Len(ran)
      <4>1. k \in 1 .. Len(sched)  BY <1>1
      <4>. QED BY <1>6, <3>1, <4>1
    <3>2. CASE i > Len(ran)  BY <1>7, <3>2 DEF Before
    <3>. QED BY <1>1, <3>1, <3>2
  <2>3. ASSUME NEW j \in 1 .. Len(q) PROVE r[i].id # q[j].id
    <3>1. CASE q[j].id = made + 1  BY <2>1, <3>1 DEF Events
    <3>. QED BY <1>3, <2>2, <3>1
  <2>. QED BY <1>3, <2>1, <2>3 DEF Events
<1>9. ASSUME NEW i \in Len(ran) + 1 .. Len(r)
      PROVE  /\ r[i].when < now
             /\ \A j \in 1 .. Len(q) : \/ r[i].when < q[j].when
                                       \/ r[i].when = q[j].when /\ r[i].id < q[j].id
             /\ \A j \in 1 .. i - 1 : r[j].id # r[i].id
  <2>0. i \in 1 .. Len(r) /\ i > Len(ran)  BY <1>1, <1>5
  <2>1. r[i] \in Events /\ r[i].when < now  BY <1>7, <2>0
  <2>2. ASSUME NEW j \in 1 .. Len(q) PROVE r[i].when < q[j].when \/ (r[i].when = q[j].when /\ r[i].id < q[j].id)
    <3>1. CASE q[j] \in Events /\ q[j].when >= now  BY <2>1, <3>1 DEF Events
    <3>2. ASSUME NEW k \in n + 1 .. Len(sched), q[j] = sched[k]
          PROVE  r[i].when < q[j].when \/ (r[i].when = q[j].when /\ r[i].id < q[j].id)
      <4>1. Before(r[i], q[j])  BY <1>7, <2>0, <3>2
      <4>2. k \in 1 .. Len(sched)  BY <1>1
      <4>3. q[j] \in Events  BY <1>1, <3>2, <4>2
      <4>. QED BY <2>1, <4>1, <4>3 DEF Before, Events
    <3>. QED BY <1>3, <3>1, <3>2
  <2>3. ASSUME NEW j \in 1 .. i - 1 PROVE r[j].id # r[i].id
    <3>0. j \in 1 .. Len(r)  BY <1>5, <2>0
    <3>1. CASE j <= Len(ran)  BY <1>6, <1>7, <2>0, <3>0, <3>1
    <3>2. CASE j > Len(ran)
      <4>1. j - Len(ran) < i - Len(ran)  BY <1>1, <2>0
      <4>2. Before(sched[j - Len(ran)], sched[i - Len(ran)])
        BY <1>7, <2>0, <3>0, <3>2, <4>1 DEF Sorts, InOrder
      <4>. QED BY <1>7, <2>0, <3>0, <3>2, <4>2 DEF Before
    <3>. QED BY <1>1, <3>1, <3>2
  <2>. QED BY <2>1, <2>2, <2>3
<1>. QED BY <1>3, <1>4, <1>5, <1>8, <1>9 DEF Sorts

\* setalarm(lck): the alarm is no later than the next event, nor than $autologout
\* allows; auto_lock, which asks again, is only armed if it comes before that
\* ("lock_time always < alrm_time").
LockFirst(l) == Len(l) = 2 /\ l[1] > 0 /\ l[2] > 0 => l[2] < l[1]

LEMMA SetalarmIs ==
  ASSUME A!AlarmsAssumption, now \in Nat, NEW l \in Logouts, NEW q, InOrder(q), NEW lck \in BOOLEAN,
         ~lck => LockFirst(l)
  PROVE  LET a == A!setalarm(lck, l, q) IN
         /\ a[1] \in Nat
         /\ q # << >> => a[1] > 0 /\ a[1] <= Later(0, Head(q).when - now) + 1
         /\ lck /\ l # << >> /\ l[1] > 0 => a[1] > 0 /\ a[1] <= l[1] * Minute
         /\ a[2] = "lock" => LockFirst(l)
<1> DEFINE logout == IF Len(l) >= 1 THEN l[1] * Minute ELSE 0
           lock == IF Len(l) = 2 THEN l[2] * Minute ELSE 0
           b == IF lck /\ lock > 0 /\ (logout = 0 \/ lock < logout) THEN << lock, "lock" >>
                ELSE IF ~lck /\ lock > 0 /\ logout > 0 THEN << logout - lock, "logout" >>
                ELSE IF logout > 0 THEN << logout, "logout" >> ELSE << 0, alm_fun >>
           dif == A!Max({0, Head(q).when - now})
           a == A!setalarm(lck, l, q)
<1>1. /\ l \in Seq(Nat) /\ Len(l) \in Nat /\ Len(l) <= 2 /\ Minute \in Nat /\ Minute > 0
      /\ Len(l) >= 1 => l[1] \in Nat
      /\ Len(l) = 2 => l[2] \in Nat
      /\ l # << >> => Len(l) >= 1
  BY DEF A!AlarmsAssumption
<1>2. /\ logout \in Nat /\ lock \in Nat
      /\ l # << >> /\ l[1] > 0 => logout > 0 /\ logout = l[1] * Minute
      /\ Len(l) = 2 /\ l[1] > 0 => logout > 0
      /\ LockFirst(l) <=> ~(lock > 0 /\ logout > 0) \/ lock < logout
  <2>1. ASSUME NEW i \in Nat PROVE i * Minute \in Nat /\ (i > 0 <=> i * Minute > 0)  BY <1>1
  <2>2. ASSUME NEW i \in Nat, NEW j \in Nat PROVE i < j <=> i * Minute < j * Minute  BY <1>1
  <2>3. CASE Len(l) = 2
    <3>1. l[1] \in Nat /\ l[2] \in Nat /\ logout = l[1] * Minute /\ lock = l[2] * Minute  BY <1>1, <2>3
    <3>. QED BY <1>1, <2>1, <2>2, <2>3, <3>1 DEF LockFirst
  <2>4. CASE Len(l) # 2
    <3>1. lock = 0 /\ LockFirst(l)  BY <2>4 DEF LockFirst
    <3>2. Len(l) >= 1 => logout = l[1] * Minute  OBVIOUS
    <3>3. Len(l) < 1 => logout = 0  BY <1>1
    <3>. QED BY <1>1, <2>1, <2>4, <3>1, <3>2, <3>3
  <2>. QED BY <2>3, <2>4
<1> HIDE DEF logout, lock
<1>3. /\ b[1] \in Nat
      /\ lck /\ logout > 0 => b[1] > 0 /\ b[1] <= logout
      /\ b[2] = "lock" => LockFirst(l)
  <2>1. CASE lck /\ lock > 0 /\ (logout = 0 \/ lock < logout)
    <3>1. b = << lock, "lock" >>  BY <2>1
    <3>. QED BY <1>2, <2>1, <3>1
  <2>2. CASE ~lck /\ lock > 0 /\ logout > 0
    <3>1. b = << logout - lock, "logout" >>  BY <2>2
    <3>2. lock < logout  BY <1>2, <2>2
    <3>. QED BY <1>2, <2>2, <3>1, <3>2
  <2>3. CASE ~(lck /\ lock > 0 /\ (logout = 0 \/ lock < logout)) /\ ~(~lck /\ lock > 0 /\ logout > 0)
    <3>1. CASE logout > 0
      <4>1. b = << logout, "logout" >>  BY <2>3, <3>1
      <4>. QED BY <1>2, <3>1, <4>1
    <3>2. CASE ~(logout > 0)
      <4>1. b = << 0, alm_fun >>  BY <2>3, <3>2
      <4>2. LockFirst(l)  BY <1>2, <3>2
      <4>. QED BY <1>2, <3>2, <4>1, <4>2
    <3>. QED BY <3>1, <3>2
  <2>. QED BY <2>1, <2>2, <2>3
<1>4. a = IF q # << >> /\ (b[1] = 0 \/ dif < b[1]) THEN << dif + 1, "sched" >> ELSE b
  BY DEF A!setalarm, logout, lock
<1>5. q # << >> => dif = Later(0, Head(q).when - now) /\ dif \in Nat
  <2> SUFFICES ASSUME q # << >> PROVE dif = Later(0, Head(q).when - now) /\ dif \in Nat  OBVIOUS
  <2>1. Head(q) \in Events  BY DEF InOrder
  <2>2. Head(q).when - now \in Int  BY <2>1 DEF Events
  <2>. QED BY <2>2, LaterIs DEF Later
<1> HIDE DEF b, dif, a
<1>6. CASE q # << >> /\ (b[1] = 0 \/ dif < b[1])
  <2>1. a[1] = dif + 1 /\ a[2] = "sched"  BY <1>4, <1>6
  <2>2. lck /\ l # << >> /\ l[1] > 0 => dif < b[1] /\ b[1] <= l[1] * Minute  BY <1>2, <1>3, <1>6
  <2>. QED BY <1>2, <1>3, <1>5, <1>6, <2>1, <2>2 DEF a
<1>7. CASE ~(q # << >> /\ (b[1] = 0 \/ dif < b[1]))
  <2>1. a = b  BY <1>4, <1>7
  <2>2. q # << >> => b[1] > 0 /\ b[1] <= dif  BY <1>3, <1>5, <1>7
  <2>3. lck /\ l # << >> /\ l[1] > 0 => b[1] > 0 /\ b[1] <= l[1] * Minute  BY <1>2, <1>3
  <2>. QED BY <1>3, <1>5, <2>1, <2>2, <2>3 DEF a
<1>. QED BY <1>6, <1>7

\* What the wait of a shell relies on, for a list q and a logout l.
OnTime ==
  /\ alarmAt = A!Never \/ alarmAt > now
  /\ sched # << >> => alarmAt # A!Never /\ alarmAt <= Later(Head(sched).when, armed) + 1
  /\ mode = "reading" /\ autologout # << >> /\ autologout[1] > 0 =>
       alarmAt # A!Never /\ alarmAt <= armed + autologout[1] * Minute
AlarmInv ==
  /\ now \in Nat /\ made \in Nat /\ autologout \in Logouts /\ alrmcatch_pending \in BOOLEAN
  /\ alarmAt \in Int /\ armed \in Int
  /\ Sorts(sched, ran, made)
  /\ mode \in {"reading", "locked"} => /\ ~alrmcatch_pending => OnTime
                                       /\ alm_fun = "lock" => LockFirst(autologout)

LEMMA ArmIs ==
  ASSUME A!AlarmsAssumption, now \in Nat, UNCHANGED << now, autologout >>, autologout \in Logouts,
         InOrder(sched'), NEW lck \in BOOLEAN, ~lck => LockFirst(autologout), A!Arm(lck, autologout, sched')
  PROVE  /\ alarmAt' \in Int /\ armed' \in Int
         /\ lck \/ mode' # "reading" => OnTime'
         /\ alm_fun' = "lock" => LockFirst(autologout')
<1> DEFINE a == A!setalarm(lck, autologout, sched')
<1>1. /\ a[1] \in Nat
      /\ sched' # << >> => a[1] > 0 /\ a[1] <= Later(0, Head(sched').when - now) + 1
      /\ lck /\ autologout # << >> /\ autologout[1] > 0 => a[1] > 0 /\ a[1] <= autologout[1] * Minute
      /\ a[2] = "lock" => LockFirst(autologout)
  BY SetalarmIs
<1>2. alarmAt' = (IF a[1] = 0 THEN A!Never ELSE now + a[1]) /\ alm_fun' = a[2] /\ armed' = now
  BY DEF A!Arm
<1> HIDE DEF a
<1>3. A!Never = -1  BY DEF A!Never
<1>4. sched' # << >> => Head(sched').when \in Int
  <2> SUFFICES ASSUME sched' # << >> PROVE Head(sched').when \in Int  OBVIOUS
  <2>1. Head(sched') \in Events  BY DEF InOrder
  <2>. QED BY <2>1 DEF Events
<1>5. sched' # << >> => alarmAt' # A!Never /\ alarmAt' <= Later(Head(sched').when, armed') + 1
  BY <1>1, <1>2, <1>3, <1>4 DEF Later
<1>6. lck /\ autologout # << >> /\ autologout[1] > 0 =>
        alarmAt' # A!Never /\ alarmAt' <= armed' + autologout[1] * Minute
  <2> SUFFICES ASSUME lck /\ autologout # << >> /\ autologout[1] > 0
               PROVE  alarmAt' # A!Never /\ alarmAt' <= armed' + autologout[1] * Minute
    OBVIOUS
  <2>1. autologout \in Seq(Nat) /\ Minute \in Nat  BY DEF A!AlarmsAssumption
  <2>2. autologout[1] \in Nat  BY <2>1
  <2>3. autologout[1] * Minute \in Nat  BY <2>1, <2>2
  <2>. QED BY <1>1, <1>2, <1>3, <2>3
<1>7. alarmAt' = A!Never \/ alarmAt' > now'  BY <1>1, <1>2, <1>3
<1>. QED BY <1>1, <1>2, <1>3, <1>5, <1>6, <1>7 DEF OnTime

LEMMA AlarmInit == ASSUME A!AlarmsAssumption, A!Init PROVE AlarmInv
<1>1. /\ now = 0 /\ made = 0 /\ autologout \in Logouts /\ alrmcatch_pending = FALSE
      /\ alarmAt = -1 /\ armed = 0 /\ sched = << >> /\ ran = << >> /\ mode = "prompt"
  BY DEF A!Init, A!Never
<1>2. << >> \in Seq(Events) /\ Len(<< >>) = 0  OBVIOUS
<1>3. Sorts(sched, ran, made)  BY <1>1, <1>2 DEF Sorts, InOrder
<1>4. mode \notin {"reading", "locked"}  BY <1>1
<1>5. /\ now \in Nat /\ made \in Nat /\ alrmcatch_pending \in BOOLEAN /\ alarmAt \in Int
      /\ armed \in Int
  <2>1. alrmcatch_pending \in BOOLEAN  BY <1>1
  <2>2. now \in Nat /\ made \in Nat /\ armed \in Int  BY <1>1
  <2>3. alarmAt \in Int
    <3>1. alarmAt = -1  BY <1>1
    <3>. QED BY ONLY <3>1
  <2>. QED BY <2>1, <2>2, <2>3
<1>. QED BY <1>1, <1>3, <1>4, <1>5 DEF AlarmInv

\* The time for which dosched() enters an event.
LEMMA DifIs ==
  ASSUME A!AlarmsAssumption, now \in Nat, NEW s \in Schedules
  PROVE  /\ now - (now % Minute) + A!Dif(now, s) * Minute \in Int
         /\ A!Dif(now, s) > 0 => now - (now % Minute) + A!Dif(now, s) * Minute >= now
<1>1. Minute \in Nat \ {0} /\ Start \in Nat /\ s[1] \in Nat /\ s[2] \in Nat  BY DEF A!AlarmsAssumption
<1>2. A!tod(now) \in Nat
  <2>1. now \div Minute \in Nat  BY <1>1
  <2>. QED BY <1>1, <2>1 DEF A!tod
<1>3. A!Dif(now, s) \in Int
  <2>1. A!tod(now) \div 60 \in Int /\ A!tod(now) % 60 \in Int  BY <1>2
  <2>2. CASE s[4]
    <3>1. A!Dif(now, s) = (s[1] + (IF s[3] = "p" THEN 12 ELSE 0)) * 60 + s[2]  BY <2>2 DEF A!Dif
    <3>. QED BY <1>1, <3>1
  <2>3. CASE ~s[4]  BY <1>1, <2>1, <2>3 DEF A!Dif
  <2>. QED BY <2>2, <2>3
<1>4. now % Minute \in 0 .. Minute - 1  BY <1>1
<1>5. ASSUME NEW d \in Int PROVE d * Minute \in Int /\ (d > 0 => d * Minute >= Minute)  BY <1>1
<1>. QED BY <1>1, <1>3, <1>4, <1>5

LEMMA DoschedIs ==
  ASSUME A!AlarmsAssumption, AlarmInv, A!dosched, UNCHANGED ran
  PROVE  made' \in Nat /\ Sorts(sched', ran', made')
<1>0. now \in Nat /\ made \in Nat /\ Sorts(sched, ran, made) /\ InOrder(sched) /\ Len(sched) \in Nat
      /\ DOMAIN sched = 1 .. Len(sched)
  BY DEF AlarmInv, Sorts, InOrder
<1>1. ASSUME NEW n \in DOMAIN sched, sched' = A!RemoveAt(sched, n), made' = made
      PROVE  made' \in Nat /\ Sorts(sched', ran', made')
  <2>1. InOrder(sched') /\ \A i \in 1 .. Len(sched') : \E j \in 1 .. Len(sched) : sched'[i] = sched[j]
    <3>1. PICK q : q = sched /\ InOrder(q)  BY <1>0
    <3>2. PICK k \in 1 .. Len(q) : k = n  BY <1>0, <3>1
    <3> DEFINE r == A!RemoveAt(q, k)
    <3>3. InOrder(r) /\ \A i \in 1 .. Len(r) : \E j \in 1 .. Len(q) : r[i] = q[j]
      BY <3>1, <3>2, RemovedInOrder
    <3>4. sched' = r  BY <1>1, <3>1, <3>2
    <3> HIDE DEF r
    <3>. QED BY <3>1, <3>3, <3>4
  <2>2. /\ ran \in Seq(Events)
        /\ \A j \in 1 .. Len(sched) : sched[j].id <= made
        /\ \A i \in 1 .. Len(ran) : ran[i].id <= made /\ \A j \in 1 .. Len(sched) : ran[i].id # sched[j].id
    BY <1>0 DEF Sorts
  <2>3. ASSUME NEW i \in 1 .. Len(sched') PROVE sched'[i].id <= made
    <3>1. PICK j \in 1 .. Len(sched) : sched'[i] = sched[j]  BY <2>1
    <3>. QED BY <2>2, <3>1
  <2>4. ASSUME NEW k \in 1 .. Len(ran), NEW i \in 1 .. Len(sched') PROVE ran[k].id # sched'[i].id
    <3>1. PICK j \in 1 .. Len(sched) : sched'[i] = sched[j]  BY <2>1
    <3>. QED BY <2>2, <3>1
  <2>5. ran' = ran /\ made' = made /\ made \in Nat  BY <1>0, <1>1
  <2>. QED BY <2>1, <2>2, <2>3, <2>4, <2>5 DEF Sorts
<1>2. ASSUME NEW s \in Schedules, made' = made + 1,
             sched' = A!insert(sched, [when |-> now - (now % Minute) + A!Dif(now, s) * Minute, id |-> made + 1])
      PROVE  made' \in Nat /\ Sorts(sched', ran', made')
  <2> DEFINE e == [when |-> now - (now % Minute) + A!Dif(now, s) * Minute, id |-> made + 1]
  <2>1. e \in Events /\ e.id = made + 1  BY <1>0, DifIs DEF Events
  <2>2. sched' = A!insert(sched, e)  BY <1>2
  <2> HIDE DEF e
  <2>3. \A i \in 1 .. Len(sched) : sched[i].id \in Nat /\ sched[i].id <= made
    <3>1. \A i \in 1 .. Len(sched) : sched[i] \in Events  BY <1>0 DEF InOrder
    <3>. QED BY <1>0, <3>1 DEF Sorts, Events
  <2>4. /\ InOrder(sched')
        /\ \A i \in 1 .. Len(sched') : sched'[i] = e \/ \E j \in 1 .. Len(sched) : sched'[i] = sched[j]
    BY <1>0, <2>1, <2>2, <2>3, InsertedInOrder
  <2>5. \A i \in 1 .. Len(sched') : sched'[i].id <= made'
    BY <1>0, <1>2, <2>1, <2>3, <2>4
  <2>6. \A i \in 1 .. Len(ran) : ran[i].id \in Nat /\ ran[i].id <= made
    <3>1. \A i \in 1 .. Len(ran) : ran[i] \in Events  BY <1>0 DEF Sorts
    <3>. QED BY <1>0, <3>1 DEF Sorts, Events
  <2>7. ASSUME NEW i \in 1 .. Len(ran), NEW j \in 1 .. Len(sched') PROVE ran[i].id # sched'[j].id
    <3>1. CASE sched'[j] = e  BY <1>0, <2>1, <2>6, <3>1
    <3>2. CASE \E k \in 1 .. Len(sched) : sched'[j] = sched[k]  BY <1>0, <3>2 DEF Sorts
    <3>. QED BY <2>4, <3>1, <3>2
  <2>. QED BY <1>0, <1>2, <2>4, <2>5, <2>6, <2>7 DEF Sorts
<1>. QED BY <1>1, <1>2 DEF A!dosched

\* The step runs the first n events, which are due.
RunsDue ==
  \E n \in 0 .. Len(sched) :
     (\A i \in 1 .. n : sched[i].when < now) /\ Ran(ran', n) /\ Left(sched', made', n)

LEMMA RunsDueIs ==
  ASSUME AlarmInv, RunsDue
  PROVE  made' \in Nat /\ Sorts(sched', ran', made') /\ A!RunsInOrder
<1>0. now \in Nat /\ made \in Nat /\ Sorts(sched, ran, made)  BY DEF AlarmInv
<1>1. PICK n \in 0 .. Len(sched) :
        (\A i \in 1 .. n : sched[i].when < now) /\ Ran(ran', n) /\ Left(sched', made', n)
  BY DEF RunsDue
<1>2. /\ made' \in Nat /\ Sorts(sched', ran', made')
      /\ \A i \in Len(ran) + 1 .. Len(ran') :
           /\ ran'[i].when < now
           /\ \A j \in 1 .. Len(sched') : \/ ran'[i].when < sched'[j].when
                                          \/ ran'[i].when = sched'[j].when /\ ran'[i].id < sched'[j].id
           /\ \A j \in 1 .. i - 1 : ran'[j].id # ran'[i].id
  BY <1>0, <1>1, RunsLeave
<1>3. DOMAIN sched' = 1 .. Len(sched')  BY <1>2 DEF Sorts, InOrder
<1>. QED BY <1>2, <1>3 DEF A!RunsInOrder

LEMMA PromptRuns ==
  ASSUME AlarmInv, NEW n \in {A!Due(sched), A!Min({1, A!Due(sched)})}, A!Runs(n), UNCHANGED made
  PROVE  RunsDue
<1>0. Sorts(sched, ran, made) /\ InOrder(sched) /\ Len(sched) \in Nat  BY DEF AlarmInv, Sorts, InOrder
<1>1. A!Due(sched) \in 0 .. Len(sched) /\ \A i \in 1 .. A!Due(sched) : sched[i].when < now
  BY <1>0, DueIs
<1>2. n \in 0 .. A!Due(sched)
  <2> DEFINE d == A!Due(sched)
  <2>1. d \in Nat  BY <1>0, <1>1
  <2> HIDE DEF d
  <2>2. A!Min({1, d}) \in 0 .. d
    <3>1. (IF d = 0 THEN 0 ELSE 1) \in {1, d} /\ \A y \in {1, d} : (IF d = 0 THEN 0 ELSE 1) <= y  BY <2>1
    <3>2. \A x \in {1, d} : (\A y \in {1, d} : x <= y) => x = IF d = 0 THEN 0 ELSE 1  BY <2>1
    <3>3. A!Min({1, d}) = IF d = 0 THEN 0 ELSE 1  BY <3>1, <3>2 DEF A!Min
    <3>. QED BY <2>1, <3>3
  <2>. QED BY <2>1, <2>2 DEF d
<1>3. n \in 0 .. Len(sched) /\ \A i \in 1 .. n : sched[i].when < now
  <2>1. \A i \in 1 .. n : i \in 1 .. A!Due(sched)  BY <1>0, <1>1, <1>2
  <2>. QED BY <1>0, <1>1, <1>2, <2>1
<1>4. Ran(ran', n) /\ Left(sched', made', n)  BY <1>0, <1>3, RunIs DEF A!Runs, Left
<1>. QED BY <1>3, <1>4 DEF RunsDue

LEMMA EventRuns ==
  ASSUME A!AlarmsAssumption, AlarmInv, A!AlarmEvent
  PROVE  RunsDue
<1>0. Sorts(sched, ran, made) /\ InOrder(sched) /\ Len(sched) \in Nat /\ now \in Nat /\ made \in Nat
  BY DEF AlarmInv, Sorts, InOrder
<1>1. A!Due(sched) \in 0 .. Len(sched) /\ \A i \in 1 .. A!Due(sched) : sched[i].when < now
  BY <1>0, DueIs
<1>2. CASE (A!Runs(A!Due(sched)) \/ A!Runs(A!Min({1, A!Due(sched)}))) /\ made' = made
  BY <1>2, PromptRuns
<1>3. ASSUME NEW s \in Schedules, A!Dif(now, s) > 0, made' = made + 1,
             ran' = ran \o SubSeq(sched, 1, A!Due(sched)),
             sched' = A!insert(SubSeq(sched, A!Due(sched) + 1, Len(sched)),
                               [when |-> now - (now % Minute) + A!Dif(now, s) * Minute, id |-> made + 1])
      PROVE  RunsDue
  <2> DEFINE e == [when |-> now - (now % Minute) + A!Dif(now, s) * Minute, id |-> made + 1]
             n == A!Due(sched)
  <2>1. e \in Events /\ e.id = made + 1 /\ e.when >= now  BY <1>0, <1>3, DifIs DEF Events
  <2>2. sched' = A!insert(SubSeq(sched, n + 1, Len(sched)), e)  BY <1>3
  <2>3. Ran(ran', n)  BY <1>0, <1>1, <1>3, RunIs
  <2> HIDE DEF e
  <2>4. Left(sched', made', n)  BY <1>3, <2>1, <2>2 DEF Left
  <2>. QED BY <1>1, <2>3, <2>4 DEF RunsDue
<1>. QED BY <1>2, <1>3 DEF A!AlarmEvent

LEMMA AlarmNext == ASSUME A!AlarmsAssumption, AlarmInv, [A!Next]_A!vars PROVE AlarmInv'
<1> USE DEF A!vars, A!clock
<1>0. /\ now \in Nat /\ made \in Nat /\ autologout \in Logouts /\ alrmcatch_pending \in BOOLEAN
      /\ alarmAt \in Int /\ armed \in Int /\ Sorts(sched, ran, made) /\ InOrder(sched)
      /\ A!Never = -1
  BY DEF AlarmInv, Sorts, A!Never
<1>1. ASSUME NEW lck \in BOOLEAN, ~lck => LockFirst(autologout) /\ mode' # "reading",
             A!Arm(lck, autologout, sched'), UNCHANGED << now, autologout >>,
             made' \in Nat, Sorts(sched', ran', made'), alrmcatch_pending' \in BOOLEAN
      PROVE  AlarmInv'
  <2>1. InOrder(sched')  BY <1>1 DEF Sorts
  <2>2. /\ alarmAt' \in Int /\ armed' \in Int
        /\ lck \/ mode' # "reading" => OnTime'
        /\ alm_fun' = "lock" => LockFirst(autologout')
    BY <1>0, <1>1, <2>1, ArmIs
  <2>3. OnTime'  BY <1>1, <2>2
  <2>. QED BY <1>0, <1>1, <2>2, <2>3 DEF AlarmInv
\* Steps after which the shell does not wait.
<1>2. ASSUME mode' \notin {"reading", "locked"}, now' \in Nat, autologout' \in Logouts,
             made' \in Nat, Sorts(sched', ran', made'), alrmcatch_pending' \in BOOLEAN,
             alarmAt' \in Int, armed' \in Int
      PROVE  AlarmInv'
  BY <1>2 DEF AlarmInv
<1>3. CASE A!Prompt
  <2>1. PICK n \in {A!Due(sched), A!Min({1, A!Due(sched)})} :
          /\ A!Runs(n)
          /\ IF n < A!Due(sched) THEN UNCHANGED << A!clock, mode >>
             ELSE A!Arm(TRUE, autologout, sched') /\ mode' = "reading" /\ UNCHANGED alrmcatch_pending
    BY <1>3 DEF A!Prompt
  <2>2. UNCHANGED << now, autologout, made >> /\ mode = "prompt"  BY <1>3 DEF A!Prompt
  <2>3. made' \in Nat /\ Sorts(sched', ran', made')  BY <2>1, <2>2, PromptRuns, RunsDueIs
  <2>4. CASE n < A!Due(sched)
    <3>1. UNCHANGED << alarmAt, armed, alrmcatch_pending, mode >>  BY <2>1, <2>4
    <3>. QED BY <1>0, <1>2, <2>2, <2>3, <3>1
  <2>5. CASE ~(n < A!Due(sched))
    <3>1. A!Arm(TRUE, autologout, sched') /\ UNCHANGED alrmcatch_pending  BY <2>1, <2>5
    <3>. QED BY <1>0, <1>1, <2>2, <2>3, <3>1
  <2>. QED BY <2>4, <2>5
<1>4. CASE A!Key
  <2>1. UNCHANGED << now, sched, ran, made, autologout, mode, alarmAt, alm_fun, alrmcatch_pending, armed >>
    BY <1>4 DEF A!Key
  <2>. QED BY <2>1 DEF AlarmInv, OnTime, Sorts, InOrder
<1>5. CASE A!Enter \/ A!LexDone \/ A!ForegroundEditor
  <2>1. /\ UNCHANGED << now, sched, ran, made, autologout, alrmcatch_pending, armed >>
        /\ mode' \in {"lexed", "command", "fg"} /\ alarmAt' \in {alarmAt, -1}
    BY <1>0, <1>5 DEF A!Enter, A!LexDone, A!ForegroundEditor, A!Disarm
  <2>. QED BY <1>0, <1>2, <2>1
<1>6. CASE A!Command
  <2>1. /\ UNCHANGED << now, ran, alrmcatch_pending, armed, alarmAt >> /\ mode' = "prompt"
        /\ \/ A!dosched /\ UNCHANGED autologout
           \/ autologout' \in Logouts /\ UNCHANGED << sched, made >>
    BY <1>6 DEF A!Command
  <2>2. made' \in Nat /\ Sorts(sched', ran', made') /\ autologout' \in Logouts
    <3>1. CASE A!dosched /\ UNCHANGED autologout  BY <1>0, <2>1, <3>1, DoschedIs
    <3>2. CASE autologout' \in Logouts /\ UNCHANGED << sched, made >>  BY <1>0, <2>1, <3>2
    <3>. QED BY <2>1, <3>1, <3>2
  <2>. QED BY <1>0, <1>2, <2>1, <2>2
<1>7. CASE A!EditorDone
  <2>1. UNCHANGED << now, sched, ran, made, autologout, alrmcatch_pending >> /\ A!Arm(TRUE, autologout, sched)
    BY <1>7 DEF A!EditorDone
  <2>2. A!Arm(TRUE, autologout, sched')  BY <2>1
  <2>. QED BY <1>0, <1>1, <2>1, <2>2
<1>8. CASE A!AlarmEvent
  <2>1. made' \in Nat /\ Sorts(sched', ran', made')  BY <1>8, EventRuns, RunsDueIs
  <2>2. /\ UNCHANGED << now, autologout >> /\ alrmcatch_pending' = FALSE
        /\ \/ A!Arm(TRUE, autologout, sched')
           \/ mode' = "prompt" /\ UNCHANGED << alarmAt, armed >>
    BY <1>8 DEF A!AlarmEvent
  <2>. QED BY <1>0, <1>1, <1>2, <2>1, <2>2
<1>9. CASE A!auto_lock
  <2>1. /\ UNCHANGED << now, sched, ran, made, autologout >> /\ alrmcatch_pending' = FALSE
        /\ A!Arm(FALSE, autologout, sched) /\ mode' = "locked"
        /\ mode \in {"reading", "locked"} /\ alm_fun = "lock"
    BY <1>9 DEF A!auto_lock, A!Caught
  <2>2. LockFirst(autologout)  BY <2>1 DEF AlarmInv
  <2>3. A!Arm(FALSE, autologout, sched')  BY <2>1
  <2>. QED BY <1>0, <1>1, <2>1, <2>2, <2>3
<1>10. CASE A!auto_logout
  <2>1. /\ UNCHANGED << now, sched, ran, made, autologout, alarmAt, armed >> /\ alrmcatch_pending' = FALSE
        /\ mode' = "gone"
    BY <1>10 DEF A!auto_logout
  <2>. QED BY <1>0, <1>2, <2>1
<1>11. CASE A!Password
  <2>1. /\ UNCHANGED << now, sched, ran, made, autologout, alrmcatch_pending >> /\ mode = "locked"
        /\ \/ A!Arm(TRUE, autologout, sched)
           \/ mode' \in {"gone", "locked"} /\ UNCHANGED << alarmAt, alm_fun, armed >>
    BY <1>11 DEF A!Password
  <2>2. CASE A!Arm(TRUE, autologout, sched)
    <3>1. A!Arm(TRUE, autologout, sched')  BY <2>1, <2>2
    <3>. QED BY <1>0, <1>1, <2>1, <3>1
  <2>3. CASE mode' \in {"gone", "locked"} /\ UNCHANGED << alarmAt, alm_fun, armed >>
    <3>1. Sorts(sched', ran', made')  BY <1>0, <2>1
    <3>2. mode' = "locked" /\ ~alrmcatch_pending' => OnTime'  BY <2>1, <2>3 DEF AlarmInv, OnTime
    <3>3. mode' = "locked" /\ alm_fun' = "lock" => LockFirst(autologout')  BY <2>1, <2>3 DEF AlarmInv
    <3>. QED BY <1>0, <2>1, <2>3, <3>1, <3>2, <3>3 DEF AlarmInv
  <2>. QED BY <2>1, <2>2, <2>3
<1>12. CASE A!Tick
  <2>1. /\ UNCHANGED << sched, ran, made, autologout, mode, armed, alm_fun >> /\ now' = now + 1
        /\ alrmcatch_pending' = (alrmcatch_pending \/ alarmAt = now + 1)
        /\ alarmAt' = IF alarmAt = now + 1 THEN A!Never ELSE alarmAt
    BY <1>12 DEF A!Tick
  <2>2. now' \in Nat /\ alarmAt' \in Int /\ alrmcatch_pending' \in BOOLEAN  BY <1>0, <2>1
  <2>3. Sorts(sched', ran', made')  BY <1>0, <2>1
  <2>4. ASSUME mode' \in {"reading", "locked"}, ~alrmcatch_pending' PROVE OnTime'
    <3>1. ~alrmcatch_pending /\ alarmAt # now + 1 /\ alarmAt' = alarmAt  BY <2>1, <2>4
    <3>2. OnTime  BY <2>1, <2>4, <3>1 DEF AlarmInv
    <3>3. alarmAt = A!Never \/ alarmAt > now + 1  BY <1>0, <3>1, <3>2 DEF OnTime
    <3>. QED BY <2>1, <3>1, <3>2, <3>3 DEF OnTime
  <2>5. mode' \in {"reading", "locked"} /\ alm_fun' = "lock" => LockFirst(autologout')
    BY <2>1 DEF AlarmInv
  <2>. QED BY <1>0, <2>1, <2>2, <2>3, <2>4, <2>5 DEF AlarmInv
<1>13. CASE A!LateAlarm
  <2>1. /\ UNCHANGED << sched, ran, made, autologout, mode, armed >> /\ mode = "lexed" /\ now' = now + 1
        /\ alrmcatch_pending' = TRUE /\ alarmAt' = -1
    BY <1>0, <1>13 DEF A!LateAlarm
  <2>2. now' \in Nat  BY <1>0, <2>1
  <2>. QED BY <1>0, <1>2, <2>1, <2>2
<1>14. CASE UNCHANGED A!vars
  <2>1. UNCHANGED << now, sched, ran, made, autologout, mode, alarmAt, alm_fun, alrmcatch_pending, armed >>
    BY <1>14
  <2>. QED BY <2>1 DEF AlarmInv, OnTime, Sorts, InOrder
<1>. QED BY <1>3, <1>4, <1>5, <1>6, <1>7, <1>8, <1>9, <1>10, <1>11, <1>12, <1>13, <1>14 DEF A!Next

\* What the invariant says of a shell that waits, and of a step that runs events.
LEMMA WaitsIs == ASSUME A!AlarmsAssumption, AlarmInv PROVE A!WaitsOnTheClock
<1>. SUFFICES ASSUME mode \in {"reading", "locked"} /\ ~alrmcatch_pending
              PROVE  /\ sched # << >> => alarmAt # A!Never /\ alarmAt <= A!Max({Head(sched).when, armed}) + 1
                     /\ mode = "reading" /\ autologout # << >> /\ autologout[1] > 0 =>
                          now < armed + autologout[1] * Minute
  BY DEF A!WaitsOnTheClock
<1>1. OnTime /\ now \in Nat /\ alarmAt \in Int /\ armed \in Int /\ InOrder(sched) /\ autologout \in Logouts
  BY DEF AlarmInv, Sorts
<1>2. sched # << >> => A!Max({Head(sched).when, armed}) = Later(Head(sched).when, armed)
  <2>. SUFFICES ASSUME sched # << >> PROVE A!Max({Head(sched).when, armed}) = Later(Head(sched).when, armed)
    OBVIOUS
  <2>1. Head(sched) \in Events  BY <1>1 DEF InOrder
  <2>2. Head(sched).when \in Int  BY <2>1 DEF Events
  <2>. QED BY <1>1, <2>2, LaterIs
<1>3. mode = "reading" /\ autologout # << >> /\ autologout[1] > 0 => now < armed + autologout[1] * Minute
  <2>. SUFFICES ASSUME mode = "reading" /\ autologout # << >> /\ autologout[1] > 0
                PROVE  now < armed + autologout[1] * Minute
    OBVIOUS
  <2>1. autologout \in Seq(Nat) /\ Minute \in Nat  BY <1>1 DEF A!AlarmsAssumption
  <2>2. autologout[1] \in Nat  BY <2>1
  <2>3. autologout[1] * Minute \in Nat  BY <2>1, <2>2
  <2>4. alarmAt > now /\ alarmAt <= armed + autologout[1] * Minute  BY <1>1 DEF OnTime
  <2>. QED BY <1>1, <2>3, <2>4
<1>. QED BY <1>1, <1>2, <1>3 DEF OnTime

LEMMA NoneRuns ==
  ASSUME AlarmInv, [A!Next]_A!vars, ~A!Prompt, ~A!AlarmEvent
  PROVE  ran' = ran
BY DEF A!Next, A!vars, A!clock, A!Key, A!Enter, A!LexDone, A!Command, A!ForegroundEditor, A!EditorDone,
       A!auto_lock, A!auto_logout, A!Password, A!Tick, A!LateAlarm

LEMMA RunsIs ==
  ASSUME A!AlarmsAssumption, AlarmInv, [A!Next]_A!vars
  PROVE  A!RunsInOrder
<1>1. CASE A!Prompt
  <2>1. PICK n \in {A!Due(sched), A!Min({1, A!Due(sched)})} : A!Runs(n)  BY <1>1 DEF A!Prompt
  <2>2. UNCHANGED made  BY <1>1 DEF A!Prompt
  <2>. QED BY <2>1, <2>2, PromptRuns, RunsDueIs
<1>2. CASE A!AlarmEvent  BY <1>2, EventRuns, RunsDueIs
<1>3. CASE ~A!Prompt /\ ~A!AlarmEvent
  <2>1. ran' = ran /\ Len(ran) \in Nat  BY <1>3, NoneRuns DEF AlarmInv, Sorts
  <2>2. Len(ran) + 1 .. Len(ran') = {}  BY <2>1
  <2>. QED BY <2>2 DEF A!RunsInOrder
<1>. QED BY <1>1, <1>2, <1>3

(* Scheduled events run when they are due, each once, the earliest first and those
   of one time in the order they were given; and the shell never waits without the
   alarm set, for the next event as for $autologout (tc.sched.c, setalarm()): for
   any clock, events and values of $autologout. *)
THEOREM AlarmsOnTime ==
  ASSUME A!AlarmsAssumption
  PROVE  A!Spec => [][A!RunsInOrder /\ A!WaitsOnTheClock]_A!vars
<1>1. AlarmInv /\ [A!Next]_A!vars => A!RunsInOrder /\ A!WaitsOnTheClock  BY RunsIs, WaitsIs
<1>. QED BY <1>1, AlarmInit, AlarmNext, PTL DEF A!Spec
================================================================================
