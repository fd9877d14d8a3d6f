---------------------------- MODULE InterpProofs ----------------------------
(* How the interpreter unwinds, proved for any files, functions, hooks and typed
   lines, any nesting, errors and interrupts: the cleanup stack is made of what
   the frames of the call stack have pushed, in their order, and a mark is where
   its frame begins.  First come the invariant and lemmas about sequences, then
   what reset() undoes, then a lemma for each routine and one for each action. *)
EXTENDS Interp, SequenceTheorems, NaturalsInduction, WellFoundedInduction, TLAPS

CONSTANTS Lines, Commands   \* all that files, functions, users, hooks and evals may say

Simple == {"echo", "label", "err", "exit", "onintr", "goto", "ext", "undef"}
(* The scripts are of these lines, and none of their commands is repeat: a repeat
   that follows a failed builtin on its line leaves its entry on the cleanup stack
   (dorepeat(), sh.func.c), by which the line above no longer knows that it failed. *)
NoRepeat ==
  /\ \A l \in Lines : l.bad \in BOOLEAN /\ l.cmds \in Seq(Commands)
  /\ \A c \in Commands : \/ c.c \in Simple
                         \/ c.c = "source" /\ c.h \in BOOLEAN
                         \/ c.c = "call" /\ c.n \in DOMAIN Functions
                         \/ c.c = "eval" /\ c.l \in Seq(Lines)
  /\ \A f \in DOMAIN Files : Files[f] \in Seq(Lines)
  /\ \A f \in DOMAIN Functions : Functions[f] \in Seq(Lines)
  /\ Typed \subseteq Lines
  /\ \A a \in HookAliases : \A h \in DOMAIN a : a[h] \in Lines

(* What a frame finds when it is entered, and its caller when it is left: the
   height of the cleanup stack, the mark, how often interrupts are disabled, the
   depth of functions, and what the input is. *)
Env(b, m, d, l, src) == [b |-> b, m |-> m, d |-> d, l |-> l, src |-> src]
EnvOf(s) == Env(Len(s.cs), s.mark, s.pintr_disabled, s.fnlvl, s.insource)
Envs == [b : Nat, m : Nat, d : Int, l : Int, src : {0, 1, 2}]
Bottom == Env(0, 0, 1, 0, 0)

Names == {"tty"} \cup DOMAIN Files \cup DOMAIN Functions
Arenas ==
  {a \in [kind : {"tty", "file", "func"}, name : Names, pos : Nat, feob : Nat] :
     /\ a.kind = "file" => a.name \in DOMAIN Files
     /\ a.kind = "func" => a.name \in DOMAIN Functions
     /\ a.pos <= Len(Text(a)) /\ a.feob <= Len(Text(a))}
(* The input that is read, or saved. *)
Input(u) ==
  /\ u.arena \in Arenas /\ u.insource \in {0, 1, 2} /\ u.enterhist \in BOOLEAN
  /\ u.insource = 0 => u.arena.kind = "tty" /\ u.intty /\ u.gointr = None /\ ~u.enterhist
  /\ u.insource # 0 => u.arena.kind # "tty" /\ ~u.intty
EvalLines == [on : BOOLEAN, l : Seq(Lines)]

Interrupts(e) == e.v = Var("pintr_disabled") /\ e.fn = "disabled_cleanup"
Frees(e, v) == e.v = v /\ e.fn = "lex_cleanup"
Saves(e, src) == Input(e.old) /\ e.old.justpr \in BOOLEAN /\ e.old.evalvec \in EvalLines /\ e.old.insource = src

(* Frame i has pushed the entries of cs from a.b to b.b. *)
Pushed(f, i, cs, a, b) ==
  /\ f.k = "P" => /\ b = [a EXCEPT !.b = b.b, !.m = a.b]
                  /\ \/ b.b = a.b
                     \/ f.at \in {"run", "done"} /\ b.b = a.b + 1 /\ Frees(cs[b.b], Var("paraml"))
  /\ f.k = "H" => /\ b = [a EXCEPT !.b = a.b + 2, !.m = a.b + 2, !.d = a.d + 1]
                  /\ Interrupts(cs[a.b + 1]) /\ Frees(cs[b.b], <<"w", i - 1>>)
  /\ f.k = "B" /\ f.at \in {"start", "after", "failed"} => b = a
  /\ f.k = "B" /\ f.at = "eval" =>
       /\ b = [a EXCEPT !.b = a.b + 1]
       /\ cs[b.b].v = <<"st", i>> /\ cs[b.b].fn = "doeval_cleanup" /\ cs[b.b].old.evalvec \in EvalLines
  /\ f.k = "B" /\ f.at = "ret" =>
       \/ /\ b = [a EXCEPT !.b = a.b + 2, !.d = a.d + 1, !.src = 1]
          /\ cs[a.b + 1].v = <<"st", i>> /\ cs[a.b + 1].fn = "st_restore" /\ Saves(cs[a.b + 1], a.src)
          /\ Interrupts(cs[b.b])
       \/ /\ b = [a EXCEPT !.b = a.b + 1, !.l = a.l + 1, !.src = 2]
          /\ cs[b.b].v = <<"st", i>> /\ cs[b.b].fn = "fn_restore" /\ Saves(cs[b.b], a.src)

Processes ==
  [k : {"P"}, catch : BOOLEAN, omark : Nat, at : {"top", "lex", "run", "done"}, todo : Seq(Commands), failed : BOOLEAN]
Hooks == [k : {"H"}, hook : {"precmd", "postcmd"}, omark : Nat, at : {"run", "after"}, todo : Seq(Commands), failed : BOOLEAN]
Internals == {c \in Commands : c.c \notin {"ext", "undef"}}
Builtins == [k : {"B"}, cmd : Internals, at : {"start", "after", "failed", "eval", "ret"}, oh : {FALSE}, again : {FALSE}, left : {0}]
Frames == Processes \cup Hooks \cup Builtins
(* g is called by f. *)
Calls(f, g) ==
  \/ f.k \in {"P", "H"} /\ f.at = "run" /\ g.k = "B"
  \/ f.k = "P" /\ f.at \in {"lex", "run"} /\ g.k = "H"
  \/ f.k = "B" /\ f.at \in {"ret", "eval"} /\ g.k = "P" /\ ~g.catch
(* A line of which a command has failed has nothing left on the cleanup stack,
   by which cmd_done knows. *)
Doomed(f, a, b) == f.k = "P" /\ f.failed => f.at # "lex" /\ b.b = a.b
Frame(f, i, cs, a, b) ==
  /\ f \in Frames /\ a \in Envs /\ b \in Envs
  /\ Pushed(f, i, cs, a, b) /\ (f.k # "B" => f.omark = a.m) /\ Doomed(f, a, b)

(* The first m frames, and what each of them found: e[m + 1] is what is above. *)
Chain(call, cs, e, m) ==
  /\ m \in Nat /\ e \in [Nat -> Envs] /\ e[1] = Bottom
  /\ \A i \in 1 .. m : Frame(call[i], i, cs, e[i], e[i + 1])
  /\ \A i \in 1 .. m - 1 : Calls(call[i], call[i + 1])
  /\ m > 0 => call[1].k = "P" /\ call[1].catch
  /\ \A i, j \in 1 .. m + 1 : i <= j => e[i].b <= e[j].b
  /\ \A i \in 1 .. m + 1 : e[i].m <= e[i].b

Core == {"insource", "intty", "gointr", "evalvec", "enterhist", "justpr", "arena", "call", "cs", "mark",
         "pintr_disabled", "haderr", "aliases", "fnlvl", "aborted"}
Streams3 == {"fd", "SHIN", "SHOUT", "SHDIAG", "OLDSTD", "didfds"}
Fields == Core \cup Streams3 \cup {"pintr_pending", "doneinp", "active", "last", "fnpipe", "out", "left"}
(* A sequence, whatever it is of. *)
IsSeq(q) == q \in Seq({q[i] : i \in DOMAIN q})
(* What is well formed of a state but its two stacks. *)
Data(s) ==
  /\ DOMAIN s = Fields /\ IsSeq(s.cs) /\ EnvOf(s) \in Envs
  /\ Input(s) /\ s.evalvec \in EvalLines /\ s.haderr \in BOOLEAN /\ s.justpr \in BOOLEAN
  /\ \A h \in DOMAIN s.aliases : s.aliases[h] \in Lines
(* An error is on its way where it has landed, until that is left. *)
Handles(f) == \/ f.k = "P" /\ f.at = "top"
              \/ f.k = "H" /\ f.at = "after"
              \/ f.k = "B" /\ f.at \in {"after", "failed"}
(* The two stacks agree, and with what is kept of them elsewhere. *)
Stack(s, e) ==
  IsSeq(s.call) /\ Chain(s.call, s.cs, e, Len(s.call)) /\ e[Len(s.call) + 1] = EnvOf(s)
Handled(s) ==
  /\ s.call # <<>> /\ Top(s).k = "P" /\ Top(s).at = "top" /\ Top(s).failed => s.haderr
  /\ s.haderr => s.call # <<>> /\ Handles(Top(s))
Sound(s) == Data(s) /\ ~s.aborted /\ Handled(s) /\ \E e : Stack(s, e)
(* A reset() will land in the frame on top. *)
Ready(s) == Data(s) /\ ~s.aborted /\ s.call # <<>> /\ Catches(Top(s)) /\ \E e : Stack(s, e)
-----------------------------------------------------------------------------
(* Sequences, maxima, and the recursion of Unwound. *)

LEMMA SeqLen ==
  ASSUME NEW q, IsSeq(q)
  PROVE  Len(q) \in Nat /\ DOMAIN q = 1 .. Len(q)
BY DEF IsSeq

LEMMA SeqIs ==
  ASSUME NEW E, NEW q \in Seq(E)
  PROVE  IsSeq(q)
<1> DEFINE R == {q[i] : i \in DOMAIN q}
<1>1. q \in [1 .. Len(q) -> R] /\ Len(q) \in Nat  OBVIOUS
<1> HIDE DEF R
<1>2. q \in Seq(R)  BY <1>1
<1>. QED BY <1>2 DEF IsSeq, R

LEMMA IsSeqIs ==
  ASSUME NEW q, NEW n \in Nat, DOMAIN q = 1 .. n, q = [i \in 1 .. n |-> q[i]]
  PROVE  IsSeq(q) /\ Len(q) = n
<1> DEFINE R == {q[i] : i \in DOMAIN q}
<1>1. \A i \in 1 .. n : q[i] \in R  OBVIOUS
<1> HIDE DEF R
<1>2. q \in [1 .. n -> R]  BY <1>1
<1>3. q \in Seq(R)  BY <1>2
<1>4. Len(q) = n  BY <1>3
<1>. QED BY <1>3, <1>4 DEF IsSeq, R

\* r is q with v at its end, or in place k.
Longer(r, q, v) ==
  IsSeq(r) /\ Len(r) = Len(q) + 1 /\ r[Len(q) + 1] = v /\ \A i \in 1 .. Len(q) : r[i] = q[i]
Put(q, k, v) == [q EXCEPT ![k] = v]
Replaced(r, q, k, v) ==
  IsSeq(r) /\ Len(r) = Len(q) /\ r[k] = v /\ \A i \in 1 .. Len(q) : i # k => r[i] = q[i]

LEMMA AppendIs ==
  ASSUME NEW q, IsSeq(q), NEW v
  PROVE  Longer(Append(q, v), q, v)
<1> DEFINE r == Append(q, v)
           R == {q[i] : i \in DOMAIN q} \cup {v}
<1>1. q \in Seq(R)
  <2>1. {q[i] : i \in DOMAIN q} \subseteq R  OBVIOUS
  <2> HIDE DEF R
  <2>. QED BY <2>1 DEF IsSeq
<1>2. v \in R  OBVIOUS
<1> HIDE DEF R
<1>3. r \in Seq(R)  BY <1>1, <1>2
<1>4. IsSeq(r)  BY <1>3, SeqIs
<1>. QED BY <1>1, <1>2, <1>3, <1>4 DEF Longer

LEMMA ExceptIs ==
  ASSUME NEW q, IsSeq(q), NEW k \in 1 .. Len(q), NEW v
  PROVE  Replaced(Put(q, k, v), q, k, v)
<1> DEFINE r == [q EXCEPT ![k] = v]
<1>1. Len(q) \in Nat /\ DOMAIN q = 1 .. Len(q)  BY SeqLen
<1>2. DOMAIN r = 1 .. Len(q) /\ r = [i \in 1 .. Len(q) |-> r[i]]  BY <1>1
<1>3. r[k] = v /\ \A i \in 1 .. Len(q) : i # k => r[i] = q[i]  BY <1>1
<1> HIDE DEF r
<1>4. IsSeq(r) /\ Len(r) = Len(q)  BY <1>1, <1>2, IsSeqIs
<1>5. Replaced(r, q, k, v)  BY <1>3, <1>4 DEF Replaced
<1>. QED BY <1>5 DEF r, Put

LEMMA SubSeqIs ==
  ASSUME NEW q, IsSeq(q), NEW k \in 0 .. Len(q)
  PROVE  /\ IsSeq(SubSeq(q, 1, k)) /\ Len(SubSeq(q, 1, k)) = k
         /\ \A i \in 1 .. k : SubSeq(q, 1, k)[i] = q[i]
<1> DEFINE R == {q[i] : i \in DOMAIN q}
<1>1. q \in Seq(R) /\ Len(q) \in Nat /\ k \in Nat /\ k <= Len(q)  BY SeqLen DEF IsSeq
<1> HIDE DEF R
<1>2. /\ SubSeq(q, 1, k) \in Seq(R) /\ Len(SubSeq(q, 1, k)) = k
      /\ \A i \in 1 .. k : SubSeq(q, 1, k)[i] = q[i]
  BY <1>1
<1>3. IsSeq(SubSeq(q, 1, k))  BY <1>2, SeqIs
<1>. QED BY <1>2, <1>3

LEMMA FrontIs ==
  ASSUME NEW q, IsSeq(q), Len(q) > 0
  PROVE  /\ IsSeq(Front(q)) /\ Len(Front(q)) = Len(q) - 1
         /\ \A i \in 1 .. Len(q) - 1 : Front(q)[i] = q[i]
<1>1. Len(q) - 1 \in 0 .. Len(q)  BY SeqLen
<1>. QED BY <1>1, SubSeqIs DEF Front

LEMMA MaxIs ==
  ASSUME NEW S, NEW m \in S, S \subseteq Nat, \A i \in S : i <= m
  PROVE  Max(S) = m
<1>1. \A k \in S : (\A i \in S : k >= i) => k = m  BY Z3
<1>2. \E k \in S : \A i \in S : k >= i  BY Z3
<1>. QED BY <1>1, <1>2 DEF Max

\* Unwinding one entry more.
UnwindsTo(s, n, u) == u = [k \in 0 .. n |-> IF k = 0 THEN s ELSE UndoLast(u[k - 1])]

LEMMA UnwindsMore ==
  ASSUME NEW s, NEW n \in Nat, NEW u, UnwindsTo(s, n, u)
  PROVE  UnwindsTo(s, n + 1, [k \in 0 .. n + 1 |-> IF k = n + 1 THEN UndoLast(u[n]) ELSE u[k]])
<1> DEFINE w == [k \in 0 .. n + 1 |-> IF k = n + 1 THEN UndoLast(u[n]) ELSE u[k]]
<1>1. ASSUME NEW k \in 0 .. n + 1 PROVE w[k] = IF k = 0 THEN s ELSE UndoLast(w[k - 1])
  <2>1. CASE k = n + 1
    <3>1. w[k - 1] = u[n] /\ w[k] = UndoLast(u[n]) /\ k # 0  BY <2>1
    <3>. QED BY <3>1
  <2>2. CASE k # n + 1
    <3>1. k \in 0 .. n /\ w[k] = u[k]  BY <2>2
    <3>2. u[k] = IF k = 0 THEN s ELSE UndoLast(u[k - 1])  BY <3>1 DEF UnwindsTo
    <3>3. k # 0 => w[k - 1] = u[k - 1]  BY <3>1
    <3>. QED BY <3>1, <3>2, <3>3
  <2>. QED BY <2>1, <2>2
<1>2. w = [k \in 0 .. n + 1 |-> w[k]]  OBVIOUS
<1>3. [k \in 0 .. n + 1 |-> w[k]] = [k \in 0 .. n + 1 |-> IF k = 0 THEN s ELSE UndoLast(w[k - 1])]
  <2> HIDE DEF w
  <2>. QED BY <1>1
<1> HIDE DEF w
<1>4. UnwindsTo(s, n + 1, w)  BY <1>2, <1>3 DEF UnwindsTo
<1>. QED BY <1>4 DEF w

LEMMA MinIs ==
  ASSUME NEW S, S \subseteq Nat, S # {}
  PROVE  Min(S) \in S /\ \A q \in S : Min(S) <= q
<1>1. PICK r \in S : \A y \in S : ~(<<y, r>> \in OpToRel(<, Nat))
  BY NatLessThanWellFounded, WFMin
<1>2. \A y \in S : ~(y < r)  BY <1>1 DEF OpToRel
<1>3. \A y \in S : r <= y  BY <1>2
<1>. QED BY <1>3 DEF Min

\* What holds of 0 and of the successor of each of its members is all of Nat.
LEMMA Counting ==
  ASSUME NEW K \in SUBSET Nat, 0 \in K, \A n \in K : n + 1 \in K
  PROVE  K = Nat
<1> SUFFICES ASSUME Nat \ K # {} PROVE FALSE  OBVIOUS
<1>1. Min(Nat \ K) \in Nat \ K /\ \A y \in Nat \ K : Min(Nat \ K) <= y  BY MinIs
<1> DEFINE m == Min(Nat \ K)
<1> HIDE DEF m
<1>2. m \in Nat /\ m \notin K /\ \A y \in Nat \ K : m <= y  BY <1>1 DEF m
<1>3. m # 0 /\ m - 1 \in Nat /\ m - 1 \in K  BY <1>2
<1>4. (m - 1) + 1 \in K /\ (m - 1) + 1 = m  BY <1>2, <1>3
<1>. QED BY <1>2, <1>4

LEMMA UnwindsOnce ==
  ASSUME NEW s, NEW n \in Nat, NEW m \in Nat, NEW u, NEW w, UnwindsTo(s, n, u), UnwindsTo(s, m, w), n <= m
  PROVE  u[n] = w[n]
<1> DEFINE K == {k \in Nat : k <= n => u[k] = w[k]}
<1>1. ASSUME NEW k \in 0 .. n
      PROVE  /\ u[k] = IF k = 0 THEN s ELSE UndoLast(u[k - 1])
             /\ w[k] = IF k = 0 THEN s ELSE UndoLast(w[k - 1])
  <2>1. k \in 0 .. m  OBVIOUS
  <2>. QED BY <2>1 DEF UnwindsTo
<1>2. 0 \in K  BY <1>1
<1>3. ASSUME NEW k \in K PROVE k + 1 \in K
  <2>1. SUFFICES ASSUME k + 1 <= n PROVE u[k + 1] = w[k + 1]  OBVIOUS
  <2>2. u[k] = w[k] /\ k + 1 \in 0 .. n /\ (k + 1) - 1 = k  BY <2>1
  <2>3. u[k + 1] = UndoLast(u[k]) /\ w[k + 1] = UndoLast(w[k])  BY <1>1, <2>2
  <2>. QED BY <2>2, <2>3
<1>4. K \in SUBSET Nat  OBVIOUS
<1> HIDE DEF K
<1>5. n \in K  BY <1>2, <1>3, <1>4, Counting
<1>. QED BY <1>5 DEF K

LEMMA UnwoundIs ==
  ASSUME NEW s, NEW n \in Nat
  PROVE  /\ \E u : UnwindsTo(s, n, u)
         /\ \A u : UnwindsTo(s, n, u) => Unwound(s, n) = u[n]
<1> DEFINE K == {k \in Nat : \E u : UnwindsTo(s, k, u)}
<1>1. 0 \in K
  <2>1. UnwindsTo(s, 0, [k \in 0 .. 0 |-> s])
    <3>1. \A k \in 0 .. 0 : k = 0  OBVIOUS
    <3>. QED BY <3>1 DEF UnwindsTo
  <2>. QED BY <2>1
<1>2. ASSUME NEW k \in K PROVE k + 1 \in K
  <2>1. PICK u : UnwindsTo(s, k, u)  OBVIOUS
  <2>2. \E w : UnwindsTo(s, k + 1, w)  BY <2>1, UnwindsMore
  <2>. QED BY <2>2
<1>3. K \in SUBSET Nat  OBVIOUS
<1>4. \E u : UnwindsTo(s, n, u)
  <2> HIDE DEF K
  <2>1. n \in K  BY <1>1, <1>2, <1>3, Counting
  <2>. QED BY <2>1 DEF K
<1> DEFINE v == CHOOSE u : UnwindsTo(s, n, u)
<1>5. UnwindsTo(s, n, v)  BY <1>4
<1>6. Unwound(s, n) = v[n]  BY DEF Unwound, UnwindsTo
<1>7. ASSUME NEW u, UnwindsTo(s, n, u) PROVE Unwound(s, n) = u[n]
  <2> HIDE DEF v
  <2>. QED BY <1>5, <1>6, <1>7, UnwindsOnce
<1>. QED BY <1>4, <1>7

LEMMA UnwoundNext ==
  ASSUME NEW s, NEW n \in Nat
  PROVE  Unwound(s, n + 1) = UndoLast(Unwound(s, n)) /\ Unwound(s, 0) = s
<1>1. PICK u : UnwindsTo(s, n, u)  BY UnwoundIs
<1>2. Unwound(s, n) = u[n]  BY <1>1, UnwoundIs
<1> DEFINE w == [k \in 0 .. n + 1 |-> IF k = n + 1 THEN UndoLast(u[n]) ELSE u[k]]
<1>3. UnwindsTo(s, n + 1, w) /\ w[n + 1] = UndoLast(u[n])  BY <1>1, UnwindsMore
<1> HIDE DEF w
<1>4. Unwound(s, n + 1) = UndoLast(u[n])  BY <1>3, UnwoundIs
<1>5. PICK z : UnwindsTo(s, 0, z)  BY UnwoundIs
<1>6. z[0] = s  BY <1>5 DEF UnwindsTo
<1>7. Unwound(s, 0) = z[0]  BY <1>5, UnwoundIs
<1>. QED BY <1>2, <1>4, <1>6, <1>7

-----------------------------------------------------------------------------
(* States that differ in some fields only. *)

Only(t, s, F) == DOMAIN t = DOMAIN s /\ \A f \in DOMAIN s \ F : t[f] = s[f]

LEMMA OnlyTrans ==
  ASSUME NEW s, NEW t, NEW u, NEW F, NEW G, Only(t, s, F), Only(u, t, G)
  PROVE  Only(u, s, F \cup G)
BY DEF Only

LEMMA OnlyMore ==
  ASSUME NEW s, NEW t, NEW F, NEW G, Only(t, s, F), F \subseteq G
  PROVE  Only(t, s, G)
BY DEF Only

LEMMA CoreApart == Core \cap Streams3 = {} /\ Core \subseteq Fields /\ Streams3 \subseteq Fields
BY DEF Core, Streams3, Fields

\* What the streams are is nothing to the two stacks.
LEMMA StreamsOnly ==
  ASSUME NEW s, NEW t, Only(t, s, Streams3), DOMAIN s = Fields
  PROVE  DOMAIN t = Fields /\ \A f \in Core : t[f] = s[f]
BY CoreApart DEF Only

LEMMA FdIs ==
  ASSUME NEW s, NEW f \in Streams3, NEW v
  PROVE  Only([s EXCEPT ![f] = v], s, Streams3)
BY DEF Only

LEMMA CloseIs ==
  ASSUME NEW s, NEW n
  PROVE  Only(xclose(s, n), s, Streams3)
<1>1. "fd" \in Streams3  BY DEF Streams3
<1>. QED BY <1>1, FdIs DEF xclose

LEMMA Dup2Is ==
  ASSUME NEW s, NEW i, NEW j
  PROVE  Only(xdup2(s, i, j), s, Streams3) /\ Only(xopen(s, i), s, Streams3) /\ Only(s, s, Streams3)
<1>1. "fd" \in Streams3  BY DEF Streams3
<1>2. Only(xdup2(s, i, j), s, Streams3)  BY <1>1, FdIs DEF xdup2
<1>3. Only(xopen(s, i), s, Streams3)  BY <1>1, FdIs DEF xopen
<1>. QED BY <1>2, <1>3 DEF Only

LEMMA StreamsTrans ==
  ASSUME NEW s, NEW t, NEW u, Only(t, s, Streams3), Only(u, t, Streams3)
  PROVE  Only(u, s, Streams3)
BY DEF Only

LEMMA CopyIs ==
  ASSUME NEW s, NEW i, NEW j
  PROVE  /\ Only(dup(s, i), s, Streams3) /\ Only(dcopy(s, i, j), s, Streams3) /\ Only(dmove(s, i, j), s, Streams3)
<1>1. Only(dup(s, i), s, Streams3)  BY Dup2Is DEF dup
<1>2. Only(dcopy(s, i, j), s, Streams3)  BY Dup2Is DEF dcopy
<1>3. Only(xclose(xdup2(s, i, Copied(s, i, j)), i), s, Streams3)  BY Dup2Is, CloseIs, StreamsTrans
<1>4. Only(dmove(s, i, j), s, Streams3)  BY <1>3, Dup2Is DEF dmove
<1>. QED BY <1>1, <1>2, <1>4

LEMMA ToIs ==
  ASSUME NEW s, NEW f \in Streams3, NEW i
  PROVE  Only(MoveTo(s, f, i), s, Streams3) /\ Only(CopyTo(s, f, i), s, Streams3) /\ Only(Adopt(s, i, f), s, Streams3)
<1>1. Only(MoveTo(s, f, i), s, Streams3)
  <2> DEFINE y == dmove(s, i, -1)
             z == [y EXCEPT ![f] = Copied(s, i, -1)]
  <2>1. Only(y, s, Streams3)  BY CopyIs
  <2> HIDE DEF y
  <2>2. Only(z, y, Streams3)  BY FdIs
  <2>3. Only(z, s, Streams3)  BY <2>1, <2>2, StreamsTrans
  <2>. QED BY <2>3 DEF MoveTo, y
<1>2. Only(CopyTo(s, f, i), s, Streams3)
  <2> DEFINE y == dcopy(s, i, -1)
             z == [y EXCEPT ![f] = Copied(s, i, -1)]
  <2>1. Only(y, s, Streams3)  BY CopyIs
  <2> HIDE DEF y
  <2>2. Only(z, y, Streams3)  BY FdIs
  <2>3. Only(z, s, Streams3)  BY <2>1, <2>2, StreamsTrans
  <2>. QED BY <2>3 DEF CopyTo, y
<1>3. Only(Adopt(s, i, f), s, Streams3)  BY <1>1, Dup2Is DEF Adopt
<1>. QED BY <1>1, <1>2, <1>3

LEMMA DoneIs ==
  ASSUME NEW s
  PROVE  Only(donefds(s), s, Streams3) /\ Only(closem(s), s, Streams3) /\ Only(mypipe(s).x, s, Streams3)
         /\ Only(Descriptors012(s), s, Streams3)
<1>1. "fd" \in Streams3 /\ "didfds" \in Streams3  BY DEF Streams3
<1>2. Only(xclose(xclose(xclose(s, 0), 1), 2), s, Streams3)  BY CloseIs, StreamsTrans
<1>3. Only(donefds(s), s, Streams3)  BY <1>1, <1>2, FdIs, StreamsTrans DEF donefds
<1>4. Only(closem(s), s, Streams3)  BY <1>1, FdIs DEF closem
<1>5. Only(mypipe(s).x, s, Streams3)
  <2> DEFINE r == Lowest(s, FSAFE + 1)
             y == [s EXCEPT !.fd = [k \in DOMAIN @ \cup {r} |-> IF k = r THEN "pipe read" ELSE @[k]]]
             w == Lowest(y, FSAFE + 1)
             z == [y EXCEPT !.fd = [k \in DOMAIN @ \cup {w} |-> IF k = w THEN "pipe write" ELSE @[k]]]
  <2>1. mypipe(s).x = z  BY DEF mypipe
  <2>2. Only(y, s, Streams3)  BY <1>1, FdIs
  <2> HIDE DEF y
  <2>3. Only(z, y, Streams3)  BY <1>1, FdIs
  <2> HIDE DEF z
  <2>. QED BY <2>1, <2>2, <2>3, StreamsTrans
<1>6. Only(Descriptors012(s), s, Streams3)
  <2>1. Only(dcopy(dcopy(dcopy(s, s.SHIN, 0), s.SHOUT, 1), s.SHDIAG, 2), s, Streams3)  BY CopyIs, StreamsTrans
  <2>. QED BY <2>1, Dup2Is DEF Descriptors012
<1>. QED BY <1>3, <1>4, <1>5, <1>6

LEMMA DoioIs ==
  ASSUME NEW s, NEW c, NEW again
  PROVE  Only(doio(s, c, again), s, Streams3)
<1> DEFINE in == dup(xclose(s, 0), s.OLDSTD)
           y == dcopy(dcopy(in, s.SHOUT, 1), s.SHDIAG, 2)
           out == IF c.to = "" THEN dup(xclose(in, 1), s.SHOUT)
                  ELSE dmove(xopen(y, c.to), Lowest(y, 0), 1)
           z == dup(xclose(out, 2), s.SHDIAG)
<1>1. Only(in, s, Streams3)  BY CopyIs, CloseIs, StreamsTrans
<1> HIDE DEF in
<1>2. Only(y, in, Streams3)  BY CopyIs, StreamsTrans
<1> HIDE DEF y
<1>3. Only(dmove(xopen(y, c.to), Lowest(y, 0), 1), y, Streams3)
  <2>1. Only(xopen(y, c.to), y, Streams3)  BY Dup2Is
  <2>. QED BY <2>1, CopyIs, StreamsTrans
<1>4. Only(dup(xclose(in, 1), s.SHOUT), in, Streams3)  BY CopyIs, CloseIs, StreamsTrans
<1>5. Only(out, in, Streams3)  BY <1>2, <1>3, <1>4, StreamsTrans
<1> HIDE DEF out
<1>6. Only(z, out, Streams3)  BY CopyIs, CloseIs, StreamsTrans
<1> HIDE DEF z
<1>7. "didfds" \in Streams3  BY DEF Streams3
<1>8. Only([z EXCEPT !.didfds = TRUE], z, Streams3)  BY <1>7, FdIs
<1>9. Only([z EXCEPT !.didfds = TRUE], s, Streams3)  BY <1>1, <1>5, <1>6, <1>8, StreamsTrans
<1>10. doio(s, c, again) = IF s.didfds \/ again THEN s ELSE [z EXCEPT !.didfds = TRUE]
  BY DEF doio, in, out, y, z
<1>. QED BY <1>9, <1>10, Dup2Is
-----------------------------------------------------------------------------
(* The cleanup stack. *)

\* w is s with its cleanup stack undone down to what a frame of environment v found.
Cut(w, s, v) ==
  /\ Data(w) /\ w.call = s.call /\ w.haderr = s.haderr /\ w.aborted = s.aborted
  /\ v \in Envs /\ EnvOf(w) = [v EXCEPT !.m = s.mark] /\ v.b <= Len(s.cs)
  /\ \A i \in 1 .. v.b : w.cs[i] = s.cs[i]

LEMMA EnvIs ==
  ASSUME NEW v \in Envs
  PROVE  /\ v.b \in Nat /\ v.m \in Nat /\ v.d \in Int /\ v.l \in Int /\ v.src \in {0, 1, 2}
         /\ v = Env(v.b, v.m, v.d, v.l, v.src)
BY DEF Envs, Env

LEMMA EnvOfIs ==
  ASSUME NEW s
  PROVE  /\ EnvOf(s).b = Len(s.cs) /\ EnvOf(s).m = s.mark /\ EnvOf(s).d = s.pintr_disabled
         /\ EnvOf(s).l = s.fnlvl /\ EnvOf(s).src = s.insource
BY DEF EnvOf, Env

LEMMA CutIs ==
  ASSUME NEW w, NEW s, NEW v, Cut(w, s, v)
  PROVE  /\ DOMAIN w = Fields /\ v.b \in Nat /\ v.d \in Int /\ v.l \in Int /\ v.src \in {0, 1, 2}
         /\ Len(w.cs) = v.b /\ w.mark = s.mark /\ w.pintr_disabled = v.d /\ w.fnlvl = v.l /\ w.insource = v.src
         /\ s.mark \in Nat /\ IsSeq(w.cs)
<1>1. EnvOf(w) = [v EXCEPT !.m = s.mark] /\ v \in Envs /\ Data(w)  BY DEF Cut
<1>2. EnvOf(w) \in Envs  BY <1>1 DEF Data
<1>3. /\ EnvOf(w).b = v.b /\ EnvOf(w).m = s.mark /\ EnvOf(w).d = v.d /\ EnvOf(w).l = v.l /\ EnvOf(w).src = v.src
  BY <1>1 DEF Envs
<1>4. EnvOf(w).m \in Nat  BY <1>2, EnvIs
<1>. QED BY <1>1, <1>3, <1>4, EnvOfIs, EnvIs DEF Data

\* The other way round.
LEMMA CutBy ==
  ASSUME NEW w, NEW s, NEW v \in Envs, s.mark \in Nat,
         DOMAIN w = Fields, IsSeq(w.cs), Input(w), w.evalvec \in EvalLines, w.justpr \in BOOLEAN,
         s.haderr \in BOOLEAN, \A h \in DOMAIN w.aliases : w.aliases[h] \in Lines,
         w.call = s.call, w.haderr = s.haderr, w.aborted = s.aborted,
         Len(w.cs) = v.b, w.mark = s.mark, w.pintr_disabled = v.d, w.fnlvl = v.l, w.insource = v.src,
         v.b <= Len(s.cs), \A i \in 1 .. v.b : w.cs[i] = s.cs[i]
  PROVE  Cut(w, s, v)
<1>1. EnvOf(w) = Env(v.b, s.mark, v.d, v.l, v.src)  BY DEF EnvOf
<1>2. [v EXCEPT !.m = s.mark] = Env(v.b, s.mark, v.d, v.l, v.src)  BY DEF Envs, Env
<1>3. EnvOf(w) \in Envs  BY <1>1, EnvIs DEF Envs, Env
<1>4. Data(w)  BY <1>3 DEF Data
<1>. QED BY <1>1, <1>2, <1>4 DEF Cut

Less(v) == [v EXCEPT !.b = v.b - 1]

LEMMA PopIs ==
  ASSUME NEW w, NEW s, NEW v, Cut(w, s, v), v.b > 0
  PROVE  /\ Cut([w EXCEPT !.cs = Front(@)], s, Less(v))
         /\ UndoLast(w) = Undo([w EXCEPT !.cs = Front(@)], s.cs[v.b])
<1> DEFINE p == [w EXCEPT !.cs = Front(@)]
<1>1. /\ IsSeq(w.cs) /\ Len(w.cs) = v.b /\ v.b \in Nat  BY CutIs
<1>2. /\ IsSeq(Front(w.cs)) /\ Len(Front(w.cs)) = v.b - 1
      /\ \A i \in 1 .. v.b - 1 : Front(w.cs)[i] = w.cs[i]
  BY <1>1, FrontIs
<1>3. /\ DOMAIN p = Fields /\ p.cs = Front(w.cs) /\ \A f \in Fields : f # "cs" => p[f] = w[f]
  BY CutIs DEF Fields, Core
<1>4. /\ p.call = w.call /\ p.haderr = w.haderr /\ p.aborted = w.aborted /\ p.mark = w.mark
      /\ p.pintr_disabled = w.pintr_disabled /\ p.fnlvl = w.fnlvl /\ p.insource = w.insource
      /\ p.evalvec = w.evalvec /\ p.justpr = w.justpr /\ p.aliases = w.aliases
      /\ p.arena = w.arena /\ p.enterhist = w.enterhist /\ p.intty = w.intty /\ p.gointr = w.gointr
  BY <1>3 DEF Fields, Core
<1> HIDE DEF p
<1>5. Input(p)  BY <1>4 DEF Input, Cut, Data
<1>6. /\ Less(v) \in Envs /\ Less(v).b = v.b - 1 /\ Less(v).d = v.d /\ Less(v).l = v.l /\ Less(v).src = v.src
      /\ Less(v).m = v.m
  BY <1>1 DEF Less, Envs, Cut
<1>7. \A i \in 1 .. v.b - 1 : p.cs[i] = s.cs[i]
  <2>1. \A i \in 1 .. v.b - 1 : i \in 1 .. v.b  BY <1>1
  <2>. QED BY <1>2, <1>3, <2>1 DEF Cut
<1>8. v.b - 1 <= Len(s.cs)
  <2>1. v.b <= Len(s.cs)  BY DEF Cut
  <2>. QED BY <1>1, <2>1
<1>9. Cut(p, s, Less(v))
  <2>1. /\ w.call = s.call /\ w.haderr = s.haderr /\ w.aborted = s.aborted /\ w.evalvec \in EvalLines
        /\ w.justpr \in BOOLEAN /\ w.haderr \in BOOLEAN /\ \A h \in DOMAIN w.aliases : w.aliases[h] \in Lines
    BY DEF Cut, Data
  <2>2. p.mark = s.mark /\ s.mark \in Nat /\ p.pintr_disabled = v.d /\ p.fnlvl = v.l /\ p.insource = v.src  BY <1>4, CutIs
  <2>. QED BY <1>2, <1>3, <1>4, <1>5, <1>6, <1>7, <1>8, <2>1, <2>2, CutBy
<1>10. w.cs[v.b] = s.cs[v.b]
  <2>1. v.b \in 1 .. v.b  BY <1>1
  <2>. QED BY <2>1 DEF Cut
<1>. QED BY <1>1, <1>9, <1>10 DEF UndoLast, p

LEMMA UndoFrees ==
  ASSUME NEW w, NEW s, NEW v, Cut(w, s, v), v.b > 0, s.cs[v.b].fn = "lex_cleanup"
  PROVE  Cut(UndoLast(w), s, Less(v))
<1>1. Undo([w EXCEPT !.cs = Front(@)], s.cs[v.b]) = [w EXCEPT !.cs = Front(@)]  BY DEF Undo
<1>. QED BY <1>1, PopIs

LEMMA LessIs ==
  ASSUME NEW v \in Envs, v.b > 0
  PROVE  /\ Less(v) \in Envs /\ Less(v).b = v.b - 1 /\ Less(v).m = v.m /\ Less(v).d = v.d /\ Less(v).l = v.l
         /\ Less(v).src = v.src
BY DEF Less, Envs

\* The number of times interrupts are disabled after a cleanup.
LEMMA UndoDisabled ==
  ASSUME NEW w, NEW s, NEW v, Cut(w, s, v), v.b > 0, NEW d \in Int,
         \/ s.cs[v.b].fn = "disabled_cleanup" /\ d = v.d - 1
         \/ s.cs[v.b].fn = "pintr_disabled_restore" /\ d = s.cs[v.b].old
  PROVE  Cut(UndoLast(w), s, [Less(v) EXCEPT !.d = d])
<1> DEFINE p == [w EXCEPT !.cs = Front(@)]
           u == [p EXCEPT !.pintr_disabled = d]
<1>1. Cut(p, s, Less(v)) /\ UndoLast(w) = Undo(p, s.cs[v.b])  BY PopIs
<1> HIDE DEF p
<1>2. v \in Envs  BY DEF Cut
<1>3. Less(v) \in Envs /\ Less(v).d = v.d /\ Less(v).b = v.b - 1  BY <1>2, LessIs
<1>4. p.pintr_disabled = v.d /\ DOMAIN p = Fields  BY <1>1, <1>3, CutIs
<1>5. Undo(p, s.cs[v.b]) = u  BY <1>4 DEF Undo
<1>6. /\ u.pintr_disabled = d /\ DOMAIN u = Fields /\ u.cs = p.cs /\ u.call = p.call /\ u.haderr = p.haderr
      /\ u.aborted = p.aborted /\ u.mark = p.mark /\ u.fnlvl = p.fnlvl /\ u.insource = p.insource
      /\ u.evalvec = p.evalvec /\ u.justpr = p.justpr /\ u.aliases = p.aliases
      /\ u.arena = p.arena /\ u.enterhist = p.enterhist /\ u.intty = p.intty /\ u.gointr = p.gointr
  BY <1>4 DEF Fields, Core
<1> HIDE DEF u
<1>7. Input(u)  BY <1>1, <1>6 DEF Input, Cut, Data
<1> DEFINE z == [Less(v) EXCEPT !.d = d]
<1>8. z \in Envs /\ z.b = Less(v).b /\ z.d = d /\ z.l = Less(v).l /\ z.src = Less(v).src  BY <1>3 DEF Envs
<1>9. /\ IsSeq(p.cs) /\ Len(p.cs) = Less(v).b /\ p.mark = s.mark /\ s.mark \in Nat /\ p.fnlvl = Less(v).l
      /\ p.insource = Less(v).src
  BY <1>1, CutIs
<1>10. /\ p.call = s.call /\ p.haderr = s.haderr /\ p.aborted = s.aborted /\ p.evalvec \in EvalLines
       /\ p.justpr \in BOOLEAN /\ p.haderr \in BOOLEAN /\ \A h \in DOMAIN p.aliases : p.aliases[h] \in Lines
       /\ Less(v).b <= Len(s.cs) /\ \A i \in 1 .. Less(v).b : p.cs[i] = s.cs[i]
  BY <1>1 DEF Cut, Data
<1> HIDE DEF z
<1>11. Cut(u, s, z)  BY <1>6, <1>7, <1>8, <1>9, <1>10, CutBy
<1>. QED BY <1>1, <1>5, <1>11 DEF z

\* doeval_cleanup(): the lines of eval are back.
LEMMA UndoEval ==
  ASSUME NEW w, NEW s, NEW v, Cut(w, s, v), v.b > 0,
         s.cs[v.b].fn = "doeval_cleanup", s.cs[v.b].old.evalvec \in EvalLines
  PROVE  Cut(UndoLast(w), s, Less(v))
<1> DEFINE p == [w EXCEPT !.cs = Front(@)]
           st == s.cs[v.b].old
           Back(t, f) == [(IF t[f] # st[f] THEN xclose(t, t[f]) ELSE t) EXCEPT ![f] = st[f]]
           y == [p EXCEPT !.evalvec = st.evalvec, !.doneinp = FALSE, !.didfds = st.didfds]
           u == Descriptors012(Back(Back(Back(y, "SHIN"), "SHOUT"), "SHDIAG"))
<1>1. Cut(p, s, Less(v)) /\ UndoLast(w) = Undo(p, s.cs[v.b])  BY PopIs
<1> HIDE DEF p
<1>2. Undo(p, s.cs[v.b]) = u  BY DEF Undo, doeval_cleanup
<1>3. ASSUME NEW t, NEW f \in Streams3 PROVE Only(Back(t, f), t, Streams3)
  <2> DEFINE z == IF t[f] # st[f] THEN xclose(t, t[f]) ELSE t
  <2>1. Only(z, t, Streams3)  BY CloseIs, Dup2Is
  <2> HIDE DEF z
  <2>2. Only([z EXCEPT ![f] = st[f]], z, Streams3)  BY FdIs
  <2>3. Only([z EXCEPT ![f] = st[f]], t, Streams3)  BY <2>1, <2>2, StreamsTrans
  <2>. QED BY <2>3 DEF z
<1> HIDE DEF Back
<1>4. "SHIN" \in Streams3 /\ "SHOUT" \in Streams3 /\ "SHDIAG" \in Streams3  BY DEF Streams3
<1>5. Only(Back(Back(Back(y, "SHIN"), "SHOUT"), "SHDIAG"), y, Streams3)
  <2> HIDE DEF y
  <2>. QED BY <1>3, <1>4, StreamsTrans
<1>6. Only(u, y, Streams3)
  <2> HIDE DEF y
  <2>. QED BY <1>5, DoneIs, StreamsTrans
<1>7. DOMAIN p = Fields  BY <1>1, CutIs
<1>8. /\ y.pintr_disabled = p.pintr_disabled /\ DOMAIN y = Fields /\ y.cs = p.cs /\ y.call = p.call /\ y.haderr = p.haderr
      /\ y.aborted = p.aborted /\ y.mark = p.mark /\ y.fnlvl = p.fnlvl /\ y.insource = p.insource
      /\ y.evalvec = st.evalvec /\ y.justpr = p.justpr /\ y.aliases = p.aliases
      /\ y.arena = p.arena /\ y.enterhist = p.enterhist /\ y.intty = p.intty /\ y.gointr = p.gointr
  BY <1>7 DEF Fields, Core, Streams3
<1> HIDE DEF y, u
<1>9. DOMAIN u = Fields /\ \A f \in Core : u[f] = y[f]  BY <1>6, <1>8, StreamsOnly
<1>10. /\ u.pintr_disabled = p.pintr_disabled /\ u.cs = p.cs /\ u.call = p.call /\ u.haderr = p.haderr
       /\ u.aborted = p.aborted /\ u.mark = p.mark /\ u.fnlvl = p.fnlvl /\ u.insource = p.insource
       /\ u.evalvec = st.evalvec /\ u.justpr = p.justpr /\ u.aliases = p.aliases
       /\ u.arena = p.arena /\ u.enterhist = p.enterhist /\ u.intty = p.intty /\ u.gointr = p.gointr
  BY <1>8, <1>9 DEF Core
<1>11. Input(u)  BY <1>1, <1>10 DEF Input, Cut, Data
<1>12. /\ IsSeq(p.cs) /\ Len(p.cs) = Less(v).b /\ p.mark = s.mark /\ s.mark \in Nat /\ p.fnlvl = Less(v).l
       /\ p.insource = Less(v).src /\ p.pintr_disabled = Less(v).d
  BY <1>1, CutIs
<1>13. /\ p.call = s.call /\ p.haderr = s.haderr /\ p.aborted = s.aborted
       /\ p.justpr \in BOOLEAN /\ p.haderr \in BOOLEAN /\ \A h \in DOMAIN p.aliases : p.aliases[h] \in Lines
       /\ Less(v).b <= Len(s.cs) /\ \A i \in 1 .. Less(v).b : p.cs[i] = s.cs[i] /\ Less(v) \in Envs
  BY <1>1 DEF Cut, Data
<1>14. Less(v) \in Envs  BY LessIs DEF Cut
<1>15. Cut(u, s, Less(v))  BY <1>9, <1>10, <1>11, <1>12, <1>13, <1>14, CutBy
<1>. QED BY <1>1, <1>2, <1>15

\* st_restore() and fn_restore(): the input is what it was.
LEMMA UndoSaved ==
  ASSUME NEW w, NEW s, NEW v, Cut(w, s, v), v.b > 0, NEW src, Saves(s.cs[v.b], src), NEW l \in Int,
         \/ s.cs[v.b].fn = "st_restore" /\ l = v.l
         \/ s.cs[v.b].fn = "fn_restore" /\ l = v.l - 1
  PROVE  Cut(UndoLast(w), s, [Less(v) EXCEPT !.src = src, !.l = l])
<1> DEFINE p == [w EXCEPT !.cs = Front(@)]
           st == s.cs[v.b].old
           Back(t, f) == IF st[f] = -1 THEN t ELSE [xclose(t, t[f]) EXCEPT ![f] = st[f]]
           y == Back(Back(Back(xclose(p, p.SHIN), "OLDSTD"), "SHOUT"), "SHDIAG")
           u == st_restore(p, st)
<1>1. Cut(p, s, Less(v)) /\ UndoLast(w) = Undo(p, s.cs[v.b])  BY PopIs
<1> HIDE DEF p
<1>3. ASSUME NEW t, NEW f \in Streams3 PROVE Only(Back(t, f), t, Streams3)
  <2> DEFINE z == xclose(t, t[f])
  <2>1. Only(z, t, Streams3)  BY CloseIs
  <2> HIDE DEF z
  <2>2. Only([z EXCEPT ![f] = st[f]], z, Streams3)  BY FdIs
  <2>3. Only([z EXCEPT ![f] = st[f]], t, Streams3)  BY <2>1, <2>2, StreamsTrans
  <2>. QED BY <2>3, Dup2Is DEF z
<1>2. u = [f \in DOMAIN y |-> IF f \in Saved THEN st[f] ELSE y[f]]  BY DEF st_restore
<1> HIDE DEF Back
<1>4. "OLDSTD" \in Streams3 /\ "SHOUT" \in Streams3 /\ "SHDIAG" \in Streams3  BY DEF Streams3
<1>5. Only(y, p, Streams3)  BY <1>3, <1>4, CloseIs, StreamsTrans
<1> HIDE DEF y, u
<1>6. DOMAIN p = Fields  BY <1>1, CutIs
<1>7. DOMAIN y = Fields /\ \A f \in Core : y[f] = p[f]  BY <1>5, <1>6, StreamsOnly
<1>8. /\ DOMAIN u = Fields /\ u.pintr_disabled = p.pintr_disabled /\ u.cs = p.cs /\ u.call = p.call /\ u.haderr = p.haderr
      /\ u.aborted = p.aborted /\ u.mark = p.mark /\ u.fnlvl = p.fnlvl /\ u.insource = st.insource
      /\ u.evalvec = st.evalvec /\ u.justpr = st.justpr /\ u.aliases = p.aliases
      /\ u.arena = st.arena /\ u.enterhist = st.enterhist /\ u.intty = st.intty /\ u.gointr = st.gointr
  BY <1>2, <1>7 DEF Fields, Core, Saved
<1> DEFINE c == xclose(u, u.fnpipe)
           r == IF s.cs[v.b].fn = "st_restore" THEN u ELSE [c EXCEPT !.fnpipe = st.fnpipe, !.fnlvl = @ - 1]
<1>9. UndoLast(w) = r  BY <1>1 DEF Undo, fn_restore, PipeClosed, u
<1>10. DOMAIN c = Fields /\ \A f \in Core : c[f] = u[f]  BY <1>8, CloseIs, StreamsOnly
<1> HIDE DEF c
<1>11. p.fnlvl = v.l /\ v.l \in Int
  <2>1. p.fnlvl = Less(v).l  BY <1>1, CutIs
  <2>. QED BY <2>1, LessIs, EnvIs DEF Cut
<1>12. /\ DOMAIN r = Fields /\ r.pintr_disabled = p.pintr_disabled /\ r.cs = p.cs /\ r.call = p.call /\ r.haderr = p.haderr
       /\ r.aborted = p.aborted /\ r.mark = p.mark /\ r.insource = st.insource
       /\ r.evalvec = st.evalvec /\ r.justpr = st.justpr /\ r.aliases = p.aliases
       /\ r.arena = st.arena /\ r.enterhist = st.enterhist /\ r.intty = st.intty /\ r.gointr = st.gointr
       /\ r.fnlvl = l
  <2>1. CASE s.cs[v.b].fn = "st_restore"  BY <1>8, <1>11, <2>1
  <2>2. CASE s.cs[v.b].fn # "st_restore"
    <3>1. r = [c EXCEPT !.fnpipe = st.fnpipe, !.fnlvl = @ - 1] /\ l = v.l - 1  BY <2>2
    <3>2. /\ DOMAIN c = Fields /\ c.pintr_disabled = u.pintr_disabled /\ c.cs = u.cs /\ c.call = u.call
          /\ c.haderr = u.haderr /\ c.aborted = u.aborted /\ c.mark = u.mark /\ c.insource = u.insource
          /\ c.evalvec = u.evalvec /\ c.justpr = u.justpr /\ c.aliases = u.aliases
          /\ c.arena = u.arena /\ c.enterhist = u.enterhist /\ c.intty = u.intty /\ c.gointr = u.gointr
          /\ c.fnlvl = u.fnlvl
      BY <1>10 DEF Core
    <3> HIDE DEF r
    <3>3. "fnlvl" \in Fields /\ "fnpipe" \in Fields  BY DEF Fields, Core
    <3>4. r.fnlvl = c.fnlvl - 1  BY <3>1, <3>2, <3>3
    <3>5. DOMAIN r = Fields /\ \A f \in Fields : f # "fnpipe" /\ f # "fnlvl" => r[f] = c[f]  BY <3>1, <3>2
    <3>6. Core \subseteq Fields  BY CoreApart
    <3>7. \A f \in Core : f # "fnlvl" => r[f] = c[f]  BY <3>5, <3>6 DEF Core
    <3>8. /\ r.pintr_disabled = c.pintr_disabled /\ r.cs = c.cs /\ r.call = c.call
          /\ r.haderr = c.haderr /\ r.aborted = c.aborted /\ r.mark = c.mark /\ r.insource = c.insource
          /\ r.evalvec = c.evalvec /\ r.justpr = c.justpr /\ r.aliases = c.aliases
          /\ r.arena = c.arena /\ r.enterhist = c.enterhist /\ r.intty = c.intty /\ r.gointr = c.gointr
      BY <3>7 DEF Core
    <3>. QED BY <1>8, <1>11, <3>1, <3>2, <3>4, <3>5, <3>8
  <2>. QED BY <2>1, <2>2
<1> HIDE DEF r
<1>13. /\ Input(st) /\ st.justpr \in BOOLEAN /\ st.evalvec \in EvalLines /\ st.insource = src
  BY DEF Saves
<1>14. Input(r)  BY <1>12, <1>13 DEF Input
<1>15. /\ IsSeq(p.cs) /\ Len(p.cs) = Less(v).b /\ p.mark = s.mark /\ s.mark \in Nat /\ p.pintr_disabled = Less(v).d
  BY <1>1, CutIs
<1>16. /\ p.call = s.call /\ p.haderr = s.haderr /\ p.aborted = s.aborted
       /\ p.haderr \in BOOLEAN /\ \A h \in DOMAIN p.aliases : p.aliases[h] \in Lines
       /\ Less(v).b <= Len(s.cs) /\ \A i \in 1 .. Less(v).b : p.cs[i] = s.cs[i]
  BY <1>1 DEF Cut, Data
<1> DEFINE z == [Less(v) EXCEPT !.src = src, !.l = l]
<1>17. Less(v) \in Envs  BY LessIs DEF Cut
<1>18. src \in {0, 1, 2}  BY <1>13 DEF Input
<1>19. z \in Envs /\ z.b = Less(v).b /\ z.d = Less(v).d /\ z.l = l /\ z.src = src  BY <1>17, <1>18 DEF Envs
<1> HIDE DEF z
<1>20. Cut(r, s, z)  BY <1>12, <1>13, <1>14, <1>15, <1>16, <1>19, CutBy
<1>. QED BY <1>9, <1>20 DEF z

LEMMA UntilTop ==
  ASSUME NEW s, IsSeq(s.cs), Len(s.cs) > 0, NEW v, s.cs[Len(s.cs)].v = v
  PROVE  cleanup_until(s, v) = UndoLast(s)
<1> DEFINE n == Len(s.cs)
           hits == {i \in 1 .. n : s.cs[i].v = v}
<1>1. n \in Nat /\ n > 0  BY SeqLen
<1>2. Max(hits) = n /\ hits # {}
  <2>1. n \in hits /\ hits \subseteq Nat /\ \A i \in hits : i <= n  BY <1>1
  <2> HIDE DEF hits, n
  <2>. QED BY <2>1, MaxIs
<1>3. cleanup_until(s, v) = Unwound(s, n - Max(hits) + 1)  BY <1>2 DEF cleanup_until
<1>4. n - Max(hits) + 1 = 0 + 1  BY <1>1, <1>2
<1>. QED BY <1>3, <1>4, UnwoundNext

LEMMA UntilNext ==
  ASSUME NEW s, IsSeq(s.cs), Len(s.cs) > 1, NEW v, s.cs[Len(s.cs) - 1].v = v, s.cs[Len(s.cs)].v # v
  PROVE  cleanup_until(s, v) = UndoLast(UndoLast(s))
<1> DEFINE n == Len(s.cs)
           hits == {i \in 1 .. n : s.cs[i].v = v}
<1>1. n \in Nat /\ n > 1  BY SeqLen
<1>2. Max(hits) = n - 1 /\ hits # {}
  <2>1. n - 1 \in hits /\ hits \subseteq Nat  BY <1>1
  <2>2. ASSUME NEW i \in hits PROVE i <= n - 1
    <3>1. i # n /\ i \in 1 .. n  OBVIOUS
    <3>. QED BY <1>1, <3>1
  <2> HIDE DEF hits, n
  <2>. QED BY <2>1, <2>2, MaxIs
<1>3. cleanup_until(s, v) = Unwound(s, n - Max(hits) + 1)  BY <1>2 DEF cleanup_until
<1>4. n - Max(hits) + 1 = 1 + 1  BY <1>1, <1>2
<1>5. Unwound(s, 1 + 1) = UndoLast(Unwound(s, 0 + 1))  BY UnwoundNext
<1>6. Unwound(s, 0 + 1) = UndoLast(s)  BY UnwoundNext
<1>. QED BY <1>3, <1>4, <1>5, <1>6

LEMMA CutMark ==
  ASSUME NEW w, NEW s, NEW v, NEW u \in Envs, Cut(w, s, v), u.b = v.b, u.d = v.d, u.l = v.l, u.src = v.src
  PROVE  Cut(w, s, u)
<1>1. v \in Envs  BY DEF Cut
<1>2. s.mark \in Nat  BY CutIs
<1>3. [v EXCEPT !.m = s.mark] = [u EXCEPT !.m = s.mark]
  <2>1. [v EXCEPT !.m = s.mark] = Env(v.b, s.mark, v.d, v.l, v.src)  BY <1>1 DEF Envs, Env
  <2>2. [u EXCEPT !.m = s.mark] = Env(u.b, s.mark, u.d, u.l, u.src)  BY DEF Envs, Env
  <2>. QED BY <2>1, <2>2
<1>. QED BY <1>3 DEF Cut

\* A frame's entries undone.
LEMMA Undone ==
  ASSUME NEW s, IsSeq(s.cs), NEW f, NEW i, NEW a, NEW b, Frame(f, i, s.cs, a, b),
         Cut(Unwound(s, Len(s.cs) - b.b), s, b)
  PROVE  Cut(Unwound(s, Len(s.cs) - a.b), s, a)
<1> DEFINE n == Len(s.cs)
           w == Unwound(s, n - b.b)
<1>1. /\ a \in Envs /\ b \in Envs /\ f \in Frames /\ Pushed(f, i, s.cs, a, b)
  BY DEF Frame
<1>2. /\ a.b \in Nat /\ b.b \in Nat /\ a.d \in Int /\ b.d \in Int /\ a.l \in Int /\ b.l \in Int
      /\ a.src \in {0, 1, 2} /\ b.src \in {0, 1, 2}
  BY <1>1, EnvIs
<1>3. n \in Nat /\ b.b <= n  BY SeqLen DEF Cut
<1>4. CASE b.b = a.b /\ b.d = a.d /\ b.l = a.l /\ b.src = a.src
  BY <1>1, <1>4, CutMark
<1>5. ASSUME b.b = a.b + 1, NEW z \in Envs, z.b = a.b, z.d = a.d, z.l = a.l, z.src = a.src, Cut(UndoLast(w), s, z)
      PROVE  Cut(Unwound(s, n - a.b), s, a)
  <2>1. Cut(UndoLast(w), s, a)
    <3> HIDE DEF w
    <3>. QED BY <1>1, <1>5, CutMark
  <2>2. n - a.b = (n - b.b) + 1 /\ n - b.b \in Nat  BY <1>2, <1>3, <1>5
  <2>. QED BY <2>1, <2>2, UnwoundNext
<1>6. ASSUME b.b = a.b + 2, NEW z \in Envs, z.b = a.b, z.d = a.d, z.l = a.l, z.src = a.src, Cut(UndoLast(UndoLast(w)), s, z)
      PROVE  Cut(Unwound(s, n - a.b), s, a)
  <2>1. Cut(UndoLast(UndoLast(w)), s, a)
    <3> HIDE DEF w
    <3>. QED BY <1>1, <1>6, CutMark
  <2>2. n - a.b = ((n - b.b) + 1) + 1 /\ n - b.b \in Nat /\ (n - b.b) + 1 \in Nat
    <3>1. b.b = a.b + 2  BY <1>6
    <3>2. ASSUME NEW p \in Nat, NEW q \in Nat, NEW r \in Nat, q = p + 2, q <= r
          PROVE  r - p = ((r - q) + 1) + 1 /\ r - q \in Nat /\ (r - q) + 1 \in Nat
      BY <3>2
    <3> HIDE DEF n
    <3>. QED BY <1>2, <1>3, <3>1, <3>2
  <2>. QED BY <2>1, <2>2, UnwoundNext
<1>13. Cut(w, s, b)  OBVIOUS
<1> HIDE DEF w
<1>7. b.b > 0 => Less(b) \in Envs /\ Less(b).b = b.b - 1 /\ Less(b).d = b.d /\ Less(b).l = b.l /\ Less(b).src = b.src
  BY <1>1, LessIs
<1>8. CASE f.k = "P"
  <2>1. b = [a EXCEPT !.b = b.b, !.m = a.b]  BY <1>1, <1>8 DEF Pushed
  <2>2. b.d = a.d /\ b.l = a.l /\ b.src = a.src  BY <1>1, <2>1 DEF Envs
  <2>3. CASE b.b = a.b  BY <1>4, <2>2, <2>3
  <2>4. CASE b.b # a.b
    <3>1. b.b = a.b + 1 /\ s.cs[b.b].fn = "lex_cleanup"  BY <1>1, <1>8, <2>4 DEF Pushed, Frees
    <3>3. b.b > 0  BY <1>2, <3>1
    <3>2. Cut(UndoLast(w), s, Less(b))  BY <1>13, <3>1, <3>3, UndoFrees
    <3>. QED BY <1>2, <1>5, <1>7, <2>2, <3>1, <3>2
  <2>. QED BY <2>3, <2>4
<1>9. CASE f.k = "H"
  <2>1. /\ b = [a EXCEPT !.b = a.b + 2, !.m = a.b + 2, !.d = a.d + 1]
        /\ s.cs[a.b + 1].fn = "disabled_cleanup" /\ s.cs[b.b].fn = "lex_cleanup"
    BY <1>1, <1>9 DEF Pushed, Frees, Interrupts
  <2>2. b.b = a.b + 2 /\ b.d = a.d + 1 /\ b.l = a.l /\ b.src = a.src  BY <1>1, <2>1 DEF Envs
  <2>9. b.b > 0  BY <1>2, <2>2
  <2>3. Cut(UndoLast(w), s, Less(b))  BY <1>13, <2>1, <2>9, UndoFrees
  <2> DEFINE c == Less(b)
             z == [Less(c) EXCEPT !.d = a.d]
  <2>4. c \in Envs /\ c.b = a.b + 1 /\ c.d = a.d + 1 /\ c.l = a.l /\ c.src = a.src  BY <1>2, <1>7, <2>2
  <2> HIDE DEF c
  <2>5. a.d = c.d - 1 /\ c.b > 0 /\ s.cs[c.b].fn = "disabled_cleanup"  BY <1>2, <2>1, <2>4
  <2>6. Cut(UndoLast(UndoLast(w)), s, z)  BY <1>2, <2>3, <2>5, UndoDisabled DEF c
  <2>7. Less(c) \in Envs /\ Less(c).b = a.b /\ Less(c).l = a.l /\ Less(c).src = a.src  BY <1>2, <2>4, <2>5, LessIs
  <2>8. z \in Envs /\ z.b = a.b /\ z.d = a.d /\ z.l = a.l /\ z.src = a.src  BY <1>2, <2>7 DEF Envs
  <2>. QED BY <1>6, <2>2, <2>6, <2>8
<1>10. CASE f.k = "B" /\ f.at \in {"start", "after", "failed"}
  <2>1. b = a  BY <1>1, <1>10 DEF Pushed
  <2>. QED BY <1>4, <2>1
<1>11. CASE f.k = "B" /\ f.at = "eval"
  <2>1. /\ b = [a EXCEPT !.b = a.b + 1]
        /\ s.cs[b.b].fn = "doeval_cleanup" /\ s.cs[b.b].old.evalvec \in EvalLines
    BY <1>1, <1>11 DEF Pushed
  <2>2. b.b = a.b + 1 /\ b.d = a.d /\ b.l = a.l /\ b.src = a.src  BY <1>1, <2>1 DEF Envs
  <2>9. b.b > 0  BY <1>2, <2>2
  <2>3. Cut(UndoLast(w), s, Less(b))  BY <1>13, <2>1, <2>9, UndoEval
  <2>. QED BY <1>2, <1>5, <1>7, <2>2, <2>3
<1>12. CASE f.k = "B" /\ f.at = "ret"
  <2>1. CASE /\ b = [a EXCEPT !.b = a.b + 2, !.d = a.d + 1, !.src = 1]
             /\ s.cs[a.b + 1].fn = "st_restore" /\ Saves(s.cs[a.b + 1], a.src) /\ Interrupts(s.cs[b.b])
    <3>1. b.b = a.b + 2 /\ b.d = a.d + 1 /\ b.l = a.l  BY <1>1, <2>1 DEF Envs
    <3> DEFINE c == [Less(b) EXCEPT !.d = a.d]
               z == [Less(c) EXCEPT !.src = a.src, !.l = a.l]
    <3>2. a.d = b.d - 1 /\ s.cs[b.b].fn = "disabled_cleanup"  BY <1>2, <2>1, <3>1 DEF Interrupts
    <3>9. b.b > 0  BY <1>2, <3>1
    <3>3. Cut(UndoLast(w), s, c)  BY <1>2, <1>13, <3>2, <3>9, UndoDisabled
    <3>4. c \in Envs /\ c.b = a.b + 1 /\ c.d = a.d /\ c.l = a.l  BY <1>2, <1>7, <3>1 DEF Envs
    <3> HIDE DEF c
    <3>5. c.b > 0 /\ s.cs[c.b].fn = "st_restore" /\ Saves(s.cs[c.b], a.src)  BY <1>2, <2>1, <3>4
    <3>6. Cut(UndoLast(UndoLast(w)), s, z)  BY <1>2, <3>3, <3>4, <3>5, UndoSaved
    <3>7. Less(c) \in Envs /\ Less(c).b = a.b /\ Less(c).d = a.d  BY <1>2, <3>4, <3>5, LessIs
    <3>8. z \in Envs /\ z.b = a.b /\ z.d = a.d /\ z.l = a.l /\ z.src = a.src  BY <1>2, <3>7 DEF Envs
    <3>. QED BY <1>6, <3>1, <3>6, <3>8
  <2>2. CASE /\ b = [a EXCEPT !.b = a.b + 1, !.l = a.l + 1, !.src = 2]
             /\ s.cs[b.b].fn = "fn_restore" /\ Saves(s.cs[b.b], a.src)
    <3>1. b.b = a.b + 1 /\ b.d = a.d /\ b.l = a.l + 1  BY <1>1, <2>2 DEF Envs
    <3> DEFINE z == [Less(b) EXCEPT !.src = a.src, !.l = a.l]
    <3>2. a.l = b.l - 1 /\ b.b > 0  BY <1>2, <3>1
    <3>3. Cut(UndoLast(w), s, z)  BY <1>2, <1>13, <2>2, <3>2, UndoSaved
    <3>5. Less(b) \in Envs /\ Less(b).b = a.b /\ Less(b).d = a.d  BY <1>2, <1>7, <3>1, <3>2
    <3>4. z \in Envs /\ z.b = a.b /\ z.d = a.d /\ z.l = a.l /\ z.src = a.src  BY <1>2, <3>5 DEF Envs
    <3>. QED BY <1>5, <3>1, <3>3, <3>4
  <2>. QED BY <1>1, <1>12, <2>1, <2>2 DEF Pushed
<1>. QED BY <1>1, <1>8, <1>9, <1>10, <1>11, <1>12 DEF w, Frames, Processes, Hooks, Builtins

-----------------------------------------------------------------------------
(* The call stack. *)

\* What a frame has changed.
LEMMA FrameEnv ==
  ASSUME NEW f, NEW i, NEW cs, NEW a, NEW b, Frame(f, i, cs, a, b)
  PROVE  /\ a \in Envs /\ b \in Envs /\ a.b \in Nat /\ b.b \in Nat /\ a.m \in Nat /\ b.m \in Nat
         /\ f.k = "P" => b.m = a.b /\ b.d = a.d /\ b.l = a.l /\ b.src = a.src /\ b.b \in {a.b, a.b + 1}
         /\ f.k = "H" => b.b = a.b + 2 /\ b.m = b.b /\ b.d = a.d + 1 /\ b.l = a.l /\ b.src = a.src
         /\ f.k = "B" => b.m = a.m /\ b.b \in {a.b, a.b + 1, a.b + 2}
         /\ f.k \in {"P", "H", "B"}
         /\ a.b <= b.b /\ (a.m <= a.b => b.m <= b.b)
<1>1. a \in Envs /\ b \in Envs /\ f \in Frames /\ Pushed(f, i, cs, a, b)  BY DEF Frame
<1>2. a.b \in Nat /\ b.b \in Nat /\ a.m \in Nat /\ b.m \in Nat  BY <1>1, EnvIs
<1>3. f.k = "P" => b.m = a.b /\ b.d = a.d /\ b.l = a.l /\ b.src = a.src /\ b.b \in {a.b, a.b + 1}
  <2>1. ASSUME f.k = "P" PROVE b = [a EXCEPT !.b = b.b, !.m = a.b] /\ b.b \in {a.b, a.b + 1}  BY <1>1, <2>1 DEF Pushed
  <2>. QED BY <1>1, <2>1 DEF Envs
<1>4. f.k = "H" => b.b = a.b + 2 /\ b.m = b.b /\ b.d = a.d + 1 /\ b.l = a.l /\ b.src = a.src
  <2>1. ASSUME f.k = "H" PROVE b = [a EXCEPT !.b = a.b + 2, !.m = a.b + 2, !.d = a.d + 1]  BY <1>1, <2>1 DEF Pushed
  <2>. QED BY <1>1, <2>1 DEF Envs
<1>5. f.k = "B" => b.m = a.m /\ b.b \in {a.b, a.b + 1, a.b + 2}
  <2>1. ASSUME f.k = "B"
        PROVE  \/ b = a
               \/ b = [a EXCEPT !.b = a.b + 1]
               \/ b = [a EXCEPT !.b = a.b + 2, !.d = a.d + 1, !.src = 1]
               \/ b = [a EXCEPT !.b = a.b + 1, !.l = a.l + 1, !.src = 2]
    <3>1. f.at \in {"start", "after", "failed", "eval", "ret"}  BY <1>1, <2>1 DEF Frames, Processes, Hooks, Builtins
    <3>. QED BY <1>1, <2>1, <3>1 DEF Pushed
  <2>. QED BY <1>1, <2>1 DEF Envs
<1>6. f.k \in {"P", "H", "B"}  BY <1>1 DEF Frames, Processes, Hooks, Builtins
<1>7. a.b <= b.b /\ (a.m <= a.b => b.m <= b.b)
  <2> DEFINE ab == a.b
             bb == b.b
  <2>1. ab \in Nat /\ bb \in {ab, ab + 1, ab + 2}  BY <1>2, <1>3, <1>4, <1>5, <1>6
  <2> HIDE DEF ab, bb
  <2>2. ab <= bb /\ bb \in Nat  BY <2>1
  <2>3. b.m \in {ab, bb, a.m}  BY <1>3, <1>4, <1>5, <1>6 DEF ab, bb
  <2>4. a.m <= ab => b.m <= bb  BY <1>2, <2>1, <2>2, <2>3
  <2>. QED BY <2>2, <2>4 DEF ab, bb
<1>. QED BY <1>1, <1>2, <1>3, <1>4, <1>5, <1>6, <1>7

\* A frame is as it was as long as its entries are.
LEMMA FrameKept ==
  ASSUME NEW f, NEW i, NEW cs, NEW cs2, NEW a, NEW b, Frame(f, i, cs, a, b), \A j \in 1 .. b.b : cs2[j] = cs[j]
  PROVE  Frame(f, i, cs2, a, b)
<1>1. a \in Envs /\ b \in Envs /\ f \in Frames /\ Pushed(f, i, cs, a, b)  BY DEF Frame
<1>2. a.b \in Nat /\ b.b \in Nat  BY <1>1, EnvIs
<1>3. b.b > a.b => cs2[b.b] = cs[b.b] /\ cs2[a.b + 1] = cs[a.b + 1]
  <2>1. b.b > a.b => b.b \in 1 .. b.b /\ a.b + 1 \in 1 .. b.b  BY <1>2
  <2>. QED BY <2>1
<1>4. Pushed(f, i, cs2, a, b)
  <2>1. CASE f.k = "P"  BY <1>1, <1>2, <1>3, <2>1 DEF Pushed
  <2>2. CASE f.k = "H"
    <3>1. b.b > a.b  BY <1>2, <2>2, FrameEnv
    <3>. QED BY <1>1, <1>3, <2>2, <3>1 DEF Pushed
  <2>3. CASE f.k = "B" /\ f.at = "eval"
    <3>1. b = [a EXCEPT !.b = a.b + 1]  BY <1>1, <2>3 DEF Pushed
    <3>2. b.b > a.b  BY <1>1, <1>2, <3>1 DEF Envs
    <3>. QED BY <1>1, <1>3, <2>3, <3>2 DEF Pushed
  <2>4. CASE f.k = "B" /\ f.at = "ret"
    <3>1. \/ b = [a EXCEPT !.b = a.b + 2, !.d = a.d + 1, !.src = 1]
          \/ b = [a EXCEPT !.b = a.b + 1, !.l = a.l + 1, !.src = 2]
      BY <1>1, <2>4 DEF Pushed
    <3>2. b.b = a.b + 2 \/ b.b = a.b + 1  BY <1>1, <3>1 DEF Envs
    <3>3. b.b > a.b  BY <1>2, <3>2
    <3>. QED BY <1>1, <1>3, <2>4, <3>3 DEF Pushed
  <2>5. CASE f.k = "B" /\ f.at \in {"start", "after", "failed"}  BY <1>1, <2>5 DEF Pushed
  <2>. QED BY <1>1, <2>1, <2>2, <2>3, <2>4, <2>5 DEF Frames, Processes, Hooks, Builtins
<1>. QED BY <1>4 DEF Frame

LEMMA ChainIs ==
  ASSUME NEW call, NEW cs, NEW e, NEW m, Chain(call, cs, e, m)
  PROVE  /\ m \in Nat /\ e[1] = Bottom /\ e \in [Nat -> Envs]
         /\ \A i \in 1 .. m + 1 : e[i] \in Envs /\ e[i].b \in Nat /\ e[i].m \in Nat /\ e[i].m <= e[i].b
         /\ \A i \in 1 .. m : Frame(call[i], i, cs, e[i], e[i + 1])
         /\ \A i \in 1 .. m - 1 : Calls(call[i], call[i + 1])
         /\ \A i, j \in 1 .. m + 1 : i <= j => e[i].b <= e[j].b
         /\ m > 0 => call[1].k = "P" /\ call[1].catch
<1>1. m \in Nat /\ e \in [Nat -> Envs]  BY DEF Chain
<1>2. ASSUME NEW i \in 1 .. m + 1 PROVE e[i] \in Envs /\ e[i].b \in Nat /\ e[i].m \in Nat
  <2>1. i \in Nat  BY <1>1
  <2>2. e[i] \in Envs  BY <1>1, <2>1
  <2>. QED BY <2>2, EnvIs
<1>. QED BY <1>1, <1>2 DEF Chain

\* The lower frames.
LEMMA ChainKept ==
  ASSUME NEW call, NEW cs, NEW e, NEW m, Chain(call, cs, e, m), NEW k \in 0 .. m,
         NEW call2, NEW cs2, \A i \in 1 .. k : call2[i] = call[i], \A i \in 1 .. e[k + 1].b : cs2[i] = cs[i]
  PROVE  Chain(call2, cs2, e, k)
<1>1. m \in Nat /\ k \in Nat /\ k <= m /\ k + 1 \in 1 .. m + 1  BY ChainIs
<1>2. \A i \in 1 .. k : i \in 1 .. m /\ i + 1 \in 1 .. m + 1 /\ i + 1 <= k + 1  BY <1>1
<1>3. ASSUME NEW i \in 1 .. k PROVE Frame(call2[i], i, cs2, e[i], e[i + 1])
  <2>1. Frame(call[i], i, cs, e[i], e[i + 1])  BY <1>2, ChainIs
  <2>2. e[i + 1].b <= e[k + 1].b /\ e[i + 1].b \in Nat /\ e[k + 1].b \in Nat  BY <1>1, <1>2, ChainIs
  <2>3. \A j \in 1 .. e[i + 1].b : cs2[j] = cs[j]
    <3>1. \A j \in 1 .. e[i + 1].b : j \in 1 .. e[k + 1].b  BY <2>2
    <3>. QED BY <3>1
  <2>. QED BY <2>1, <2>3, FrameKept
<1>4. ASSUME NEW i \in 1 .. k - 1 PROVE Calls(call2[i], call2[i + 1])
  <2>1. i \in 1 .. m - 1 /\ i \in 1 .. k /\ i + 1 \in 1 .. k  BY <1>1
  <2>. QED BY <2>1, ChainIs
<1>5. k > 0 => call2[1].k = "P" /\ call2[1].catch
  <2>1. k > 0 => m > 0 /\ 1 \in 1 .. k  BY <1>1
  <2>. QED BY <2>1, ChainIs
<1>6. \A i \in 1 .. k + 1 : i \in 1 .. m + 1  BY <1>1
<1>. QED BY <1>1, <1>3, <1>4, <1>5, <1>6 DEF Chain

\* One frame more.
Higher(e, k, b) == [e EXCEPT ![k + 2] = b]
Pushes(call, cs, e, k, call2, b) ==
  /\ \A i \in 1 .. k : call2[i] = call[i]
  /\ Frame(call2[k + 1], k + 1, cs, e[k + 1], b)
  /\ k > 0 => Calls(call[k], call2[k + 1])
  /\ k = 0 => call2[1].k = "P" /\ call2[1].catch

LEMMA ChainPush ==
  ASSUME NEW call, NEW cs, NEW e, NEW k, Chain(call, cs, e, k), NEW call2, NEW b, Pushes(call, cs, e, k, call2, b)
  PROVE  Chain(call2, cs, Higher(e, k, b), k + 1)
<1> USE DEF Pushes
<1> DEFINE g == Higher(e, k, b)
<1>1. k \in Nat /\ e \in [Nat -> Envs] /\ k + 1 + 1 = k + 2 /\ k + 1 \in 1 .. k + 1  BY ChainIs
<1>2. b \in Envs /\ b.b \in Nat /\ e[k + 1].b <= b.b /\ b.m <= b.b /\ e[k + 1].b \in Nat
  <2>1. e[k + 1].m <= e[k + 1].b  BY <1>1, ChainIs
  <2>. QED BY <2>1, FrameEnv
<1>3. g \in [Nat -> Envs] /\ g[k + 2] = b /\ \A i \in 1 .. k + 1 : g[i] = e[i]
  <2>1. k + 2 \in Nat /\ \A i \in 1 .. k + 1 : i \in Nat /\ i # k + 2  BY <1>1
  <2>. QED BY <1>1, <1>2, <2>1 DEF Higher
<1> HIDE DEF g
<1>4. \A i \in 1 .. k + 2 : i \in 1 .. k + 1 \/ i = k + 2  BY <1>1
<1>5. ASSUME NEW i \in 1 .. k + 1 PROVE Frame(call2[i], i, cs, g[i], g[i + 1])
  <2>1. CASE i \in 1 .. k
    <3>1. i \in 1 .. k + 1 /\ i + 1 \in 1 .. k + 1  BY <1>1, <2>1
    <3>. QED BY <1>3, <2>1, <3>1, ChainIs
  <2>2. CASE i \notin 1 .. k
    <3>1. i = k + 1 /\ i + 1 = k + 2  BY <1>1, <2>2
    <3>. QED BY <1>3, <3>1
  <2>. QED BY <2>1, <2>2
<1>6. ASSUME NEW i \in 1 .. k PROVE Calls(call2[i], call2[i + 1])
  <2>1. CASE i \in 1 .. k - 1
    <3>1. i \in 1 .. k /\ i + 1 \in 1 .. k  BY <1>1, <2>1
    <3>. QED BY <2>1, <3>1, ChainIs
  <2>2. CASE i \notin 1 .. k - 1
    <3>1. i = k /\ k > 0  BY <1>1, <2>2
    <3>. QED BY <3>1
  <2>. QED BY <2>1, <2>2
<1>7. call2[1].k = "P" /\ call2[1].catch
  <2>1. CASE k > 0
    <3>1. 1 \in 1 .. k  BY <1>1, <2>1
    <3>. QED BY <2>1, <3>1, ChainIs
  <2>. QED BY <1>1, <2>1
<1>8. ASSUME NEW i \in 1 .. k + 2, NEW j \in 1 .. k + 2, i <= j PROVE g[i].b <= g[j].b
  <2>1. CASE i \in 1 .. k + 1 /\ j \in 1 .. k + 1  BY <1>3, <1>8, <2>1, ChainIs
  <2>2. CASE i \in 1 .. k + 1 /\ j = k + 2
    <3>1. i <= k + 1  BY <1>1, <2>2
    <3>2. e[i].b <= e[k + 1].b /\ e[i].b \in Nat  BY <1>1, <2>2, <3>1, ChainIs
    <3>3. e[i].b <= b.b  BY <1>2, <3>2
    <3>. QED BY <1>3, <2>2, <3>3
  <2>3. CASE i = k + 2
    <3>1. j = k + 2  BY <1>1, <1>8, <2>3
    <3>. QED BY <1>2, <1>3, <2>3, <3>1
  <2>. QED BY <1>4, <2>1, <2>2, <2>3
<1>9. \A i \in 1 .. k + 2 : g[i].m <= g[i].b  BY <1>2, <1>3, <1>4, ChainIs
<1>10. g[1] = Bottom
  <2>1. 1 \in 1 .. k + 1  BY <1>1
  <2>. QED BY <1>3, <2>1, ChainIs
<1>11. Chain(call2, cs, g, k + 1)
  <2>1. k + 1 - 1 = k /\ k + 1 \in Nat  BY <1>1
  <2>. QED BY <1>1, <1>3, <1>5, <1>6, <1>7, <1>8, <1>9, <1>10, <2>1 DEF Chain
<1>. QED BY <1>11 DEF g

\* What is on k frames of a stack may change.
Rebuilds(call, cs, e, m, k, r) ==
  /\ k \in 0 .. m /\ IsSeq(r.call) /\ Len(r.call) = k + 1
  /\ \A i \in 1 .. k : r.call[i] = call[i]
  /\ \A i \in 1 .. e[k + 1].b : r.cs[i] = cs[i]
  /\ Frame(r.call[k + 1], k + 1, r.cs, e[k + 1], EnvOf(r))
  /\ k > 0 => Calls(call[k], r.call[k + 1])
  /\ k = 0 => r.call[1].k = "P" /\ r.call[1].catch

LEMMA Rebuilt ==
  ASSUME NEW call, NEW cs, NEW e, NEW m, Chain(call, cs, e, m), NEW k, NEW r, Rebuilds(call, cs, e, m, k, r)
  PROVE  Stack(r, Higher(e, k, EnvOf(r)))
<1> USE DEF Rebuilds
<1>1. k \in 0 .. m /\ k \in Nat /\ k + 1 \in Nat /\ k + 2 = k + 1 + 1 /\ e \in [Nat -> Envs]  BY ChainIs
<1>2. Chain(r.call, r.cs, e, k)  BY <1>1, ChainKept
<1>3. Pushes(r.call, r.cs, e, k, r.call, EnvOf(r))
  <2>1. k > 0 => k \in 1 .. k  BY <1>1
  <2>. QED BY <2>1 DEF Pushes
<1>4. Chain(r.call, r.cs, Higher(e, k, EnvOf(r)), k + 1)
  <2> HIDE DEF Rebuilds
  <2>. QED BY ONLY <1>2, <1>3, ChainPush
<1>5. Higher(e, k, EnvOf(r))[k + 1 + 1] = EnvOf(r)  BY <1>1 DEF Higher
<1>. QED BY <1>4, <1>5 DEF Stack

-----------------------------------------------------------------------------
(* reset(): what was pushed is undone, and the frame on top goes on. *)

LEMMA DataLike ==
  ASSUME NEW s, NEW t, Data(s), DOMAIN t = Fields, \A f \in Core \ {"call", "aborted"} : t[f] = s[f]
  PROVE  Data(t) /\ EnvOf(t) = EnvOf(s)
<1>1. /\ t.cs = s.cs /\ t.mark = s.mark /\ t.pintr_disabled = s.pintr_disabled /\ t.fnlvl = s.fnlvl
      /\ t.insource = s.insource /\ t.haderr = s.haderr
      /\ t.evalvec = s.evalvec /\ t.justpr = s.justpr /\ t.aliases = s.aliases
      /\ t.arena = s.arena /\ t.enterhist = s.enterhist /\ t.intty = s.intty /\ t.gointr = s.gointr
  BY DEF Core
<1>2. EnvOf(t) = EnvOf(s)  BY <1>1 DEF EnvOf
<1>3. Input(t)  BY <1>1 DEF Data, Input
<1>. QED BY <1>1, <1>2, <1>3 DEF Data

\* t is s with, at most, the entries of a function that is being left.
Over(t, s) ==
  /\ Data(t) /\ ~t.aborted /\ t.mark = s.mark /\ t.fnlvl = s.fnlvl /\ t.insource = s.insource
  /\ Len(t.cs) >= Len(s.cs) /\ \A i \in 1 .. Len(s.cs) : t.cs[i] = s.cs[i]
  /\ \/ Len(t.cs) = Len(s.cs) /\ t.pintr_disabled = s.pintr_disabled
     \/ /\ Len(t.cs) = Len(s.cs) + 1 /\ t.cs[Len(t.cs)].fn = "pintr_disabled_restore"
        /\ t.cs[Len(t.cs)].old = s.pintr_disabled
     \/ Len(t.cs) = Len(s.cs) + 1 /\ t.cs[Len(t.cs)].fn = "lex_cleanup" /\ t.pintr_disabled = s.pintr_disabled
     \/ /\ Len(t.cs) = Len(s.cs) + 2 /\ t.cs[Len(t.cs)].fn = "lex_cleanup"
        /\ t.cs[Len(t.cs) - 1].fn = "disabled_cleanup" /\ t.pintr_disabled = s.pintr_disabled + 1

LEMMA DataIs ==
  ASSUME NEW s, Data(s)
  PROVE  /\ DOMAIN s = Fields /\ IsSeq(s.cs) /\ Len(s.cs) \in Nat /\ s.mark \in Nat /\ s.pintr_disabled \in Int /\ s.fnlvl \in Int
         /\ s.insource \in {0, 1, 2} /\ EnvOf(s) \in Envs /\ Input(s) /\ s.evalvec \in EvalLines
         /\ s.haderr \in BOOLEAN /\ s.justpr \in BOOLEAN /\ \A h \in DOMAIN s.aliases : s.aliases[h] \in Lines
BY EnvOfIs, EnvIs DEF Data

LEMMA OverCut ==
  ASSUME NEW s, NEW t, Data(s), Over(t, s)
  PROVE  Cut(Unwound(t, Len(t.cs) - Len(s.cs)), t, EnvOf(s))
<1> DEFINE v == EnvOf(t)
           m == Len(t.cs)
           n == Len(s.cs)
<1>1. Data(t) /\ n \in Nat /\ m \in Nat /\ EnvOf(s) \in Envs /\ v \in Envs  BY DataIs DEF Over
<1>2. /\ v.b = m /\ v.m = t.mark /\ v.d = t.pintr_disabled /\ v.l = t.fnlvl /\ v.src = t.insource
      /\ EnvOf(s).b = n /\ EnvOf(s).m = s.mark /\ EnvOf(s).d = s.pintr_disabled
      /\ EnvOf(s).l = s.fnlvl /\ EnvOf(s).src = s.insource
  BY EnvOfIs
<1>3. Cut(t, t, v)  BY <1>1, <1>2, DataIs, CutBy
<1>4. Unwound(t, 0) = t /\ Unwound(t, 0 + 1) = UndoLast(t) /\ Unwound(t, (0 + 1) + 1) = UndoLast(UndoLast(t))
  BY UnwoundNext
<1>5. s.pintr_disabled \in Int /\ t.pintr_disabled \in Int /\ t.fnlvl = s.fnlvl /\ t.insource = s.insource
  BY <1>1, DataIs DEF Over
<1> HIDE DEF v
<1>6. CASE m = n /\ t.pintr_disabled = s.pintr_disabled
  <2>1. m - n = 0  BY <1>1, <1>6
  <2>2. Cut(t, t, EnvOf(s))  BY <1>1, <1>2, <1>3, <1>5, <1>6, CutMark
  <2>. QED BY <1>4, <2>1, <2>2
<1>7. CASE m = n + 1 /\ t.cs[m].fn = "pintr_disabled_restore" /\ t.cs[m].old = s.pintr_disabled
  <2>1. m - n = 0 + 1 /\ v.b > 0 /\ v.b - 1 = n  BY <1>1, <1>2, <1>7
  <2> DEFINE z == [Less(v) EXCEPT !.d = s.pintr_disabled]
  <2>2. Cut(UndoLast(t), t, z)  BY <1>2, <1>3, <1>5, <1>7, <2>1, UndoDisabled
  <2>3. Less(v) \in Envs /\ Less(v).b = n /\ Less(v).l = v.l /\ Less(v).src = v.src  BY <1>1, <2>1, LessIs
  <2>4. z.b = n /\ z.d = s.pintr_disabled /\ z.l = v.l /\ z.src = v.src  BY <2>3 DEF Envs
  <2> HIDE DEF z
  <2>5. Cut(UndoLast(t), t, EnvOf(s))  BY <1>1, <1>2, <1>5, <2>2, <2>4, CutMark
  <2>. QED BY <1>4, <2>1, <2>5
<1>8. CASE m = n + 1 /\ t.cs[m].fn = "lex_cleanup" /\ t.pintr_disabled = s.pintr_disabled
  <2>1. m - n = 0 + 1 /\ v.b > 0 /\ v.b - 1 = n  BY <1>1, <1>2, <1>8
  <2>2. Cut(UndoLast(t), t, Less(v))  BY <1>2, <1>3, <1>8, <2>1, UndoFrees
  <2>3. Less(v) \in Envs /\ Less(v).b = n /\ Less(v).d = v.d /\ Less(v).l = v.l /\ Less(v).src = v.src  BY <1>1, <2>1, LessIs
  <2>4. Cut(UndoLast(t), t, EnvOf(s))  BY <1>1, <1>2, <1>5, <1>8, <2>2, <2>3, CutMark
  <2>. QED BY <1>4, <2>1, <2>4
<1>9. CASE /\ m = n + 2 /\ t.cs[m].fn = "lex_cleanup" /\ t.cs[m - 1].fn = "disabled_cleanup"
           /\ t.pintr_disabled = s.pintr_disabled + 1
  <2>1. m - n = (0 + 1) + 1 /\ v.b > 0 /\ v.b - 1 > 0 /\ v.b - 1 = m - 1 /\ v.b - 1 - 1 = n  BY <1>1, <1>2, <1>9
  <2>2. Cut(UndoLast(t), t, Less(v))  BY <1>2, <1>3, <1>9, <2>1, UndoFrees
  <2>3. Less(v) \in Envs /\ Less(v).b = v.b - 1 /\ Less(v).d = v.d /\ Less(v).l = v.l /\ Less(v).src = v.src
    BY <1>1, <2>1, LessIs
  <2> DEFINE c == Less(v)
             z == [Less(c) EXCEPT !.d = s.pintr_disabled]
  <2> HIDE DEF c
  <2>4. c.b > 0 /\ t.cs[c.b].fn = "disabled_cleanup" /\ c.d - 1 = s.pintr_disabled /\ c \in Envs
        /\ Cut(UndoLast(t), t, c) /\ c.b - 1 = n /\ c.l = v.l /\ c.src = v.src
    BY <1>2, <1>5, <1>9, <2>1, <2>2, <2>3 DEF c
  <2>5. Cut(UndoLast(UndoLast(t)), t, z)  BY <1>5, <2>4, UndoDisabled
  <2>6. Less(c) \in Envs /\ Less(c).b = n /\ Less(c).l = v.l /\ Less(c).src = v.src  BY <2>4, LessIs
  <2>7. z.b = n /\ z.d = s.pintr_disabled /\ z.l = v.l /\ z.src = v.src  BY <2>6 DEF Envs
  <2> HIDE DEF z
  <2>8. Cut(UndoLast(UndoLast(t)), t, EnvOf(s))  BY <1>1, <1>2, <1>5, <2>5, <2>7, CutMark
  <2>. QED BY <1>4, <2>1, <2>8
<1>. QED BY <1>6, <1>7, <1>8, <1>9 DEF Over

LEMMA StackIs ==
  ASSUME NEW s, NEW e, Stack(s, e), s.call # <<>>
  PROVE  /\ IsSeq(s.call) /\ Len(s.call) \in Nat /\ Len(s.call) > 0 /\ DOMAIN s.call = 1 .. Len(s.call)
         /\ Top(s) = s.call[Len(s.call)] /\ Len(s.call) \in 1 .. Len(s.call)
         /\ Frame(Top(s), Len(s.call), s.cs, e[Len(s.call)], EnvOf(s))
         /\ Top(s) \in Frames /\ (Top(s).k # "B" => Top(s).omark = e[Len(s.call)].m)
<1> DEFINE n == Len(s.call)
<1>1. IsSeq(s.call) /\ n \in Nat /\ DOMAIN s.call = 1 .. n  BY SeqLen DEF Stack
<1>2. n # 0
  <2>1. n = 0 => s.call = <<>>  BY <1>1 DEF IsSeq
  <2>. QED BY <2>1
<1>3. n > 0 /\ n \in 1 .. n  BY <1>1, <1>2
<1>4. Frame(s.call[n], n, s.cs, e[n], e[n + 1])  BY <1>3, ChainIs DEF Stack
<1>. QED BY <1>1, <1>3, <1>4 DEF Stack, Top, Frame

\* A builtin is run by a line of a process() or a hook.
LEMMA BuiltinOver ==
  ASSUME NEW s, NEW e, Stack(s, e), s.call # <<>>, Top(s).k = "B"
  PROVE  /\ Len(s.call) - 1 \in 1 .. Len(s.call) /\ Len(s.call) - 1 # Len(s.call)
         /\ s.call[Len(s.call) - 1].k \in {"P", "H"} /\ s.call[Len(s.call) - 1].at = "run"
         /\ s.call[Len(s.call) - 1] \in Frames
         /\ Frame(s.call[Len(s.call) - 1], Len(s.call) - 1, s.cs, e[Len(s.call) - 1], e[Len(s.call)])
<1> DEFINE n == Len(s.call)
<1>1. n \in Nat /\ n > 0 /\ Top(s) = s.call[n]  BY StackIs
<1>2. s.call[1].k = "P"  BY <1>1, ChainIs DEF Stack
<1>3. n # 1  BY <1>1, <1>2
<1>4. n - 1 \in 1 .. n - 1 /\ (n - 1) + 1 = n /\ n - 1 \in 1 .. n /\ n - 1 # n
  <2> HIDE DEF n
  <2>. QED BY <1>1, <1>3
<1>5. Calls(s.call[n - 1], s.call[(n - 1) + 1]) /\ Frame(s.call[n - 1], n - 1, s.cs, e[n - 1], e[(n - 1) + 1])
  <2>1. Chain(s.call, s.cs, e, n)  BY DEF Stack
  <2> HIDE DEF n
  <2>. QED BY <1>4, <2>1, ChainIs
<1>6. Calls(s.call[n - 1], s.call[n]) /\ Frame(s.call[n - 1], n - 1, s.cs, e[n - 1], e[n])  BY <1>4, <1>5
<1>7. s.call[n - 1].k \in {"P", "H"} /\ s.call[n - 1].at = "run"  BY <1>1, <1>6 DEF Calls
<1>. QED BY <1>4, <1>6, <1>7 DEF Frame

Fails(f) == [f EXCEPT !.failed = TRUE]

LEMMA FailsIs ==
  ASSUME NEW f \in Frames, f.k # "B"
  PROVE  /\ Fails(f) \in Frames /\ Fails(f).k = f.k /\ Fails(f).at = f.at /\ Fails(f).omark = f.omark
         /\ Fails(f).todo = f.todo /\ Fails(f).failed = TRUE
         /\ f.k = "P" => Fails(f).catch = f.catch
         /\ f.k = "H" => Fails(f).hook = f.hook
BY DEF Fails, Frames, Processes, Hooks, Builtins

\* The process() or the hook that is on top, or runs the builtin on top.
Inner(s) == IF Top(s).k = "B" THEN Len(s.call) - 1 ELSE Len(s.call)

LEMMA FailedIs ==
  ASSUME NEW s, NEW e, Stack(s, e), s.call # <<>>, NEW t, t.call = s.call, DOMAIN t = Fields
  PROVE  /\ Inner(s) \in 1 .. Len(s.call) /\ s.call[Inner(s)] \in Frames /\ s.call[Inner(s)].k # "B"
         /\ Failed(t) = [t EXCEPT !.call = [@ EXCEPT ![Inner(s)] = Fails(s.call[Inner(s)])]]
<1> DEFINE n == Len(s.call)
           h == Inner(s)
           K == {i \in DOMAIN s.call : s.call[i].k # "B"}
<1>1. n \in Nat /\ n > 0 /\ DOMAIN s.call = 1 .. n /\ Top(s) = s.call[n] /\ n \in 1 .. n /\ Top(s) \in Frames  BY StackIs
<1>2. h \in 1 .. n /\ s.call[h] \in Frames /\ s.call[h].k # "B"
  <2>1. CASE Top(s).k = "B"
    <3>1. h = n - 1  BY <2>1 DEF Inner
    <3>2. h \in 1 .. n /\ s.call[h].k \in {"P", "H"} /\ s.call[h] \in Frames  BY <2>1, <3>1, BuiltinOver
    <3>. QED BY <3>2
  <2>2. CASE Top(s).k # "B"  BY <1>1, <2>2 DEF Inner
  <2>. QED BY <2>1, <2>2
<1>3. \A i \in K : i <= h
  <2>1. CASE Top(s).k = "B"
    <3>1. h = n - 1  BY <2>1 DEF Inner
    <3>2. \A i \in K : i \in 1 .. n /\ i # n  BY <1>1, <2>1
    <3>. QED BY <1>1, <3>1, <3>2
  <2>2. CASE Top(s).k # "B"  BY <1>1, <2>2 DEF Inner
  <2>. QED BY <2>1, <2>2
<1>4. h \in K /\ K \subseteq Nat  BY <1>1, <1>2
<1> HIDE DEF K, h
<1>5. Max(K) = h  BY <1>3, <1>4, MaxIs
<1>6. Failed(t) = [t EXCEPT !.call[Max(K)].failed = TRUE]  BY DEF Failed, K
<1>7. t.call[h] = s.call[h]  OBVIOUS
<1>. QED BY <1>2, <1>5, <1>6, <1>7 DEF h, Fails

LEMMA LandedIs ==
  ASSUME NEW f \in Frames, Catches(f), NEW err \in BOOLEAN
  PROVE  /\ Landed(f, err) \in Frames /\ Landed(f, err).k = f.k /\ Handles(Landed(f, err))
         /\ f.k = "P" => /\ Landed(f, err).at = "top" /\ Landed(f, err).catch = f.catch
                         /\ (Landed(f, err).failed => err)
         /\ f.k # "B" => Landed(f, err).omark = f.omark
         /\ f.k = "B" => Landed(f, err).at \in {"after", "failed"}
         /\ f.k = "H" => Landed(f, err).at = "after"
<1>1. CASE f.k = "P"
  <2>1. f \in Processes  BY <1>1 DEF Frames, Hooks, Builtins
  <2>2. Landed(f, err) = [f EXCEPT !.at = "top", !.todo = <<>>, !.failed = @ /\ err]  BY <1>1 DEF Landed, Landing
  <2>3. <<>> \in Seq(Commands)  OBVIOUS
  <2>. QED BY <1>1, <2>1, <2>2, <2>3 DEF Processes, Frames, Handles
<1>2. CASE f.k = "H"
  <2>1. f \in Hooks  BY <1>2 DEF Frames, Processes, Builtins
  <2>2. Landed(f, err) = [f EXCEPT !.at = "after", !.todo = <<>>, !.failed = @ /\ err]  BY <1>2 DEF Landed, Landing
  <2>3. <<>> \in Seq(Commands)  OBVIOUS
  <2>. QED BY <1>2, <2>1, <2>2, <2>3 DEF Hooks, Frames, Handles
<1>3. CASE f.k = "B"
  <2>1. f \in Builtins  BY <1>3 DEF Frames, Processes, Hooks
  <2>2. Landed(f, err) = [f EXCEPT !.at = IF f.at = "eval" THEN "failed" ELSE "after"]  BY <1>3 DEF Landed, Landing
  <2>. QED BY <1>3, <2>1, <2>2 DEF Builtins, Frames, Handles
<1>. QED BY <1>1, <1>2, <1>3 DEF Frames, Processes, Hooks, Builtins

\* A caller is as it was.
LEMMA CallsSame ==
  ASSUME NEW f, NEW g, NEW h, Calls(f, g), h.k = g.k, g.k = "P" => h.catch = g.catch
  PROVE  Calls(f, h)
BY DEF Calls

\* What reset() leaves when it undoes all down to a frame of environment v.
ResetTo(r, t, n, v) ==
  /\ Data(r) /\ EnvOf(r) = [v EXCEPT !.m = t.mark] /\ r.haderr = t.haderr /\ r.aborted = t.aborted
  /\ IsSeq(r.call) /\ Len(r.call) = n /\ r.call[n] = Landed(t.call[n], t.haderr)
  /\ \A i \in 1 .. n - 1 : r.call[i] = t.call[i]
  /\ \A i \in 1 .. v.b : r.cs[i] = t.cs[i]

LEMMA ResetIs ==
  ASSUME NEW t, NEW v, NEW n, Cut(Unwound(t, Len(t.cs) - t.mark), t, v), v.b = t.mark,
         IsSeq(t.call), Len(t.call) = n, n > 0, Catches(t.call[n])
  PROVE  ResetTo(reset(t), t, n, v)
<1> DEFINE w == Unwound(t, Len(t.cs) - t.mark)
           f == t.call[n]
           l == Landed(f, t.haderr)
           L == Append(SubSeq(t.call, 1, n - 1), l)
           r == [w EXCEPT !.call = L]
<1>1. n \in Nat  BY SeqLen
<1>2. v.b \in Nat /\ v.b <= Len(t.cs)  BY CutIs DEF Cut
<1>11. cleanup_until_mark(t) = w
  <2>1. Unwound(t, 0) = t  BY UnwoundNext
  <2>2. Len(t.cs) > t.mark \/ Len(t.cs) - t.mark = 0
    <3>1. Len(t.cs) \in Nat
      <4>1. v.b \in Nat /\ v.b <= Len(t.cs) /\ Len(t.cs) \in Int  BY <1>2
      <4>. QED BY <4>1
    <3>. QED BY <1>2, <3>1
  <2>. QED BY <2>1, <2>2 DEF cleanup_until_mark, cleanup_reset
<1>9. Cut(w, t, v)  OBVIOUS
<1> HIDE DEF w
<1>12. Data(w) /\ w.call = t.call /\ w.haderr = t.haderr /\ w.aborted = t.aborted /\ DOMAIN w = Fields  BY <1>9, DataIs DEF Cut
<1> HIDE DEF l
<1>13. longjmp(w) = r
  <2> DEFINE c == {i \in DOMAIN w.call : Catches(w.call[i])}
  <2>1. DOMAIN w.call = 1 .. n  BY <1>12, SeqLen
  <2>2. n \in c /\ c \subseteq Nat /\ \A i \in c : i <= n  BY <1>1, <1>12, <2>1
  <2> HIDE DEF c
  <2>3. Max(c) = n /\ c # {}  BY <2>2, MaxIs
  <2>4. longjmp(w) = [w EXCEPT !.call = Append(SubSeq(w.call, 1, n - 1), Landed(w.call[n], w.haderr))]
    BY <2>3 DEF longjmp, c
  <2>5. Landed(w.call[n], w.haderr) = l  BY <1>12 DEF l
  <2>6. Append(SubSeq(w.call, 1, n - 1), Landed(w.call[n], w.haderr)) = L  BY <1>12, <2>5
  <2> HIDE DEF L
  <2>. QED BY <2>4, <2>6
<1> HIDE DEF L
<1>14. /\ DOMAIN r = Fields /\ r.call = L /\ \A g \in Core \ {"call", "aborted"} : r[g] = w[g]
       /\ r.aborted = w.aborted /\ r.haderr = t.haderr /\ r.cs = w.cs
  BY <1>12 DEF Core, Fields
<1> HIDE DEF r
<1>15. IsSeq(L) /\ Len(L) = n /\ L[n] = l /\ \A i \in 1 .. n - 1 : L[i] = t.call[i]
  <2> DEFINE k == n - 1
             p == SubSeq(t.call, 1, k)
  <2>1. k \in 0 .. n /\ k \in Nat /\ k + 1 = n /\ L = Append(p, l)  BY <1>1 DEF L
  <2>2. IsSeq(p) /\ Len(p) = k /\ \A i \in 1 .. k : p[i] = t.call[i]  BY <2>1, SubSeqIs
  <2> HIDE DEF k, p
  <2>3. IsSeq(L) /\ Len(L) = k + 1 /\ L[k + 1] = l /\ \A i \in 1 .. k : L[i] = p[i]
    <3>1. Longer(Append(p, l), p, l)  BY <2>2, AppendIs
    <3>. QED BY <2>1, <2>2, <3>1 DEF Longer
  <2>4. IsSeq(L) /\ Len(L) = n /\ L[n] = l /\ \A i \in 1 .. k : L[i] = t.call[i]
    BY <2>1, <2>2, <2>3
  <2>. QED BY <2>4 DEF k
<1>16. Data(r) /\ EnvOf(r) = EnvOf(w)  BY <1>12, <1>14, DataLike
<1>17. EnvOf(w) = [v EXCEPT !.m = t.mark] /\ \A i \in 1 .. v.b : w.cs[i] = t.cs[i]  BY <1>9 DEF Cut
<1>18. ResetTo(r, t, n, v)  BY <1>12, <1>14, <1>15, <1>16, <1>17 DEF ResetTo, l
<1>. QED BY <1>11, <1>13, <1>18 DEF reset

LEMMA LandSound ==
  ASSUME NEW s, NEW e, Data(s), Stack(s, e), s.call # <<>>, Catches(Top(s)),
         NEW t, Over(t, s), Top(s).k # "B",
         t.call = s.call \/ t.call = [s.call EXCEPT ![Len(s.call)] = Fails(Top(s))]
  PROVE  Sound(reset(t))
<1> DEFINE n == Len(s.call)
           a == e[n]
           f == t.call[n]
           w == Unwound(t, Len(t.cs) - t.mark)
           l == Landed(f, t.haderr)
           r == reset(t)
<1>1. /\ n \in Nat /\ n > 0 /\ DOMAIN s.call = 1 .. n /\ Top(s) = s.call[n] /\ n \in 1 .. n /\ Top(s) \in Frames
      /\ Frame(Top(s), n, s.cs, a, EnvOf(s)) /\ IsSeq(s.call) /\ Top(s).omark = a.m
  BY StackIs
<1>2. /\ IsSeq(t.call) /\ Len(t.call) = n /\ \A i \in 1 .. n - 1 : t.call[i] = s.call[i]
      /\ f \in {Top(s), Fails(Top(s))}
  <2>1. CASE t.call = s.call
    <3>1. \A i \in 1 .. n - 1 : t.call[i] = s.call[i]  BY <2>1
    <3>. QED BY <1>1, <2>1, <3>1
  <2>2. CASE t.call = [s.call EXCEPT ![n] = Fails(Top(s))]
    <3>1. \A i \in 1 .. n - 1 : i \in 1 .. n /\ i # n  BY <1>1
    <3> DEFINE v == Fails(Top(s))
    <3>2. t.call = [s.call EXCEPT ![n] = v]  BY <2>2
    <3> HIDE DEF n, v
    <3>3. Replaced(Put(s.call, n, v), s.call, n, v)
      <4>1. IsSeq(s.call) /\ n \in 1 .. Len(s.call)  BY <1>1 DEF n
      <4>. QED BY <4>1, ExceptIs
    <3>4. Put(s.call, n, v) = t.call  BY <3>2 DEF Put
    <3>5. IsSeq(t.call) /\ Len(t.call) = n /\ t.call[n] = v /\ \A i \in 1 .. n : i # n => t.call[i] = s.call[i]
      BY <3>3, <3>4 DEF Replaced, n
    <3>. QED BY <3>1, <3>5 DEF v
  <2>. QED BY <2>1, <2>2
<1> HIDE DEF f
<1> HIDE DEF l
<1>3. f \in Frames /\ f.k = Top(s).k /\ f.at = Top(s).at /\ f.omark = a.m /\ (f.k = "P" => f.catch = Top(s).catch)
  <2> DEFINE p == Top(s)
  <2>1. p \in Frames /\ p.k # "B" /\ f \in {p, Fails(p)} /\ p.omark = a.m  BY <1>1, <1>2
  <2> HIDE DEF p
  <2>2. f.k = p.k /\ f.at = p.at /\ f.omark = p.omark /\ f \in Frames /\ (p.k = "P" => f.catch = p.catch)
    BY <2>1, FailsIs
  <2>. QED BY <2>1, <2>2 DEF p
<1>4. Catches(f) /\ t.haderr \in BOOLEAN /\ Data(t)  BY <1>3, DataIs DEF Catches, Over
<1>5. /\ l \in Frames /\ l.k = f.k /\ Handles(l) /\ l.omark = f.omark
      /\ l.k = "P" => l.at = "top" /\ l.catch = f.catch /\ (l.failed => t.haderr)
      /\ l.k = "H" => l.at = "after"
  <2> DEFINE err == t.haderr
  <2>1. err \in BOOLEAN /\ Catches(f) /\ f \in Frames /\ f.k # "B"  BY <1>3, <1>4
  <2>2. l = Landed(f, err)  BY DEF l
  <2> HIDE DEF err
  <2>3. /\ l \in Frames /\ l.k = f.k /\ Handles(l) /\ l.omark = f.omark
        /\ (f.k = "P" => l.at = "top" /\ l.catch = f.catch /\ (l.failed => err))
        /\ (f.k = "H" => l.at = "after")
    BY <2>1, <2>2, LandedIs
  <2>. QED BY <2>3 DEF err
<1>6. Cut(Unwound(t, Len(t.cs) - Len(s.cs)), t, EnvOf(s))  BY OverCut
<1>7. /\ EnvOf(s).b = Len(s.cs) /\ EnvOf(s).m = s.mark /\ t.mark = s.mark /\ Len(s.cs) \in Nat /\ s.mark \in Nat
      /\ IsSeq(t.cs) /\ Len(t.cs) \in Nat /\ Len(t.cs) >= Len(s.cs) /\ \A i \in 1 .. Len(s.cs) : t.cs[i] = s.cs[i]
  BY <1>4, EnvOfIs, DataIs DEF Over
<1>8. Frame(Top(s), n, t.cs, a, EnvOf(s))  BY <1>1, <1>7, FrameKept
<1> DEFINE v == IF f.k = "P" THEN a ELSE EnvOf(s)
<1>9. Cut(w, t, v) /\ v.b = t.mark
  <2>1. CASE f.k = "P"
    <3>1. Cut(Unwound(t, Len(t.cs) - a.b), t, a)  BY <1>6, <1>7, <1>8, Undone
    <3>2. a.b = EnvOf(s).m
      <4>1. Top(s).k = "P"  BY <1>3, <2>1
      <4>. QED BY <1>1, <4>1, FrameEnv
    <3>. QED BY <1>7, <2>1, <3>1, <3>2
  <2>2. CASE f.k = "H"
    <3>1. EnvOf(s).m = EnvOf(s).b
      <4>1. Top(s).k = "H"  BY <1>3, <2>2
      <4>. QED BY <1>1, <4>1, FrameEnv
    <3>2. Len(s.cs) = t.mark  BY <1>7, <3>1
    <3>. QED BY <1>6, <1>7, <2>2, <3>2
  <2>. QED BY <1>3, <2>1, <2>2 DEF Frames, Processes, Hooks, Builtins
<1>10. ResetTo(r, t, n, v)  BY <1>1, <1>2, <1>4, <1>9, ResetIs DEF f
<1> HIDE DEF r
<1>14. /\ r.haderr = t.haderr /\ r.aborted = t.aborted /\ Data(r) /\ EnvOf(r) = [v EXCEPT !.m = t.mark]
       /\ IsSeq(r.call) /\ Len(r.call) = n /\ r.call[n] = l
  BY <1>10 DEF ResetTo, l, f
<1>15. \A i \in 1 .. n - 1 : r.call[i] = s.call[i]  BY <1>2, <1>10 DEF ResetTo
<1>17. v \in Envs /\ \A i \in 1 .. v.b : r.cs[i] = t.cs[i]  BY <1>9, <1>10 DEF Cut, ResetTo
<1> HIDE DEF v, w
<1>18. a \in Envs /\ a.b \in Nat /\ a.b <= Len(s.cs) /\ a.b <= v.b /\ v.b <= Len(s.cs) /\ v.b \in Nat
  <2>1. a \in Envs /\ a.b \in Nat /\ a.b <= EnvOf(s).b  BY <1>1, FrameEnv
  <2>. QED BY <1>7, <2>1 DEF v
<1>16. EnvOf(r) = [v EXCEPT !.m = t.mark]  BY <1>14
<1>19. \A i \in 1 .. a.b : r.cs[i] = s.cs[i]
  <2>1. \A i \in 1 .. a.b : i \in 1 .. v.b /\ i \in 1 .. Len(s.cs)  BY <1>7, <1>18
  <2>. QED BY <1>7, <1>17, <2>1
<1>20. Frame(l, n, r.cs, a, EnvOf(r))
  <2>1. CASE f.k = "P"
    <3>1. EnvOf(r) = [a EXCEPT !.m = a.b]  BY <1>9, <1>16, <1>17, <2>1 DEF v
    <3>2. EnvOf(r) \in Envs /\ EnvOf(r).b = a.b  BY <1>18, <3>1 DEF Envs
    <3>3. EnvOf(r) = [a EXCEPT !.b = EnvOf(r).b, !.m = a.b]  BY <1>18, <3>1, <3>2 DEF Envs
    <3>. QED BY <1>3, <1>5, <1>18, <2>1, <3>2, <3>3 DEF Frame, Pushed, Doomed
  <2>2. CASE f.k = "H"
    <3>1. EnvOf(r) = EnvOf(s)
      <4>1. EnvOf(s) \in Envs /\ EnvOf(s).m = t.mark /\ v = EnvOf(s)  BY <1>7, <2>2, DataIs DEF v
      <4>2. EnvOf(r) = [EnvOf(s) EXCEPT !.m = t.mark]  BY <1>16, <1>17, <4>1
      <4>. QED BY <4>1, <4>2 DEF Envs
    <3>2. \A i \in 1 .. EnvOf(s).b : r.cs[i] = t.cs[i]  BY <1>17, <2>2 DEF v
    <3>3. Frame(Top(s), n, r.cs, a, EnvOf(s))  BY <1>8, <3>2, FrameKept
    <3>. QED BY <1>3, <1>5, <2>2, <3>1, <3>3 DEF Frame, Pushed, Doomed
  <2>. QED BY <1>3, <2>1, <2>2 DEF Frames, Processes, Hooks, Builtins
<1>21. \E g : Stack(r, g)
  <2> DEFINE k == n - 1
  <2>1. k \in 0 .. n /\ k + 1 = n /\ (k > 0 => k \in 1 .. n - 1)  BY <1>1
  <2>2. Chain(s.call, s.cs, e, n)  BY DEF Stack
  <2>3. k > 0 => Calls(s.call[k], l)
    <3>1. k > 0 => Calls(s.call[k], s.call[k + 1])  BY <2>1, <2>2, ChainIs
    <3>. QED BY <1>1, <1>3, <1>5, <2>1, <3>1, CallsSame
  <2>4. k = 0 => l.k = "P" /\ l.catch
    <3>1. k = 0 => n = 1  BY <2>1
    <3>2. s.call[1].k = "P" /\ s.call[1].catch  BY <1>1, <2>2, ChainIs
    <3>. QED BY <1>1, <1>3, <1>5, <3>1, <3>2
  <2> HIDE DEF k
  <2>5. \A i \in 1 .. k : r.call[i] = s.call[i]
    <3>1. \A i \in 1 .. k : i \in 1 .. n - 1  BY DEF k
    <3>. QED BY <1>14, <1>15, <3>1
  <2>6. /\ IsSeq(r.call) /\ Len(r.call) = k + 1 /\ r.call[k + 1] = l
        /\ Frame(r.call[k + 1], k + 1, r.cs, e[k + 1], EnvOf(r)) /\ \A i \in 1 .. e[k + 1].b : r.cs[i] = s.cs[i]
    BY <1>14, <1>19, <1>20, <2>1
  <2>7. k = 0 => r.call[1] = l  BY <2>1, <2>6
  <2>8. k > 0 => Calls(s.call[k], r.call[k + 1])  BY <2>3, <2>6
  <2>9. k = 0 => r.call[1].k = "P" /\ r.call[1].catch  BY <2>4, <2>7
  <2>10. Rebuilds(s.call, s.cs, e, n, k, r)  BY <2>1, <2>5, <2>6, <2>8, <2>9 DEF Rebuilds
  <2>. QED BY ONLY <2>2, <2>10, Rebuilt
<1>22. Handled(r)
  <2>1. Top(r) = l  BY <1>14 DEF Top
  <2>2. r.call # <<>>
    <3>1. Len(r.call) > 0  BY <1>1, <1>14
    <3>2. r.call = <<>> => Len(r.call) = 0  OBVIOUS
    <3>. QED BY <3>1, <3>2
  <2>. QED BY <1>5, <1>14, <2>1, <2>2 DEF Handled
<1>23. ~r.aborted  BY <1>14 DEF Over
<1>. QED BY <1>14, <1>21, <1>22, <1>23 DEF Sound, r

\* The same in a builtin: its line is the one that reset() unwinds.
LEMMA LandBuiltin ==
  ASSUME NEW s, NEW e, Data(s), Stack(s, e), s.call # <<>>, Top(s).k = "B", NEW t, Over(t, s),
         \/ t.call = s.call
         \/ t.call = [s.call EXCEPT ![Len(s.call) - 1] = Fails(s.call[Len(s.call) - 1])]
  PROVE  Sound(reset(t))
<1> DEFINE n == Len(s.call)
           p == s.call[n - 1]
           a == e[n - 1]
           b == e[n]
           f == Top(s)
           g == t.call[n - 1]
           w == Unwound(t, Len(t.cs) - t.mark)
           l == Landed(f, t.haderr)
           r == reset(t)
<1>1. /\ n \in Nat /\ f = s.call[n] /\ f \in Frames /\ Frame(f, n, s.cs, b, EnvOf(s)) /\ IsSeq(s.call)
      /\ n - 1 \in 1 .. n /\ n - 1 # n /\ p.k \in {"P", "H"} /\ p.at = "run" /\ p \in Frames
      /\ Frame(p, n - 1, s.cs, a, b)
  BY StackIs, BuiltinOver
<1>2. /\ IsSeq(t.call) /\ Len(t.call) = n /\ \A i \in 1 .. n : i # n - 1 => t.call[i] = s.call[i]
      /\ g \in {p, Fails(p)}
  <2>1. CASE t.call = s.call
    <3>1. g = p /\ \A i \in 1 .. n : i # n - 1 => t.call[i] = s.call[i]  BY <2>1
    <3>. QED BY <1>1, <2>1, <3>1
  <2>2. CASE t.call = [s.call EXCEPT ![n - 1] = Fails(s.call[n - 1])]
    <3> DEFINE v == Fails(p)
               j == n - 1
    <3>2. t.call = [s.call EXCEPT ![j] = v]  BY <2>2
    <3>3. Replaced(Put(s.call, j, v), s.call, j, v)
      <4>1. IsSeq(s.call) /\ j \in 1 .. Len(s.call)  BY <1>1
      <4> HIDE DEF v, j
      <4>. QED BY <4>1, ExceptIs
    <3>4. Put(s.call, j, v) = t.call  BY <3>2 DEF Put
    <3> HIDE DEF v
    <3>5. IsSeq(t.call) /\ Len(t.call) = n /\ t.call[j] = v /\ \A i \in 1 .. n : i # j => t.call[i] = s.call[i]
      <4> HIDE DEF j
      <4>. QED BY <3>3, <3>4 DEF Replaced
    <3>. QED BY <3>5 DEF v
  <2>. QED BY <2>1, <2>2
<1>3. n >= 2 /\ n \in 1 .. n /\ t.call[n] = f
  <2>1. n >= 2 /\ n \in 1 .. n
    <3> HIDE DEF n
    <3>. QED BY <1>1
  <2>. QED BY <1>1, <1>2, <2>1
<1> HIDE DEF g, f
<1>4. g \in Frames /\ g.k = p.k /\ g.at = "run" /\ g.omark = p.omark /\ (p.k = "P" => g.catch = p.catch)
  <2>1. p \in Frames /\ p.k # "B" /\ g \in {p, Fails(p)}  BY <1>1, <1>2
  <2>2. g.k = p.k /\ g.at = p.at /\ g.omark = p.omark /\ g \in Frames /\ (p.k = "P" => g.catch = p.catch)
    <3> HIDE DEF p
    <3>. QED BY <2>1, FailsIs
  <2>. QED BY <1>1, <2>2
<1>5. f.k = "B" /\ Catches(f) /\ t.haderr \in BOOLEAN /\ Data(t) /\ t.mark = s.mark  BY DataIs DEF Catches, Over, f
<1>6. l \in Frames /\ l.k = "B" /\ l.at \in {"after", "failed"} /\ Handles(l)
  <2> DEFINE err == t.haderr
  <2>1. err \in BOOLEAN /\ Catches(f) /\ f \in Frames  BY <1>1, <1>5
  <2> HIDE DEF err
  <2>2. Landed(f, err) \in Frames /\ Landed(f, err).k = f.k /\ Handles(Landed(f, err))  BY <2>1, LandedIs
  <2>3. Landed(f, err).at \in {"after", "failed"}  BY <1>5, <2>1, LandedIs
  <2>. QED BY <1>5, <2>2, <2>3 DEF err
<1> HIDE DEF l
<1>7. Cut(Unwound(t, Len(t.cs) - Len(s.cs)), t, EnvOf(s))  BY OverCut
<1>8. /\ EnvOf(s).b = Len(s.cs) /\ EnvOf(s).m = s.mark /\ Len(s.cs) \in Nat /\ IsSeq(t.cs)
      /\ \A i \in 1 .. Len(s.cs) : t.cs[i] = s.cs[i]
  BY <1>5, EnvOfIs, DataIs DEF Over
<1>9. Frame(f, n, t.cs, b, EnvOf(s))  BY <1>1, <1>8, FrameKept
<1>10. b.b \in Nat /\ b.b <= EnvOf(s).b /\ EnvOf(s).m = b.m  BY <1>5, <1>9, FrameEnv
<1>11. Frame(p, n - 1, t.cs, a, b)
  <2>1. \A i \in 1 .. b.b : i \in 1 .. Len(s.cs)  BY <1>8, <1>10
  <2>2. \A i \in 1 .. b.b : t.cs[i] = s.cs[i]  BY <1>8, <2>1
  <2>. QED BY <1>1, <2>2, FrameKept
<1>12. Cut(Unwound(t, Len(t.cs) - b.b), t, b)
  <2>1. Cut(Unwound(t, Len(t.cs) - EnvOf(s).b), t, EnvOf(s))  BY <1>7, <1>8
  <2> HIDE DEF b, n
  <2>. QED BY <1>8, <1>9, <2>1, Undone
<1> DEFINE v == IF p.k = "P" THEN a ELSE b
<1>13. Cut(w, t, v) /\ v.b = t.mark
  <2>1. CASE p.k = "P"
    <3>1. Cut(Unwound(t, Len(t.cs) - a.b), t, a)
      <4> HIDE DEF p, a, b, n
      <4>. QED BY <1>8, <1>11, <1>12, Undone
    <3>2. b.m = a.b
      <4> HIDE DEF p, a, b, n
      <4>. QED BY <1>11, <2>1, FrameEnv
    <3>. QED BY <1>5, <1>8, <1>10, <2>1, <3>1, <3>2
  <2>2. CASE p.k = "H"
    <3>1. b.m = b.b
      <4> HIDE DEF p, a, b, n
      <4>. QED BY <1>11, <2>2, FrameEnv
    <3>. QED BY <1>5, <1>8, <1>10, <1>12, <2>2, <3>1
  <2>. QED BY <1>1, <2>1, <2>2
<1>14. ResetTo(r, t, n, v)
  <2>1. n > 0 /\ Catches(t.call[n])  BY <1>3, <1>5
  <2>. QED BY <1>2, <1>13, <2>1, ResetIs
<1> HIDE DEF r
<1>15. /\ r.haderr = t.haderr /\ r.aborted = t.aborted /\ Data(r) /\ EnvOf(r) = [v EXCEPT !.m = t.mark]
       /\ IsSeq(r.call) /\ Len(r.call) = n /\ r.call[n] = l
       /\ (\A i \in 1 .. n - 1 : r.call[i] = t.call[i]) /\ \A i \in 1 .. v.b : r.cs[i] = t.cs[i]
  BY <1>3, <1>14 DEF ResetTo, l
<1> DEFINE c == EnvOf(r)
           e2 == Higher(e, n - 2, c)
<1>16. a \in Envs /\ b \in Envs /\ a.b \in Nat /\ a.b <= b.b
  <2> HIDE DEF p, a, b, n
  <2>. QED BY <1>11, FrameEnv
<1>17. v.b \in Nat /\ a.b <= v.b /\ v.b <= b.b  BY <1>10, <1>16
<1>18. Frame(g, n - 1, r.cs, a, c)
  <2>1. CASE p.k = "P"
    <3>1. c = [a EXCEPT !.m = a.b]  BY <1>13, <1>15, <2>1
    <3>2. c \in Envs /\ c.b = a.b /\ c = [a EXCEPT !.b = c.b, !.m = a.b]
      <4> HIDE DEF a, c
      <4>. QED BY <1>16, <3>1 DEF Envs
    <3>3. p.omark = a.m  BY <1>11, <2>1 DEF Frame
    <3> HIDE DEF a, c, p
    <3>. QED BY <1>4, <1>16, <2>1, <3>2, <3>3 DEF Frame, Pushed, Doomed
  <2>2. CASE p.k = "H"
    <3>1. c = b
      <4>1. b.m = t.mark  BY <1>5, <1>8, <1>10
      <4>2. c = [b EXCEPT !.m = t.mark]  BY <1>15, <2>2
      <4> HIDE DEF b, c
      <4>. QED BY <1>16, <4>1, <4>2 DEF Envs
    <3>2. \A i \in 1 .. b.b : r.cs[i] = t.cs[i]  BY <1>15, <2>2
    <3> HIDE DEF a, b, c, p, n
    <3>3. Frame(p, n - 1, r.cs, a, b)  BY <1>11, <3>2, FrameKept
    <3>. QED BY <1>4, <2>2, <3>1, <3>3 DEF Frame, Pushed, Doomed
  <2>. QED BY <1>1, <2>1, <2>2
<1>19. Frame(l, n, r.cs, c, c)
  <2>1. c \in Envs  BY <1>15, DataIs
  <2> HIDE DEF c, n
  <2>. QED BY <1>6, <2>1 DEF Frame, Pushed, Doomed
<1>20. Chain(r.call, r.cs, e, n - 2)
  <2> DEFINE k == n - 2
  <2>1. k \in 0 .. n /\ k + 1 = n - 1 /\ \A i \in 1 .. k : i \in 1 .. n - 1 /\ i \in 1 .. n /\ i # n - 1
    <3> HIDE DEF n
    <3>. QED BY <1>1, <1>3
  <2>2. \A i \in 1 .. k : r.call[i] = s.call[i]  BY <1>2, <1>15, <2>1
  <2>3. \A i \in 1 .. e[k + 1].b : r.cs[i] = s.cs[i]
    <3>1. \A i \in 1 .. a.b : i \in 1 .. v.b /\ i \in 1 .. Len(s.cs)  BY <1>8, <1>10, <1>16, <1>17
    <3>. QED BY <1>8, <1>15, <2>1, <3>1
  <2>4. Chain(s.call, s.cs, e, n)  BY DEF Stack
  <2> HIDE DEF n, k
  <2>5. Chain(r.call, r.cs, e, k)  BY <2>1, <2>2, <2>3, <2>4, ChainKept
  <2>. QED BY <2>5 DEF k
<1>21. Chain(r.call, r.cs, e2, n - 1)
  <2> DEFINE k == n - 2
  <2>1. k \in Nat /\ k + 1 = n - 1 /\ (k > 0 => k \in 1 .. n - 1 /\ k \in 1 .. n /\ k # n - 1) /\ n - 1 \in 1 .. n - 1
    <3> HIDE DEF n
    <3>. QED BY <1>1, <1>3
  <2>2. r.call[k + 1] = g  BY <1>15, <2>1 DEF g
  <2>3. Chain(s.call, s.cs, e, n)  BY DEF Stack
  <2>4. k > 0 => Calls(r.call[k], g)
    <3>1. k > 0 => Calls(s.call[k], s.call[k + 1])  BY <2>1, <2>3, ChainIs
    <3>2. k > 0 => r.call[k] = s.call[k]  BY <1>2, <1>15, <2>1
    <3>3. k > 0 => Calls(s.call[k], p)  BY <2>1, <3>1
    <3>. QED BY <1>4, <3>2, <3>3, CallsSame
  <2>5. k = 0 => r.call[1].k = "P" /\ r.call[1].catch
    <3>1. s.call[1].k = "P" /\ s.call[1].catch  BY <1>3, <2>3, ChainIs
    <3>2. k = 0 => n - 1 = 1 /\ k + 1 = 1
      <4> HIDE DEF n
      <4>. QED BY <1>1
    <3>3. ASSUME k = 0 PROVE r.call[1] = g /\ p = s.call[1]
      <4>1. n - 1 = 1 /\ k + 1 = 1  BY <3>2, <3>3
      <4>2. p = s.call[1]  BY <4>1
      <4> HIDE DEF n, k, p
      <4>. QED BY <2>2, <4>1, <4>2
    <3>. QED BY <1>4, <3>1, <3>3
  <2>6. Frame(r.call[k + 1], k + 1, r.cs, e[k + 1], c)  BY <1>18, <2>1, <2>2
  <2>7. Pushes(r.call, r.cs, e, k, r.call, c)  BY <2>2, <2>4, <2>5, <2>6 DEF Pushes
  <2>8. Chain(r.call, r.cs, Higher(e, k, c), k + 1)
    <3> HIDE DEF n, k, c
    <3>1. Chain(r.call, r.cs, e, k)  BY <1>20 DEF k
    <3>. QED BY ONLY <2>7, <3>1, ChainPush
  <2>. QED BY <2>1, <2>8
<1>22. Stack(r, Higher(e2, n - 1, c))
  <2> DEFINE k == n - 1
  <2>1. k \in Nat /\ k + 1 = n /\ k > 0 /\ k \in 1 .. n - 1 /\ n \in Nat /\ n = n - 2 + 2 /\ k + 2 = n + 1
    <3> HIDE DEF n
    <3>. QED BY <1>1, <1>3
  <2>2. e \in [Nat -> Envs]  BY ChainIs DEF Stack
  <2>3. e2[n] = c  BY <2>1, <2>2 DEF Higher
  <2> HIDE DEF e2
  <2>4. r.call[k] = g /\ r.call[k + 1] = l  BY <1>15, <2>1 DEF g
  <2>5. Calls(g, l)  BY <1>1, <1>4, <1>6 DEF Calls
  <2>10. Frame(r.call[k + 1], k + 1, r.cs, e2[k + 1], c)
    <3>1. k + 1 = n  BY <2>1
    <3> HIDE DEF k, n, c
    <3>. QED BY <1>19, <2>3, <2>4, <3>1
  <2>6. Pushes(r.call, r.cs, e2, k, r.call, c)
    <3> HIDE DEF k, n, c
    <3>. QED BY <2>1, <2>4, <2>5, <2>10 DEF Pushes
  <2>7. Chain(r.call, r.cs, Higher(e2, k, c), k + 1)
    <3> HIDE DEF n, k, c
    <3>1. Chain(r.call, r.cs, e2, k)  BY <1>21 DEF k
    <3>. QED BY ONLY <2>6, <3>1, ChainPush
  <2>8. e2 \in [Nat -> Envs]
    <3>1. Chain(r.call, r.cs, e2, n - 1)  BY <1>21
    <3>. QED BY <3>1, ChainIs
  <2>9. Higher(e2, k, c)[n + 1] = c  BY <2>1, <2>8 DEF Higher
  <2>. QED BY <1>15, <2>1, <2>7, <2>9 DEF Stack
<1>23. Handled(r)
  <2>1. Top(r) = l  BY <1>15 DEF Top
  <2>2. r.call # <<>>
    <3>1. Len(r.call) > 0  BY <1>3, <1>15
    <3>2. r.call = <<>> => Len(r.call) = 0  OBVIOUS
    <3>. QED BY <3>1, <3>2
  <2>. QED BY <1>6, <2>1, <2>2 DEF Handled
<1>24. ~r.aborted  BY <1>15 DEF Over
<1>. QED BY <1>15, <1>22, <1>23, <1>24 DEF Sound, r
-----------------------------------------------------------------------------
(* Errors and interrupts. *)

LEMMA DataBy ==
  ASSUME NEW s, DOMAIN s = Fields, IsSeq(s.cs), s.mark \in Nat, s.pintr_disabled \in Int, s.fnlvl \in Int,
         Input(s), s.evalvec \in EvalLines, s.haderr \in BOOLEAN, s.justpr \in BOOLEAN,
         \A h \in DOMAIN s.aliases : s.aliases[h] \in Lines
  PROVE  Data(s)
<1>1. EnvOf(s) \in Envs
  <2>1. Len(s.cs) \in Nat /\ s.insource \in {0, 1, 2}  BY SeqLen DEF Input
  <2>. QED BY <2>1 DEF EnvOf, Env, Envs
<1>. QED BY <1>1 DEF Data

LEMMA OverLike ==
  ASSUME NEW s, NEW t, Over(t, s), NEW r, Data(r), r.aborted = t.aborted, r.mark = t.mark, r.fnlvl = t.fnlvl,
         r.insource = t.insource, r.cs = t.cs, r.pintr_disabled = t.pintr_disabled
  PROVE  Over(r, s)
BY DEF Over

LEMMA OverSelf ==
  ASSUME NEW s, Data(s), ~s.aborted
  PROVE  Over(s, s)
<1>1. Len(s.cs) \in Nat  BY DataIs
<1>. QED BY <1>1 DEF Over

\* Changes of the fields of s that r leaves of F.
Same(r, s, F) == DOMAIN r = Fields /\ \A f \in Fields \ F : r[f] = s[f]

LEMMA SameOnly ==
  ASSUME NEW s, NEW r, DOMAIN s = Fields, NEW F, Only(r, s, F)
  PROVE  Same(r, s, F)
BY DEF Only, Same

LEMMA SameTrans ==
  ASSUME NEW s, NEW r, NEW q, NEW F, NEW G, NEW H, Same(r, s, F), Same(q, r, G), F \subseteq H, G \subseteq H
  PROVE  Same(q, s, H)
BY DEF Same

Moved(a, p, f) == [a EXCEPT !.pos = p, !.feob = f]

LEMMA ArenaAt ==
  ASSUME NEW a \in Arenas, NEW p \in Nat, NEW f \in Nat, p <= Len(Text(a)), f <= Len(Text(a))
  PROVE  Moved(a, p, f) \in Arenas /\ Moved(a, p, f).kind = a.kind
<1> DEFINE b == [a EXCEPT !.pos = p, !.feob = f]
<1>1. b.kind = a.kind /\ b.name = a.name /\ b.pos = p /\ b.feob = f  BY DEF Arenas
<1>2. b \in [kind : {"tty", "file", "func"}, name : Names, pos : Nat, feob : Nat]  BY DEF Arenas
<1> HIDE DEF b
<1>3. Text(b) = Text(a)  BY <1>1 DEF Text
<1>4. a.kind = "file" => a.name \in DOMAIN Files  BY DEF Arenas
<1>5. a.kind = "func" => a.name \in DOMAIN Functions  BY DEF Arenas
<1>6. b \in Arenas  BY <1>1, <1>2, <1>3, <1>4, <1>5 DEF Arenas
<1>. QED BY <1>1, <1>6 DEF b, Moved

LEMMA BtoeofIs ==
  ASSUME NEW s, Data(s)
  PROVE  Same(btoeof(s), s, {"arena", "evalvec"}) /\ Data(btoeof(s))
<1> DEFINE r == btoeof(s)
           a == s.arena
           b == Moved(a, a.feob, a.feob)
<1>1. DOMAIN s = Fields /\ a \in Arenas /\ Input(s)  BY DEF Data, Input
<1>2. a.feob \in Nat /\ a.feob <= Len(Text(a))  BY <1>1 DEF Arenas
<1>3. b \in Arenas /\ b.kind = a.kind  BY <1>1, <1>2, ArenaAt
<1>4. [a EXCEPT !.pos = a.feob] = b  BY <1>1 DEF Arenas, Moved
<1> HIDE DEF b
<1>5. r = [s EXCEPT !.arena = b, !.evalvec = NoEval]
  <2>1. r = [s EXCEPT !.arena = [a EXCEPT !.pos = a.feob], !.evalvec = NoEval]  BY DEF btoeof
  <2>. QED BY <1>4, <2>1
<1> HIDE DEF r
<1>6. Same(r, s, {"arena", "evalvec"}) /\ r.arena = b /\ r.evalvec = NoEval  BY <1>1, <1>5 DEF Same, Fields, Core
<1>7. /\ r.cs = s.cs /\ r.mark = s.mark /\ r.pintr_disabled = s.pintr_disabled /\ r.fnlvl = s.fnlvl
      /\ r.insource = s.insource /\ r.haderr = s.haderr /\ r.justpr = s.justpr /\ r.aliases = s.aliases
      /\ r.enterhist = s.enterhist /\ r.intty = s.intty /\ r.gointr = s.gointr
  BY <1>6 DEF Same, Fields, Core
<1>8. NoEval \in EvalLines
  <2>1. <<>> \in Seq(Lines)  OBVIOUS
  <2>. QED BY <2>1 DEF NoEval, EvalLines
<1>9. Input(r)  BY <1>1, <1>3, <1>6, <1>7 DEF Input
<1>10. DOMAIN r = Fields  BY <1>6 DEF Same
<1>11. Data(r)  BY <1>6, <1>7, <1>8, <1>9, <1>10, DataIs, DataBy
<1>. QED BY <1>6, <1>11 DEF r

LEMMA ResetSound ==
  ASSUME NEW s, Ready(s), NEW t, Over(t, s),
         t.call = s.call \/ t.call = [s.call EXCEPT ![Inner(s)] = Fails(s.call[Inner(s)])]
  PROVE  Sound(reset(t))
<1>1. Data(s) /\ s.call # <<>> /\ Catches(Top(s))  BY DEF Ready
<1>2. PICK e : Stack(s, e)  BY DEF Ready
<1>3. CASE Top(s).k = "B"
  <2>1. Inner(s) = Len(s.call) - 1  BY <1>3 DEF Inner
  <2>. QED BY <1>1, <1>2, <1>3, <2>1, LandBuiltin
<1>4. CASE Top(s).k # "B"
  <2>1. Inner(s) = Len(s.call) /\ s.call[Len(s.call)] = Top(s)  BY <1>4 DEF Inner, Top
  <2>. QED BY <1>1, <1>2, <1>4, <2>1, LandSound
<1>. QED BY <1>3, <1>4

LEMMA StderrorSound ==
  ASSUME NEW s, Ready(s), NEW t, Over(t, s), t.call = s.call, NEW silent \in BOOLEAN
  PROVE  Sound(stderror(t, silent))
<1> DEFINE u == [t EXCEPT !.haderr = TRUE]
           q == IF silent THEN t ELSE Failed(u)
           d == [q EXCEPT !.didfds = FALSE]
           r == btoeof(d)
           g == [s.call EXCEPT ![Inner(s)] = Fails(s.call[Inner(s)])]
<1>1. Data(t) /\ DOMAIN t = Fields  BY DEF Over, Data
<1>2. Same(u, t, {"haderr"}) /\ u.haderr = TRUE  BY <1>1 DEF Same, Fields, Core
<1>3. PICK e : Stack(s, e) /\ s.call # <<>>  BY DEF Ready
<1> HIDE DEF u, g
<1>4. Failed(u) = [u EXCEPT !.call = g]
  <2>1. u.call = s.call /\ DOMAIN u = Fields  BY <1>2 DEF Same, Fields, Core
  <2>2. Failed(u) = [u EXCEPT !.call = [@ EXCEPT ![Inner(s)] = Fails(s.call[Inner(s)])]]  BY <1>3, <2>1, FailedIs
  <2>. QED BY <2>1, <2>2 DEF g
<1>5. Same(q, t, {"haderr", "call"}) /\ q.haderr \in BOOLEAN /\ q.call \in {s.call, g}
  <2>1. CASE silent
    <3>1. q = t  BY <2>1
    <3>. QED BY <1>1, <3>1, DataIs DEF Same
  <2>2. CASE ~silent
    <3>1. q = [u EXCEPT !.call = g]  BY <1>4, <2>2
    <3> HIDE DEF q
    <3>. QED BY <1>2, <3>1 DEF Same, Fields, Core
  <2>. QED BY <2>1, <2>2
<1> HIDE DEF q
<1>6. Same(d, t, {"haderr", "call", "didfds"}) /\ d.haderr = q.haderr /\ d.call = q.call
  BY <1>5 DEF Same, Fields, Core, Streams3
<1> HIDE DEF d
<1>7. Data(d)
  <2>1. /\ d.cs = t.cs /\ d.mark = t.mark /\ d.pintr_disabled = t.pintr_disabled /\ d.fnlvl = t.fnlvl
        /\ d.insource = t.insource /\ d.justpr = t.justpr /\ d.aliases = t.aliases /\ d.evalvec = t.evalvec
        /\ d.enterhist = t.enterhist /\ d.intty = t.intty /\ d.gointr = t.gointr /\ d.arena = t.arena /\ DOMAIN d = Fields
    BY <1>6 DEF Same, Fields, Core
  <2>2. Input(t)  BY <1>1 DEF Data
  <2>3. Input(d)  BY <2>1, <2>2 DEF Input
  <2>. QED BY <1>1, <1>5, <1>6, <2>1, <2>3, DataIs, DataBy
<1>8. Same(r, d, {"arena", "evalvec"}) /\ Data(r)  BY <1>7, BtoeofIs
<1> HIDE DEF r
<1>9. /\ r.aborted = t.aborted /\ r.mark = t.mark /\ r.fnlvl = t.fnlvl /\ r.insource = t.insource /\ r.cs = t.cs
      /\ r.pintr_disabled = t.pintr_disabled /\ r.call = d.call
  BY <1>6, <1>8 DEF Same, Fields, Core
<1>10. Over(r, s)  BY <1>8, <1>9, OverLike
<1>11. r.call = s.call \/ r.call = g  BY <1>5, <1>6, <1>9
<1>12. Sound(reset(r))  BY <1>10, <1>11, ResetSound DEF g
<1>13. stderror(t, silent) = reset(r)
  <2>1. fixerror(q) = r  BY DEF fixerror, r, d
  <2>. QED BY <2>1 DEF stderror, q, u
<1>. QED BY <1>12, <1>13

-----------------------------------------------------------------------------
(* The frame on top changes, returns, or calls another. *)

\* r has g on top where s has a frame of its kind.
Turns(r, s, e, g) ==
  /\ r.call = Put(s.call, Len(s.call), g)
  /\ Frame(g, Len(s.call), r.cs, e[Len(s.call)], EnvOf(r))
  /\ \A i \in 1 .. e[Len(s.call)].b : r.cs[i] = s.cs[i]
  /\ g.k = Top(s).k /\ (g.k = "P" => g.catch = Top(s).catch)

LEMMA TopTurns ==
  ASSUME NEW s, NEW e, Stack(s, e), s.call # <<>>, NEW r, NEW g, Turns(r, s, e, g)
  PROVE  /\ Stack(r, Higher(e, Len(s.call) - 1, EnvOf(r)))
         /\ r.call # <<>> /\ Top(r) = g /\ Len(r.call) = Len(s.call)
         /\ Higher(e, Len(s.call) - 1, EnvOf(r))[Len(s.call)] = e[Len(s.call)]
<1> DEFINE n == Len(s.call)
           k == n - 1
           E == EnvOf(r)
<1>1. n \in Nat /\ n > 0 /\ n \in 1 .. n /\ IsSeq(s.call) /\ Top(s) = s.call[n] /\ Chain(s.call, s.cs, e, n)
  BY StackIs DEF Stack
<1>2. k \in 0 .. n /\ k + 1 = n /\ (k > 0 => k \in 1 .. n - 1) /\ (k = 0 => n = 1) /\ k + 2 = n + 1
      /\ \A i \in 1 .. k : i \in 1 .. n /\ i # n
  <2> HIDE DEF n
  <2>. QED BY <1>1
<1>3. Replaced(r.call, s.call, n, g)
  <2>1. r.call = Put(s.call, n, g) /\ n \in 1 .. Len(s.call)  BY <1>1 DEF Turns
  <2>. QED BY <1>1, <2>1, ExceptIs
<1>4. IsSeq(r.call) /\ Len(r.call) = n /\ r.call[n] = g /\ \A i \in 1 .. n : i # n => r.call[i] = s.call[i]
  BY <1>3 DEF Replaced
<1>5. k > 0 => Calls(s.call[k], s.call[n])
  <2> HIDE DEF n
  <2>1. k > 0 => Calls(s.call[k], s.call[k + 1])
    <3> HIDE DEF k
    <3>1. \A i \in 1 .. n - 1 : Calls(s.call[i], s.call[i + 1])  BY <1>1, ChainIs
    <3>. QED BY <1>2, <3>1
  <2>. QED BY <1>2, <2>1
<1>6. k > 0 => Calls(s.call[k], r.call[k + 1])
  <2>1. g.k = s.call[n].k /\ (g.k = "P" => g.catch = s.call[n].catch)  BY <1>1 DEF Turns
  <2>2. k > 0 => Calls(s.call[k], g)  BY <1>5, <2>1, CallsSame
  <2>. QED BY <1>2, <1>4, <2>2
<1>7. k = 0 => r.call[1].k = "P" /\ r.call[1].catch
  <2>1. s.call[1].k = "P" /\ s.call[1].catch
    <3> HIDE DEF n
    <3>. QED BY <1>1, ChainIs
  <2>2. k = 0 => Top(s) = s.call[1] /\ r.call[1] = g  BY <1>1, <1>2, <1>4
  <2>. QED BY <2>1, <2>2 DEF Turns
<1>8. Frame(r.call[k + 1], k + 1, r.cs, e[k + 1], EnvOf(r))
  <2>1. Frame(g, n, r.cs, e[n], EnvOf(r))  BY DEF Turns
  <2>. QED BY <1>2, <1>4, <2>1
<1>9. \A i \in 1 .. e[k + 1].b : r.cs[i] = s.cs[i]
  <2>1. \A i \in 1 .. e[n].b : r.cs[i] = s.cs[i]  BY DEF Turns
  <2>. QED BY <1>2, <2>1
<1>10. Rebuilds(s.call, s.cs, e, n, k, r)
  <2>1. \A i \in 1 .. k : r.call[i] = s.call[i]  BY <1>2, <1>4
  <2>2. Len(r.call) = k + 1  BY <1>2, <1>4
  <2> HIDE DEF n, k
  <2>. QED BY <1>2, <1>4, <1>6, <1>7, <1>8, <1>9, <2>1, <2>2 DEF Rebuilds
<1>11. Stack(r, Higher(e, k, E))
  <2>1. Chain(s.call, s.cs, e, n)  BY <1>1
  <2> HIDE DEF n, k
  <2>. QED BY ONLY <1>10, <2>1, Rebuilt DEF E
<1>12. r.call # <<>>
  <2>1. Len(r.call) > 0  BY <1>1, <1>4
  <2>2. r.call = <<>> => Len(r.call) = 0  OBVIOUS
  <2>. QED BY <2>1, <2>2
<1>13. Higher(e, k, E)[n] = e[n]
  <2>1. e \in [Nat -> Envs]  BY <1>1, ChainIs
  <2> HIDE DEF n, E
  <2>2. n # k + 2 /\ n \in Nat  BY <1>1, <1>2
  <2>. QED BY <2>1, <2>2 DEF Higher
<1>. QED BY <1>4, <1>11, <1>12, <1>13 DEF Top

\* r is what the caller of the frame on top of s finds.
Returns(r, s, e) ==
  /\ r.call = Front(s.call) /\ EnvOf(r) = e[Len(s.call)]
  /\ \A i \in 1 .. e[Len(s.call)].b : r.cs[i] = s.cs[i]

LEMMA TopReturns ==
  ASSUME NEW s, NEW e, Stack(s, e), s.call # <<>>, NEW r, Returns(r, s, e)
  PROVE  /\ Stack(r, e) /\ Len(r.call) = Len(s.call) - 1
         /\ (Top(s).k # "P" \/ ~Top(s).catch) =>
              /\ r.call # <<>> /\ Top(r) = s.call[Len(s.call) - 1] /\ Calls(Top(r), Top(s))
<1> DEFINE n == Len(s.call)
           k == n - 1
<1>1. n \in Nat /\ n > 0 /\ n \in 1 .. n /\ IsSeq(s.call) /\ Top(s) = s.call[n] /\ Chain(s.call, s.cs, e, n)
  BY StackIs DEF Stack
<1>2. k \in 0 .. n /\ k + 1 = n /\ (k > 0 => k \in 1 .. n - 1) /\ (k = 0 => n = 1)
  <2> HIDE DEF n
  <2>. QED BY <1>1
<1>3. IsSeq(r.call) /\ Len(r.call) = k /\ \A i \in 1 .. k : r.call[i] = s.call[i]
  <2>1. r.call = Front(s.call)  BY DEF Returns
  <2>. QED BY <1>1, <2>1, FrontIs
<1>4. EnvOf(r) = e[k + 1] /\ \A i \in 1 .. e[k + 1].b : r.cs[i] = s.cs[i]
  <2>1. EnvOf(r) = e[n] /\ \A i \in 1 .. e[n].b : r.cs[i] = s.cs[i]  BY DEF Returns
  <2>. QED BY <1>2, <2>1
<1>5. Chain(r.call, r.cs, e, k)
  <2>1. Chain(s.call, s.cs, e, n)  BY <1>1
  <2> HIDE DEF n, k
  <2>. QED BY <1>2, <1>3, <1>4, <2>1, ChainKept
<1>6. Stack(r, e)
  <2> HIDE DEF k
  <2>. QED BY <1>3, <1>4, <1>5 DEF Stack
<1>7. ASSUME Top(s).k # "P" \/ ~Top(s).catch
      PROVE  r.call # <<>> /\ Top(r) = s.call[k] /\ Calls(Top(r), Top(s))
  <2>1. s.call[1].k = "P" /\ s.call[1].catch
    <3> HIDE DEF n
    <3>. QED BY <1>1, ChainIs
  <2>2. k # 0
    <3>1. k = 0 => Top(s) = s.call[1]  BY <1>1, <1>2
    <3>. QED BY <1>7, <2>1, <3>1
  <2>3. k > 0 /\ k \in 1 .. n - 1 /\ k \in 1 .. k
    <3> HIDE DEF n, k
    <3>. QED BY <1>1, <1>2, <2>2
  <2>4. Calls(s.call[k], s.call[n])
    <3>1. \A i \in 1 .. n - 1 : Calls(s.call[i], s.call[i + 1])
      <4> HIDE DEF n
      <4>. QED BY <1>1, ChainIs
    <3>2. Calls(s.call[k], s.call[k + 1])
      <4> HIDE DEF n, k
      <4>. QED BY <2>3, <3>1
    <3>. QED BY <1>2, <3>2
  <2>5. Top(r) = s.call[k]
    <3>1. Top(r) = r.call[k]  BY <1>3 DEF Top
    <3> HIDE DEF k, n
    <3>. QED BY <1>3, <2>3, <3>1
  <2>6. r.call # <<>>
    <3>1. Len(r.call) > 0  BY <1>3, <2>3
    <3>2. r.call = <<>> => Len(r.call) = 0  OBVIOUS
    <3>. QED BY <3>1, <3>2
  <2>. QED BY <1>1, <2>4, <2>5, <2>6
<1>. QED BY <1>3, <1>6, <1>7

\* r has g called by the frame on top of s.
Enters(r, s, g) ==
  /\ r.call = Append(s.call, g)
  /\ Frame(g, Len(s.call) + 1, r.cs, EnvOf(s), EnvOf(r)) /\ Calls(Top(s), g)
  /\ \A i \in 1 .. EnvOf(s).b : r.cs[i] = s.cs[i]

LEMMA TopEnters ==
  ASSUME NEW s, NEW e, Stack(s, e), s.call # <<>>, NEW r, NEW g, Enters(r, s, g)
  PROVE  /\ Stack(r, Higher(e, Len(s.call), EnvOf(r)))
         /\ r.call # <<>> /\ Top(r) = g /\ Len(r.call) = Len(s.call) + 1
<1> DEFINE n == Len(s.call)
           E == EnvOf(r)
<1>1. /\ n \in Nat /\ n > 0 /\ n \in 1 .. n /\ n \in 0 .. n /\ IsSeq(s.call) /\ Top(s) = s.call[n] /\ Chain(s.call, s.cs, e, n)
      /\ e[n + 1] = EnvOf(s)
  <2>1. IsSeq(s.call) /\ n \in Nat /\ n > 0 /\ n \in 1 .. n /\ Top(s) = s.call[n]  BY StackIs
  <2>2. n \in 0 .. n
    <3> HIDE DEF n
    <3>. QED BY <2>1
  <2>. QED BY <2>1, <2>2 DEF Stack
<1>2. Longer(r.call, s.call, g)
  <2>1. r.call = Append(s.call, g)  BY DEF Enters
  <2>. QED BY <1>1, <2>1, AppendIs
<1>3. IsSeq(r.call) /\ Len(r.call) = n + 1 /\ r.call[n + 1] = g /\ \A i \in 1 .. n : r.call[i] = s.call[i]
  BY <1>2 DEF Longer
<1>4. \A i \in 1 .. e[n + 1].b : r.cs[i] = s.cs[i]
  <2>1. \A i \in 1 .. EnvOf(s).b : r.cs[i] = s.cs[i]  BY DEF Enters
  <2>. QED BY <1>1, <2>1
<1>5. Chain(r.call, r.cs, e, n)
  <2> HIDE DEF n
  <2>. QED BY <1>1, <1>3, <1>4, ChainKept
<1>6. Frame(r.call[n + 1], n + 1, r.cs, e[n + 1], E)
  <2>1. Frame(g, n + 1, r.cs, EnvOf(s), EnvOf(r))  BY DEF Enters
  <2>. QED BY <1>1, <1>3, <2>1
<1>7. n > 0 => Calls(r.call[n], r.call[n + 1])
  <2>1. Calls(s.call[n], g)  BY <1>1 DEF Enters
  <2>. QED BY <1>1, <1>3, <2>1
<1>8. Pushes(r.call, r.cs, e, n, r.call, E)
  <2> HIDE DEF n, E
  <2>1. n # 0 /\ \A i \in 1 .. n : r.call[i] = r.call[i]  BY <1>1
  <2>. QED BY <1>6, <1>7, <2>1 DEF Pushes
<1>9. Chain(r.call, r.cs, Higher(e, n, E), n + 1)
  <2> HIDE DEF n, E
  <2>. QED BY ONLY <1>5, <1>8, ChainPush
<1>10. Higher(e, n, E)[n + 1 + 1] = E
  <2>1. n + 1 + 1 = n + 2 /\ n + 2 \in Nat /\ e \in [Nat -> Envs]
    <3>1. e \in [Nat -> Envs]  BY <1>1, ChainIs
    <3> HIDE DEF n
    <3>. QED BY <1>1, <3>1
  <2> HIDE DEF n, E
  <2>. QED BY <2>1 DEF Higher
<1>11. r.call # <<>>
  <2>1. Len(r.call) > 0  BY <1>1, <1>3
  <2>2. r.call = <<>> => Len(r.call) = 0  OBVIOUS
  <2>. QED BY <2>1, <2>2
<1>12. Stack(r, Higher(e, n, E))
  <2> HIDE DEF n
  <2>. QED BY <1>3, <1>9, <1>10 DEF Stack, E
<1>. QED BY <1>3, <1>11, <1>12 DEF Top

(* A state of which the frame on top can go on. *)
Live(s, e) == Data(s) /\ ~s.aborted /\ s.call # <<>> /\ Stack(s, e)

LEMMA ReadyIs ==
  ASSUME NEW s
  PROVE  Ready(s) <=> (\E e : Live(s, e)) /\ Catches(Top(s))
BY DEF Ready, Live

LEMMA SoundIs ==
  ASSUME NEW s, s.call # <<>>
  PROVE  Sound(s) <=> (\E e : Live(s, e)) /\ Handled(s)
BY DEF Sound, Live

LEMMA LiveData ==
  ASSUME NEW s, NEW e, Live(s, e), NEW r, Data(r), ~r.aborted, EnvOf(r) = EnvOf(s), r.cs = s.cs, r.call = s.call
  PROVE  Live(r, e) /\ Top(r) = Top(s)
BY DEF Live, Stack, Top

LEMMA LiveLike ==
  ASSUME NEW s, NEW e, Live(s, e), NEW r, DOMAIN r = Fields, \A f \in Core : r[f] = s[f]
  PROVE  Live(r, e) /\ Top(r) = Top(s) /\ EnvOf(r) = EnvOf(s) /\ r.haderr = s.haderr /\ r.cs = s.cs /\ r.call = s.call
<1>1. Data(r) /\ EnvOf(r) = EnvOf(s)  BY DataLike DEF Live
<1>2. r.cs = s.cs /\ r.call = s.call /\ r.haderr = s.haderr /\ ~r.aborted  BY DEF Core, Live
<1>. QED BY <1>1, <1>2, LiveData

LEMMA SetTopIs ==
  ASSUME NEW s, DOMAIN s = Fields, NEW g
  PROVE  /\ Same(SetTop(s, g), s, {"call"}) /\ SetTop(s, g).call = Put(s.call, Len(s.call), g)
<1> DEFINE q == Put(s.call, Len(s.call), g)
<1>1. SetTop(s, g) = [s EXCEPT !.call = q]  BY DEF SetTop, Put
<1> HIDE DEF q
<1>2. Same([s EXCEPT !.call = q], s, {"call"}) /\ [s EXCEPT !.call = q].call = q
  BY DEF Same, Fields, Core
<1>. QED BY <1>1, <1>2 DEF q

LEMMA AtIs ==
  ASSUME NEW s, NEW pc
  PROVE  At(s, pc) = SetTop(s, [Top(s) EXCEPT !.at = pc])
BY DEF At, SetTop, Top

\* The frame on top becomes g, and nothing else changes.
Becomes(r, s, g) ==
  /\ Same(r, s, {"call"}) /\ r.call # <<>> /\ Top(r) = g /\ Len(r.call) = Len(s.call) /\ EnvOf(r) = EnvOf(s) /\ r.cs = s.cs

LEMMA Sets ==
  ASSUME NEW s, NEW e, Live(s, e), NEW g, Frame(g, Len(s.call), s.cs, e[Len(s.call)], EnvOf(s)),
         g.k = Top(s).k, g.k = "P" => g.catch = Top(s).catch
  PROVE  /\ Becomes(SetTop(s, g), s, g)
         /\ \E e2 : Live(SetTop(s, g), e2) /\ e2[Len(s.call)] = e[Len(s.call)]
<1> DEFINE r == SetTop(s, g)
           n == Len(s.call)
           e2 == Higher(e, n - 1, EnvOf(r))
<1>1. Data(s) /\ ~s.aborted /\ s.call # <<>> /\ Stack(s, e) /\ DOMAIN s = Fields  BY DEF Live, Data
<1>2. Same(r, s, {"call"}) /\ r.call = Put(s.call, n, g)  BY <1>1, SetTopIs
<1> HIDE DEF r
<1>3. DOMAIN r = Fields /\ (\A f \in Core \ {"call", "aborted"} : r[f] = s[f]) /\ r.aborted = s.aborted /\ r.cs = s.cs
  BY <1>2, CoreApart DEF Same, Core
<1>4. Data(r) /\ EnvOf(r) = EnvOf(s)  BY <1>1, <1>3, DataLike
<1>5. Turns(r, s, e, g)
  <2>1. \A i \in 1 .. e[n].b : r.cs[i] = s.cs[i]  BY <1>3
  <2>2. Frame(g, n, r.cs, e[n], EnvOf(r))  BY <1>3, <1>4
  <2>. QED BY <1>2, <2>1, <2>2 DEF Turns
<1>6. Stack(r, e2) /\ r.call # <<>> /\ Top(r) = g /\ Len(r.call) = n /\ e2[n] = e[n]
  <2> HIDE DEF n
  <2>1. n = Len(s.call)  BY DEF n
  <2>. QED BY <1>1, <1>5, <2>1, TopTurns
<1>7. Live(r, e2)  BY <1>1, <1>3, <1>4, <1>6 DEF Live
<1>8. Becomes(r, s, g)  BY <1>2, <1>3, <1>4, <1>6 DEF Becomes
<1> HIDE DEF e2
<1>. QED BY <1>6, <1>7, <1>8 DEF r

\* What a builtin's frame has while nothing of it is on the cleanup stack.
LEMMA BuiltinAt ==
  ASSUME NEW f, NEW i, NEW cs, NEW a, NEW b, Frame(f, i, cs, a, b), f.k = "B",
         NEW pc \in {"start", "after", "failed"}, f.at \in {"start", "after", "failed"}
  PROVE  Frame([f EXCEPT !.at = pc], i, cs, a, b) /\ [f EXCEPT !.at = pc].k = "B" /\ [f EXCEPT !.at = pc].at = pc /\ b = a
<1>1. f \in Builtins /\ a \in Envs /\ b = a  BY DEF Frame, Frames, Processes, Hooks, Pushed
<1> DEFINE g == [f EXCEPT !.at = pc]
<1>2. g \in Builtins /\ g.k = "B" /\ g.at = pc  BY <1>1 DEF Builtins
<1> HIDE DEF g
<1>3. Frame(g, i, cs, a, b)  BY <1>1, <1>2 DEF Frame, Frames, Pushed, Doomed
<1>. QED BY <1>1, <1>2, <1>3 DEF g

\* The fields that are well formed by themselves, or are nothing to the stacks.
Aside == {"haderr", "doneinp", "pintr_pending", "active", "last", "fnpipe", "out", "left"} \cup Streams3

LEMMA DataSame ==
  ASSUME NEW s, Data(s), NEW r, NEW F \in SUBSET Aside, Same(r, s, F \cup {"call"}), r.haderr \in BOOLEAN
  PROVE  Data(r) /\ EnvOf(r) = EnvOf(s) /\ r.cs = s.cs /\ r.aborted = s.aborted /\ r.mark = s.mark
<1>1. Same(r, s, Aside \cup {"call"})  BY DEF Same
<1>2. /\ DOMAIN r = Fields /\ r.cs = s.cs /\ r.mark = s.mark /\ r.pintr_disabled = s.pintr_disabled /\ r.fnlvl = s.fnlvl
      /\ r.insource = s.insource /\ r.justpr = s.justpr /\ r.aliases = s.aliases /\ r.evalvec = s.evalvec
      /\ r.enterhist = s.enterhist /\ r.intty = s.intty /\ r.gointr = s.gointr /\ r.arena = s.arena /\ r.aborted = s.aborted
  BY <1>1 DEF Same, Aside, Fields, Core, Streams3
<1>3. Input(r)
  <2>1. Input(s)  BY DEF Data
  <2>. QED BY <1>2, <2>1 DEF Input
<1>4. Data(r)  BY <1>2, <1>3, DataIs, DataBy
<1>5. EnvOf(r) = EnvOf(s)  BY <1>2 DEF EnvOf
<1>. QED BY <1>2, <1>4, <1>5

LEMMA LiveSame ==
  ASSUME NEW s, NEW e, Live(s, e), NEW r, NEW F \in SUBSET Aside, Same(r, s, F), r.haderr \in BOOLEAN
  PROVE  Live(r, e) /\ Top(r) = Top(s) /\ EnvOf(r) = EnvOf(s) /\ r.cs = s.cs /\ r.call = s.call
<1>1. Same(r, s, F \cup {"call"})  BY DEF Same
<1>2. Data(r) /\ EnvOf(r) = EnvOf(s) /\ r.cs = s.cs /\ r.aborted = s.aborted  BY <1>1, DataSame DEF Live
<1>3. r.call = s.call
  <2>1. "call" \notin F /\ "call" \in Fields  BY DEF Aside, Streams3, Fields, Core
  <2>. QED BY <2>1 DEF Same
<1>. QED BY <1>2, <1>3, LiveData DEF Live

LEMMA PopCallIs ==
  ASSUME NEW s, DOMAIN s = Fields
  PROVE  Same(PopCall(s), s, {"call"}) /\ PopCall(s).call = Front(s.call)
<1> DEFINE q == Front(s.call)
<1>1. PopCall(s) = [s EXCEPT !.call = q]  BY DEF PopCall
<1> HIDE DEF q
<1>2. Same([s EXCEPT !.call = q], s, {"call"}) /\ [s EXCEPT !.call = q].call = q
  BY DEF Same, Fields, Core
<1>. QED BY <1>1, <1>2 DEF q

\* A builtin is left: the line that runs it goes on.
LEMMA PopBuiltin ==
  ASSUME NEW s, NEW e, Live(s, e), Top(s).k = "B", Top(s).at = "after"
  PROVE  /\ Live(PopCall(s), e) /\ Same(PopCall(s), s, {"call"})
         /\ Top(PopCall(s)).k \in {"P", "H"} /\ Top(PopCall(s)).at = "run" /\ Catches(Top(PopCall(s)))
<1> DEFINE r == PopCall(s)
           n == Len(s.call)
<1>1. Data(s) /\ ~s.aborted /\ s.call # <<>> /\ Stack(s, e) /\ DOMAIN s = Fields  BY DEF Live, Data
<1>2. Same(r, s, {"call"}) /\ r.call = Front(s.call)  BY <1>1, PopCallIs
<1>3. Data(r) /\ EnvOf(r) = EnvOf(s) /\ r.cs = s.cs /\ ~r.aborted
  <2>1. Same(r, s, {} \cup {"call"})  BY <1>2
  <2>2. r.haderr \in BOOLEAN
    <3>1. r.haderr = s.haderr  BY <1>2 DEF Same, Fields, Core
    <3>. QED BY <1>1, <3>1, DataIs
  <2>3. {} \in SUBSET Aside  OBVIOUS
  <2> HIDE DEF r
  <2>. QED BY <1>1, <2>1, <2>2, <2>3, DataSame
<1> HIDE DEF r
<1>4. Frame(Top(s), n, s.cs, e[n], EnvOf(s))  BY <1>1, StackIs
<1>5. EnvOf(s) = e[n]  BY <1>4 DEF Frame, Pushed
<1>6. Returns(r, s, e)
  <2> HIDE DEF n
  <2>1. n = Len(s.call)  BY DEF n
  <2>. QED BY <1>2, <1>3, <1>5, <2>1 DEF Returns
<1>7. Stack(r, e) /\ r.call # <<>> /\ Calls(Top(r), Top(s))
  <2>1. Top(s).k # "P"  OBVIOUS
  <2> HIDE DEF n
  <2>. QED BY <1>1, <1>6, <2>1, TopReturns
<1>8. Top(r).k \in {"P", "H"} /\ Top(r).at = "run"  BY <1>7 DEF Calls
<1>9. Catches(Top(r))  BY <1>8 DEF Catches
<1>10. Live(r, e)  BY <1>3, <1>7 DEF Live
<1>. QED BY <1>2, <1>8, <1>9, <1>10 DEF r

LEMMA FinishIs ==
  ASSUME NEW s, DOMAIN s = Fields, NEW again
  PROVE  Same(Finish(s, again), s, Streams3)
<1>1. Only(Finish(s, again), s, Streams3)  BY DoneIs, Dup2Is DEF Finish
<1>. QED BY <1>1, SameOnly

\* The end of execute().
LEMMA AfterSound ==
  ASSUME NEW s, NEW e, Live(s, e), Top(s).k = "B", Top(s).at = "after"
  PROVE  Sound(Builtin(s))
<1> DEFINE f == Top(s)
           y == PopCall(s)
           z == [y EXCEPT !.left = @ \/ s.didfds]
           q == [y EXCEPT !.last = "", !.haderr = FALSE]
           r == Finish(q, FALSE)
<1>1. Live(y, e) /\ Top(y).k \in {"P", "H"} /\ Top(y).at = "run" /\ Catches(Top(y))  BY PopBuiltin
<1>2. f.oh = FALSE /\ f.again = FALSE
  <2>1. f \in Frames  BY StackIs DEF Live
  <2>. QED BY <2>1 DEF Frames, Processes, Hooks, Builtins
<1>3. Builtin(s) = IF s.last = "exit" /\ ~s.haderr THEN reset(z) ELSE Finish([y EXCEPT !.last = "", !.haderr = f.oh], f.again)
  BY DEF Builtin
<1>4. Builtin(s) = IF s.last = "exit" /\ ~s.haderr THEN reset(z) ELSE r  BY <1>2, <1>3
<1>5. DOMAIN y = Fields /\ y.haderr \in BOOLEAN  BY <1>1, DataIs DEF Live
<1> HIDE DEF y
<1>6. Sound(reset(z))
  <2>1. Same(z, y, {"left"}) /\ z.haderr = y.haderr  BY <1>5 DEF Same, Fields, Core
  <2> HIDE DEF z
  <2>2. {"left"} \in SUBSET Aside  BY DEF Aside
  <2>3. Live(z, e) /\ Top(z) = Top(y)  BY <1>1, <1>5, <2>1, <2>2, LiveSame
  <2>4. Ready(z) /\ Over(z, z)  BY <1>1, <2>3, ReadyIs, OverSelf DEF Live
  <2>. QED BY <2>4, ResetSound
<1>7. Sound(r)
  <2>1. Same(q, y, {"last", "haderr"}) /\ q.haderr = FALSE /\ DOMAIN q = Fields  BY <1>5 DEF Same, Fields, Core
  <2> HIDE DEF q
  <2>2. Same(r, q, Streams3)  BY <2>1, FinishIs
  <2> HIDE DEF r
  <2>3. Same(r, y, {"last", "haderr"} \cup Streams3)  BY <2>1, <2>2, SameTrans
  <2>4. r.haderr = FALSE  BY <2>1, <2>2 DEF Same, Fields, Core, Streams3
  <2>5. {"last", "haderr"} \cup Streams3 \in SUBSET Aside  BY DEF Aside
  <2>6. Live(r, e) /\ Top(r) = Top(y)  BY <1>1, <2>3, <2>4, <2>5, LiveSame
  <2>7. Handled(r)  BY <1>1, <2>4, <2>6 DEF Handled
  <2>8. r.call # <<>>  BY <2>6 DEF Live
  <2>. QED BY <2>6, <2>7, <2>8, SoundIs
<1>. QED BY <1>4, <1>6, <1>7
-----------------------------------------------------------------------------
(* What is read. *)

LEMMA TextIs ==
  ASSUME NoRepeat, NEW a \in Arenas
  PROVE  Text(a) \in Seq(Lines) /\ Len(Text(a)) \in Nat /\ a.pos \in Nat /\ a.feob \in Nat
         /\ a.pos <= Len(Text(a)) /\ a.feob <= Len(Text(a)) /\ DOMAIN Text(a) = 1 .. Len(Text(a))
<1>1. Text(a) \in Seq(Lines)
  <2>1. CASE a.kind = "file"  BY <2>1 DEF Text, Arenas, NoRepeat
  <2>2. CASE a.kind = "func"  BY <2>2 DEF Text, Arenas, NoRepeat
  <2>3. CASE a.kind = "tty"
    <3>1. Text(a) = <<>>  BY <2>3 DEF Text
    <3>2. <<>> \in Seq(Lines)  OBVIOUS
    <3>. QED BY <3>1, <3>2
  <2>. QED BY <2>1, <2>2, <2>3 DEF Arenas
<1>2. /\ Len(Text(a)) \in Nat /\ DOMAIN Text(a) = 1 .. Len(Text(a))  BY <1>1
<1>. QED BY <1>1, <1>2 DEF Arenas

LEMMA EvalsIs ==
  ASSUME NEW v \in EvalLines
  PROVE  v.l \in Seq(Lines) /\ v.on \in BOOLEAN
BY DEF EvalLines

\* Other lines are to be read next.
LEMMA ReadsData ==
  ASSUME NEW s, Data(s), NEW r, Same(r, s, {"arena", "evalvec"} \cup Aside),
         r.arena \in Arenas, r.arena.kind = s.arena.kind, r.evalvec \in EvalLines, r.haderr \in BOOLEAN
  PROVE  /\ Data(r) /\ EnvOf(r) = EnvOf(s) /\ r.cs = s.cs /\ r.call = s.call /\ r.aborted = s.aborted /\ r.mark = s.mark
         /\ r.fnlvl = s.fnlvl /\ r.insource = s.insource /\ r.pintr_disabled = s.pintr_disabled
<1>1. /\ DOMAIN r = Fields /\ r.cs = s.cs /\ r.mark = s.mark /\ r.pintr_disabled = s.pintr_disabled /\ r.fnlvl = s.fnlvl
      /\ r.insource = s.insource /\ r.justpr = s.justpr /\ r.aliases = s.aliases /\ r.call = s.call
      /\ r.enterhist = s.enterhist /\ r.intty = s.intty /\ r.gointr = s.gointr /\ r.aborted = s.aborted
  BY DEF Same, Aside, Fields, Core, Streams3
<1>2. Input(r)
  <2>1. Input(s)  BY DEF Data
  <2>. QED BY <1>1, <2>1 DEF Input
<1>3. Data(r)  BY <1>1, <1>2, DataIs, DataBy
<1>4. EnvOf(r) = EnvOf(s)  BY <1>1 DEF EnvOf
<1>. QED BY <1>1, <1>3, <1>4

LEMMA ReadsOver ==
  ASSUME NEW s, NEW t, Over(t, s), NEW r, Same(r, t, {"arena", "evalvec"} \cup Aside),
         r.arena \in Arenas, r.arena.kind = t.arena.kind, r.evalvec \in EvalLines, r.haderr \in BOOLEAN
  PROVE  Over(r, s) /\ r.call = t.call
<1>1. Data(t)  BY DEF Over
<1>2. /\ Data(r) /\ r.cs = t.cs /\ r.call = t.call /\ r.aborted = t.aborted /\ r.mark = t.mark
      /\ r.fnlvl = t.fnlvl /\ r.insource = t.insource /\ r.pintr_disabled = t.pintr_disabled
  BY <1>1, ReadsData
<1>. QED BY <1>2, OverLike

LEMMA SoughtIs ==
  ASSUME NoRepeat, NEW s, Data(s), NEW at \in DOMAIN Here(s)
  PROVE  /\ Same(Sought(s, at), s, {"arena", "evalvec"})
         /\ Sought(s, at).arena \in Arenas /\ Sought(s, at).arena.kind = s.arena.kind /\ Sought(s, at).evalvec \in EvalLines
<1> DEFINE a == s.arena
           v == s.evalvec
<1>1. DOMAIN s = Fields /\ a \in Arenas /\ v \in EvalLines  BY DEF Data, Input
<1>2. /\ Text(a) \in Seq(Lines) /\ Len(Text(a)) \in Nat /\ a.pos \in Nat /\ a.feob \in Nat
      /\ a.pos <= Len(Text(a)) /\ a.feob <= Len(Text(a)) /\ DOMAIN Text(a) = 1 .. Len(Text(a))
  BY <1>1, TextIs
<1>3. CASE v.on
  <2> DEFINE b == Moved(a, 0, a.feob)
             w == [v EXCEPT !.l = SubSeq(@, at + 1, Len(@))]
  <2>1. b \in Arenas /\ b.kind = a.kind  BY <1>1, <1>2, ArenaAt
  <2>2. [a EXCEPT !.pos = 0] = b  BY <1>1 DEF Arenas, Moved
  <2>3. w \in EvalLines
    <3>1. v.l \in Seq(Lines) /\ at \in 1 .. Len(v.l)  BY <1>1, <1>3, EvalsIs DEF Here
    <3>2. SubSeq(v.l, at + 1, Len(v.l)) \in Seq(Lines)  BY <3>1
    <3>3. w = [v EXCEPT !.l = SubSeq(v.l, at + 1, Len(v.l))]  OBVIOUS
    <3>. QED BY <1>1, <3>2, <3>3 DEF EvalLines
  <2> HIDE DEF b, w
  <2>4. Sought(s, at) = [s EXCEPT !.arena = b, !.evalvec = w]
    <3>1. Sought(s, at) = [s EXCEPT !.arena = [a EXCEPT !.pos = 0], !.evalvec = w]  BY <1>3 DEF Sought, w
    <3>. QED BY <2>2, <3>1
  <2>. QED BY <1>1, <2>1, <2>3, <2>4 DEF Same, Fields, Core
<1>4. CASE ~v.on
  <2> DEFINE c == [a EXCEPT !.pos = at - 1]
             p == at
             fe == IF a.kind = "file" THEN Len(Text(a)) ELSE IF a.feob > at - 1 THEN a.feob ELSE (at - 1) + 1
             b == Moved(a, p, fe)
  <2>1. at \in 1 .. Len(Text(a))  BY <1>2, <1>4 DEF Here
  <2>2. p \in Nat /\ fe \in Nat /\ p <= Len(Text(a)) /\ fe <= Len(Text(a)) /\ (at - 1) + 1 = p /\ at - 1 \in Nat
    <3> DEFINE L == Len(Text(a))
    <3>1. at \in Nat /\ at >= 1 /\ at <= L /\ L \in Nat /\ a.feob \in Nat /\ a.feob <= L  BY <1>2, <2>1
    <3> HIDE DEF L
    <3>. QED BY <3>1 DEF L
  <2>3. b \in Arenas /\ b.kind = a.kind
    <3> HIDE DEF p, fe
    <3>. QED BY <1>1, <2>2, ArenaAt
  <2>4. bgetc(c) = b
    <3>1. c.kind = a.kind /\ c.name = a.name /\ c.pos = at - 1 /\ c.feob = a.feob  BY <1>1 DEF Arenas
    <3>2. Text(c) = Text(a)  BY <3>1 DEF Text
    <3>3. bgetc(c) = [c EXCEPT !.pos = c.pos + 1,
                        !.feob = IF c.kind = "file" THEN Len(Text(c)) ELSE IF c.feob > c.pos THEN c.feob ELSE c.pos + 1]
      BY DEF bgetc
    <3>4. bgetc(c) = [c EXCEPT !.pos = p, !.feob = fe]  BY <2>2, <3>1, <3>2, <3>3
    <3> HIDE DEF fe, p
    <3>5. [c EXCEPT !.pos = p, !.feob = fe] = b  BY <1>1 DEF Arenas, Moved
    <3>. QED BY <3>4, <3>5
  <2>5. Sought(s, at) = [s EXCEPT !.arena = b]  BY <1>4, <2>4 DEF Sought
  <2> HIDE DEF b
  <2>. QED BY <1>1, <2>3, <2>5 DEF Same, Fields, Core
<1>. QED BY <1>3, <1>4

LEMMA NoLabelSound ==
  ASSUME NoRepeat, NEW s, Ready(s), NEW t, Over(t, s), t.call = s.call
  PROVE  Sound(NoLabel(t))
<1> DEFINE a == t.arena
<1>1. Data(t) /\ DOMAIN t = Fields /\ a \in Arenas /\ t.evalvec \in EvalLines /\ t.haderr \in BOOLEAN
  BY DataIs DEF Over, Input
<1>2. /\ Len(Text(a)) \in Nat /\ a.pos \in Nat /\ a.feob \in Nat /\ a.pos <= Len(Text(a)) /\ a.feob <= Len(Text(a))
  BY <1>1, TextIs
<1>3. CASE t.evalvec.on
  <2> DEFINE b == Moved(a, 0, a.feob)
             v == Evals(<<>>)
             r == [t EXCEPT !.arena = b, !.evalvec = v, !.doneinp = TRUE]
  <2>1. b \in Arenas /\ b.kind = a.kind  BY <1>1, <1>2, ArenaAt
  <2>2. [a EXCEPT !.pos = 0] = b  BY <1>1 DEF Arenas, Moved
  <2>3. v \in EvalLines
    <3>1. <<>> \in Seq(Lines)  OBVIOUS
    <3>. QED BY <3>1 DEF Evals, EvalLines
  <2> HIDE DEF b, v
  <2>4. NoLabel(t) = reset(r)
    <3>1. NoLabel(t) = reset([t EXCEPT !.arena = [a EXCEPT !.pos = 0], !.evalvec = v, !.doneinp = TRUE])
      BY <1>3 DEF NoLabel, v
    <3>. QED BY <2>2, <3>1
  <2>5. Same(r, t, {"arena", "evalvec"} \cup Aside) /\ r.arena = b /\ r.evalvec = v /\ r.haderr = t.haderr
    BY <1>1 DEF Same, Fields, Core, Aside, Streams3
  <2> HIDE DEF r
  <2>6. Over(r, s) /\ r.call = t.call  BY <1>1, <2>1, <2>3, <2>5, ReadsOver
  <2>. QED BY <2>4, <2>6, ResetSound
<1>4. CASE ~t.evalvec.on
  <2> DEFINE b == Moved(a, a.pos, Len(Text(a)))
             r == [t EXCEPT !.arena = b]
  <2>1. b \in Arenas /\ b.kind = a.kind  BY <1>1, <1>2, ArenaAt
  <2>2. [a EXCEPT !.feob = Len(Text(a))] = b  BY <1>1 DEF Arenas, Moved
  <2> HIDE DEF b
  <2>4. NoLabel(t) = stderror(r, FALSE)
    <3>1. NoLabel(t) = stderror([t EXCEPT !.arena = [a EXCEPT !.feob = Len(Text(a))]], FALSE)  BY <1>4 DEF NoLabel
    <3>. QED BY <2>2, <3>1
  <2>5. Same(r, t, {"arena", "evalvec"} \cup Aside) /\ r.arena = b /\ r.evalvec = t.evalvec /\ r.haderr = t.haderr
    BY <1>1 DEF Same, Fields, Core, Aside, Streams3
  <2> HIDE DEF r
  <2>6. Over(r, s) /\ r.call = t.call  BY <1>1, <2>1, <2>5, ReadsOver
  <2>. QED BY <2>4, <2>6, StderrorSound
<1>. QED BY <1>3, <1>4

\* The first of some places of a sequence.
LEMMA FirstIs ==
  ASSUME NEW q \in Seq(Lines), NEW S, S \subseteq DOMAIN q, S # {}
  PROVE  Min(S) \in DOMAIN q
<1>1. S \subseteq Nat
  <2>1. DOMAIN q \subseteq Nat  OBVIOUS
  <2>. QED BY <2>1
<1>2. Min(S) \in S  BY <1>1, MinIs
<1>. QED BY <1>2

LEMMA LabelIs ==
  ASSUME NoRepeat, NEW s, Data(s), NEW lab, LabelAt(Here(s), lab) # {}
  PROVE  Min(LabelAt(Here(s), lab)) \in DOMAIN Here(s)
<1>1. s.arena \in Arenas /\ s.evalvec \in EvalLines  BY DEF Data, Input
<1>2. Here(s) \in Seq(Lines)  BY <1>1, TextIs, EvalsIs DEF Here
<1>3. LabelAt(Here(s), lab) \subseteq DOMAIN Here(s)  BY DEF LabelAt
<1>. QED BY <1>2, <1>3, FirstIs

LEMMA TrappedSound ==
  ASSUME NoRepeat, NEW s, Ready(s), NEW t, Over(t, s), t.call = s.call
  PROVE  Sound(Trapped(t))
<1> DEFINE at == LabelAt(Here(t), t.gointr)
           m == Min(at)
           r == Sought(t, m)
<1>1. CASE at = {}
  <2>1. Trapped(t) = NoLabel(t)  BY <1>1 DEF Trapped
  <2>. QED BY <2>1, NoLabelSound
<1>2. CASE at # {}
  <2>1. Trapped(t) = reset(r)  BY <1>2 DEF Trapped
  <2>2. Data(t)  BY DEF Over
  <2>3. m \in DOMAIN Here(t)  BY <1>2, <2>2, LabelIs
  <2> HIDE DEF m
  <2>4. /\ Same(r, t, {"arena", "evalvec"}) /\ r.arena \in Arenas /\ r.arena.kind = t.arena.kind /\ r.evalvec \in EvalLines
    BY <2>2, <2>3, SoughtIs
  <2> HIDE DEF r
  <2>5. Same(r, t, {"arena", "evalvec"} \cup Aside)  BY <2>4 DEF Same
  <2>6. r.haderr \in BOOLEAN
    <3>1. r.haderr = t.haderr  BY <2>4 DEF Same, Fields, Core
    <3>. QED BY <2>2, <3>1, DataIs
  <2>7. Over(r, s) /\ r.call = t.call  BY <2>4, <2>5, <2>6, ReadsOver
  <2>. QED BY <2>1, <2>7, ResetSound
<1>. QED BY <1>1, <1>2

LEMMA Pintr1Sound ==
  ASSUME NoRepeat, NEW s, Ready(s), NEW t, Over(t, s), t.call = s.call
  PROVE  Sound(pintr1(t))
<1> DEFINE y == IF t.evalvec.on THEN [t EXCEPT !.doneinp = TRUE] ELSE t
<1>1. Data(t) /\ DOMAIN t = Fields /\ t.arena \in Arenas /\ t.evalvec \in EvalLines /\ t.haderr \in BOOLEAN
  BY DataIs DEF Over, Input
<1>2. Same(y, t, {"arena", "evalvec"} \cup Aside) /\ y.arena = t.arena /\ y.evalvec = t.evalvec /\ y.haderr = t.haderr
  <2>1. CASE t.evalvec.on
    <3>1. y = [t EXCEPT !.doneinp = TRUE]  BY <2>1
    <3> HIDE DEF y
    <3>. QED BY <1>1, <3>1 DEF Same, Fields, Core, Aside, Streams3
  <2>2. CASE ~t.evalvec.on
    <3>1. y = t  BY <2>2
    <3>. QED BY <1>1, <3>1 DEF Same
  <2>. QED BY <2>1, <2>2
<1>3. pintr1(t) = IF y.gointr = None THEN stderror(y, TRUE) ELSE Trapped(y)  BY DEF pintr1
<1> HIDE DEF y
<1>4. Over(y, s) /\ y.call = t.call  BY <1>1, <1>2, ReadsOver
<1>5. Sound(stderror(y, TRUE))  BY <1>4, StderrorSound
<1>6. Sound(Trapped(y))  BY <1>4, TrappedSound
<1>. QED BY <1>3, <1>5, <1>6

LEMMA LiveReads ==
  ASSUME NEW s, NEW e, Live(s, e), NEW r, Same(r, s, {"arena", "evalvec"} \cup Aside),
         r.arena \in Arenas, r.arena.kind = s.arena.kind, r.evalvec \in EvalLines, r.haderr \in BOOLEAN
  PROVE  Live(r, e) /\ Top(r) = Top(s)
<1>1. Data(r) /\ EnvOf(r) = EnvOf(s) /\ r.cs = s.cs /\ r.call = s.call /\ r.aborted = s.aborted
  BY ReadsData DEF Live
<1>. QED BY <1>1, LiveData DEF Live

\* goto, in a builtin that goes on.
LEMMA GotolabSound ==
  ASSUME NoRepeat, NEW s, NEW e, Live(s, e), Top(s).k = "B", Top(s).at = "after", NEW lab
  PROVE  Sound(gotolab(s, lab))
<1> DEFINE at == LabelAt(Here(s), lab)
           m == Min(at)
           r == Sought(s, m)
<1>1. Ready(s) /\ Over(s, s) /\ Data(s)  BY ReadyIs, OverSelf DEF Live, Catches
<1>2. CASE at = {}
  <2>1. gotolab(s, lab) = NoLabel(s)  BY <1>2 DEF gotolab
  <2>. QED BY <1>1, <2>1, NoLabelSound
<1>3. CASE at # {}
  <2>1. gotolab(s, lab) = r  BY <1>3 DEF gotolab
  <2>3. m \in DOMAIN Here(s)  BY <1>1, <1>3, LabelIs
  <2> HIDE DEF m
  <2>4. /\ Same(r, s, {"arena", "evalvec"}) /\ r.arena \in Arenas /\ r.arena.kind = s.arena.kind /\ r.evalvec \in EvalLines
    BY <1>1, <2>3, SoughtIs
  <2> HIDE DEF r
  <2>5. Same(r, s, {"arena", "evalvec"} \cup Aside)  BY <2>4 DEF Same
  <2>6. r.haderr \in BOOLEAN
    <3>1. r.haderr = s.haderr  BY <2>4 DEF Same, Fields, Core
    <3>. QED BY <1>1, <3>1, DataIs
  <2>7. Live(r, e) /\ Top(r) = Top(s)  BY <2>4, <2>5, <2>6, LiveReads
  <2>8. r.call # <<>> /\ Handled(r)  BY <2>7 DEF Live, Handled, Handles
  <2>. QED BY <2>1, <2>7, <2>8, SoundIs
<1>. QED BY <1>2, <1>3
-----------------------------------------------------------------------------
(* The commands of a line. *)

LEMMA CallIs ==
  ASSUME NEW s, DOMAIN s = Fields, NEW g
  PROVE  Same(Call(s, g), s, {"call"}) /\ Call(s, g).call = Append(s.call, g)
<1> DEFINE q == Append(s.call, g)
<1>1. Call(s, g) = [s EXCEPT !.call = q]  BY DEF Call
<1> HIDE DEF q
<1>2. Same([s EXCEPT !.call = q], s, {"call"}) /\ [s EXCEPT !.call = q].call = q
  BY DEF Same, Fields, Core
<1>. QED BY <1>1, <1>2 DEF q

LEMMA ExecuteSound ==
  ASSUME NoRepeat, NEW s, NEW e, Live(s, e), Top(s).k \in {"P", "H"}, Top(s).at = "run", s.haderr = FALSE, NEW c \in Commands
  PROVE  Sound(execute(s, c, FALSE))
<1>1. Data(s) /\ DOMAIN s = Fields /\ ~s.aborted /\ s.call # <<>> /\ Stack(s, e)  BY DEF Live, Data
<1>2. Ready(s) /\ Over(s, s)  BY <1>1, ReadyIs, OverSelf DEF Catches
<1>3. CASE c.c = "undef"
  <2>1. execute(s, c, FALSE) = stderror(s, FALSE)  BY <1>3 DEF execute
  <2>. QED BY <1>2, <2>1, StderrorSound
<1>4. CASE c.c = "ext" /\ s.pintr_pending
  <2> DEFINE t == [s EXCEPT !.pintr_pending = FALSE]
  <2>1. execute(s, c, FALSE) = pintr1(t)  BY <1>4 DEF execute
  <2>2. /\ Same(t, s, {"arena", "evalvec"} \cup Aside) /\ t.arena = s.arena /\ t.evalvec = s.evalvec /\ t.haderr = s.haderr
    BY <1>1 DEF Same, Fields, Core, Aside, Streams3
  <2> HIDE DEF t
  <2>3. s.arena \in Arenas /\ s.evalvec \in EvalLines  BY <1>1 DEF Data, Input
  <2>4. Over(t, s) /\ t.call = s.call  BY <1>2, <2>2, <2>3, ReadsOver
  <2>. QED BY <1>2, <2>1, <2>4, Pintr1Sound
<1>5. CASE c.c = "ext" /\ ~s.pintr_pending
  <2> DEFINE w == Wrote(s, c)
             r == Finish(w, FALSE)
  <2>1. execute(s, c, FALSE) = r  BY <1>5 DEF execute
  <2>2. Same(w, s, {"out"})
    <3> DEFINE o == [to |-> IF c.c = "ext" /\ c.to # "" THEN c.to ELSE Output(s),
                     wants |-> IF c.to # "" THEN c.to ELSE Wants(s)]
    <3>1. w = [s EXCEPT !.out = o]  BY DEF Wrote
    <3> HIDE DEF o, w
    <3>. QED BY <1>1, <3>1 DEF Same
  <2> HIDE DEF w
  <2>3. DOMAIN w = Fields  BY <2>2 DEF Same
  <2>4. Same(r, w, Streams3)  BY <2>3, FinishIs
  <2> HIDE DEF r
  <2>5. Same(r, s, {"out"} \cup Streams3)  BY <2>2, <2>4, SameTrans
  <2>6. r.haderr = FALSE  BY <2>5 DEF Same, Fields, Core, Streams3
  <2>7. {"out"} \cup Streams3 \in SUBSET Aside  BY DEF Aside
  <2>8. Live(r, e) /\ Top(r) = Top(s)  BY <2>5, <2>6, <2>7, LiveSame
  <2>9. Handled(r) /\ r.call # <<>>  BY <2>6, <2>8 DEF Handled, Live
  <2>. QED BY <2>1, <2>8, <2>9, SoundIs
<1>6. CASE c.c \notin {"undef", "ext"}
  <2> DEFINE d == doio(s, c, FALSE)
             z == [d EXCEPT !.last = c.c]
             g == [k |-> "B", cmd |-> c, at |-> "start", oh |-> s.haderr, again |-> FALSE, left |-> 0]
             r == Call(z, g)
             n == Len(s.call)
  <2>1. execute(s, c, FALSE) = r  BY <1>6 DEF execute
  <2>2. Same(d, s, Streams3)  BY <1>1, DoioIs, SameOnly
  <2> HIDE DEF d
  <2>3. Same(z, d, {"last"}) /\ DOMAIN z = Fields  BY <2>2 DEF Same, Fields, Core
  <2> HIDE DEF z
  <2>4. Same(z, s, {"last"} \cup Streams3)  BY <2>2, <2>3, SameTrans
  <2>5. z.haderr = FALSE  BY <2>4 DEF Same, Fields, Core, Streams3
  <2>6. {"last"} \cup Streams3 \in SUBSET Aside  BY DEF Aside
  <2>7. Live(z, e) /\ Top(z) = Top(s)  BY <2>4, <2>5, <2>6, LiveSame
  <2> HIDE DEF g
  <2>8. Same(r, z, {"call"}) /\ r.call = Append(z.call, g)  BY <2>3, CallIs
  <2> HIDE DEF r
  <2>9. Data(z) /\ ~z.aborted /\ z.call # <<>> /\ Stack(z, e)  BY <2>7 DEF Live
  <2>10. Data(r) /\ EnvOf(r) = EnvOf(z) /\ r.cs = z.cs /\ ~r.aborted
    <3>1. Same(r, z, {} \cup {"call"}) /\ {} \in SUBSET Aside  BY <2>8
    <3>2. r.haderr = z.haderr  BY <2>8 DEF Same, Fields, Core
    <3>. QED BY <2>5, <2>9, <3>1, <3>2, DataSame
  <2>11. g \in Builtins /\ g.k = "B" /\ g.at = "start"  BY <1>6 DEF g, Builtins, Internals
  <2>12. Frame(g, Len(z.call) + 1, r.cs, EnvOf(z), EnvOf(r))
    <3> DEFINE E == EnvOf(z)
               j == Len(z.call) + 1
    <3>1. E \in Envs /\ EnvOf(r) = E  BY <2>9, <2>10, DataIs
    <3> HIDE DEF E, j
    <3>2. Frame(g, j, r.cs, E, E)  BY <2>11, <3>1 DEF Frame, Frames, Pushed, Doomed
    <3>. QED BY <3>1, <3>2 DEF E, j
  <2>13. Calls(Top(z), g)  BY <2>7, <2>11 DEF Calls
  <2>14. Enters(r, z, g)  BY <2>8, <2>10, <2>12, <2>13 DEF Enters
  <2>15. (\E e2 : Stack(r, e2)) /\ r.call # <<>> /\ Top(r) = g  BY <2>9, <2>14, TopEnters
  <2>16. r.haderr = FALSE  BY <2>5, <2>8 DEF Same, Fields, Core
  <2>17. Handled(r)  BY <2>11, <2>15, <2>16 DEF Handled
  <2>. QED BY <2>1, <2>10, <2>15, <2>17 DEF Sound
<1>. QED BY <1>3, <1>4, <1>5, <1>6

\* A line or a hook that goes on running.
LEMMA RunsAt ==
  ASSUME NEW f, NEW i, NEW cs, NEW a, NEW b, Frame(f, i, cs, a, b), f.k \in {"P", "H"}, f.at = "run", NEW q \in Seq(Commands)
  PROVE  /\ Frame([f EXCEPT !.todo = q], i, cs, a, b) /\ [f EXCEPT !.todo = q].k = f.k
         /\ [f EXCEPT !.todo = q].at = "run" /\ (f.k = "P" => [f EXCEPT !.todo = q].catch = f.catch)
         /\ f.todo \in Seq(Commands)
<1> DEFINE g == [f EXCEPT !.todo = q]
<1>1. f \in Frames /\ a \in Envs /\ b \in Envs /\ Pushed(f, i, cs, a, b) /\ f.omark = a.m /\ Doomed(f, a, b)  BY DEF Frame
<1>2. g \in Frames /\ g.k = f.k /\ g.at = f.at /\ g.omark = f.omark /\ g.failed = f.failed /\ (f.k = "P" => g.catch = f.catch)
      /\ f.todo \in Seq(Commands)
  BY <1>1 DEF Frames, Processes, Hooks, Builtins
<1> HIDE DEF g
<1>3. Frame(g, i, cs, a, b)  BY <1>1, <1>2 DEF Frame, Pushed, Doomed
<1>. QED BY <1>2, <1>3 DEF g

LEMMA EndsAt ==
  ASSUME NEW f, NEW i, NEW cs, NEW a, NEW b, Frame(f, i, cs, a, b), f.k \in {"P", "H"}, f.at = "run",
         NEW pc, pc = IF f.k = "P" THEN "done" ELSE "after"
  PROVE  /\ Frame([f EXCEPT !.at = pc], i, cs, a, b) /\ [f EXCEPT !.at = pc].k = f.k
         /\ [f EXCEPT !.at = pc].at = pc /\ (f.k = "P" => [f EXCEPT !.at = pc].catch = f.catch)
<1> DEFINE g == [f EXCEPT !.at = pc]
<1>1. f \in Frames /\ a \in Envs /\ b \in Envs /\ Pushed(f, i, cs, a, b) /\ f.omark = a.m /\ Doomed(f, a, b)  BY DEF Frame
<1>2. g \in Frames /\ g.k = f.k /\ g.at = pc /\ g.omark = f.omark /\ g.failed = f.failed /\ (f.k = "P" => g.catch = f.catch)
  BY <1>1 DEF Frames, Processes, Hooks, Builtins
<1> HIDE DEF g
<1>3. Frame(g, i, cs, a, b)  BY <1>1, <1>2 DEF Frame, Pushed, Doomed
<1>. QED BY <1>2, <1>3 DEF g

LEMMA RunNextSound ==
  ASSUME NoRepeat, NEW s, NEW e, Live(s, e), Top(s).k \in {"P", "H"}, Top(s).at = "run", s.haderr = FALSE
  PROVE  Sound(RunNext(s))
<1> DEFINE f == Top(s)
           n == Len(s.call)
<1>1. Data(s) /\ DOMAIN s = Fields /\ ~s.aborted /\ s.call # <<>> /\ Stack(s, e)  BY DEF Live, Data
<1>2. Frame(f, n, s.cs, e[n], EnvOf(s))  BY <1>1, StackIs
<1>3. f.todo \in Seq(Commands)
  <2>1. f \in Frames  BY <1>2 DEF Frame
  <2>. QED BY <2>1 DEF Frames, Processes, Hooks, Builtins
<1>4. CASE f.todo = <<>>
  <2> DEFINE pc == IF f.k = "P" THEN "done" ELSE "after"
             g == [f EXCEPT !.at = pc]
             r == SetTop(s, g)
  <2>1. RunNext(s) = r  BY <1>4, AtIs DEF RunNext
  <2>2. Frame(g, n, s.cs, e[n], EnvOf(s)) /\ g.k = f.k /\ g.at = pc /\ (f.k = "P" => g.catch = f.catch)
    <3> HIDE DEF f, n
    <3>1. f.k \in {"P", "H"} /\ f.at = "run"  BY DEF f
    <3>2. pc = IF f.k = "P" THEN "done" ELSE "after"  OBVIOUS
    <3> HIDE DEF pc
    <3>. QED BY <1>2, <3>1, <3>2, EndsAt
  <2>3. pc \in {"done", "after"}  OBVIOUS
  <2> HIDE DEF g, pc
  <2>4. Becomes(r, s, g) /\ \E e2 : Live(r, e2)  BY <2>2, Sets
  <2> HIDE DEF r
  <2>5. Top(r) = g /\ r.call # <<>> /\ r.haderr = FALSE  BY <2>4 DEF Becomes, Same, Fields, Core
  <2>6. Handled(r)  BY <2>2, <2>3, <2>5 DEF Handled
  <2>. QED BY <2>1, <2>4, <2>5, <2>6, SoundIs
<1>5. CASE f.todo # <<>>
  <2> DEFINE q == Tail(f.todo)
             g == [f EXCEPT !.todo = q]
             r == SetTop(s, g)
             c == Head(f.todo)
  <2>1. RunNext(s) = execute(r, c, FALSE)  BY <1>5 DEF RunNext
  <2>2. c \in Commands /\ q \in Seq(Commands)
    <3> HIDE DEF f
    <3>. QED BY <1>3, <1>5
  <2> HIDE DEF q, c
  <2>3. Frame(g, n, s.cs, e[n], EnvOf(s)) /\ g.k = f.k /\ g.at = "run" /\ (f.k = "P" => g.catch = f.catch)
    <3> HIDE DEF f, n
    <3>1. f.k \in {"P", "H"} /\ f.at = "run"  BY DEF f
    <3>. QED BY <1>2, <2>2, <3>1, RunsAt
  <2> HIDE DEF g
  <2>4. Becomes(r, s, g) /\ \E e2 : Live(r, e2)  BY <2>3, Sets
  <2> HIDE DEF r
  <2>5. Top(r) = g /\ r.haderr = FALSE  BY <2>4 DEF Becomes, Same, Fields, Core
  <2>. QED BY <2>1, <2>2, <2>3, <2>4, <2>5, ExecuteSound
<1>. QED BY <1>4, <1>5
-----------------------------------------------------------------------------
(* The hooks. *)

\* r is s with one entry more on its cleanup stack, and interrupts disabled d times.
Adds(r, s, v, fn, old, d) ==
  /\ Data(r) /\ Same(r, s, {"cs", "pintr_disabled"}) /\ r.pintr_disabled = d
  /\ Len(r.cs) = Len(s.cs) + 1 /\ r.cs[Len(s.cs) + 1] = [v |-> v, fn |-> fn, old |-> old]
  /\ \A i \in 1 .. Len(s.cs) : r.cs[i] = s.cs[i]

LEMMA AddsIs ==
  ASSUME NEW s, Data(s), NEW t, Same(t, s, {"pintr_disabled"}), t.pintr_disabled \in Int, NEW v, NEW fn, NEW old
  PROVE  Adds(cleanup_push(t, v, fn, old), s, v, fn, old, t.pintr_disabled)
<1> DEFINE x1 == [v |-> v, fn |-> fn, old |-> old]
           q == Append(t.cs, x1)
           r == [t EXCEPT !.cs = q]
<1>1. DOMAIN s = Fields /\ IsSeq(s.cs) /\ DOMAIN t = Fields /\ t.cs = s.cs  BY DEF Data, Same, Fields, Core
<1>4. cleanup_push(t, v, fn, old) = r  BY DEF cleanup_push
<1> HIDE DEF x1
<1>2. Longer(q, s.cs, x1)  BY <1>1, AppendIs
<1>3. IsSeq(q) /\ Len(q) = Len(s.cs) + 1 /\ q[Len(s.cs) + 1] = x1 /\ \A i \in 1 .. Len(s.cs) : q[i] = s.cs[i]
  BY <1>2 DEF Longer
<1> HIDE DEF q
<1>10. Same(r, t, {"cs"}) /\ r.cs = q  BY <1>1 DEF Same, Fields, Core
<1> HIDE DEF r
<1>5. Same(r, s, {"cs", "pintr_disabled"}) /\ r.pintr_disabled = t.pintr_disabled  BY <1>10 DEF Same, Fields, Core
<1>6. /\ DOMAIN r = Fields /\ r.mark = s.mark /\ r.fnlvl = s.fnlvl /\ r.haderr = s.haderr
      /\ r.insource = s.insource /\ r.justpr = s.justpr /\ r.aliases = s.aliases /\ r.evalvec = s.evalvec
      /\ r.enterhist = s.enterhist /\ r.intty = s.intty /\ r.gointr = s.gointr /\ r.arena = s.arena
  BY <1>5 DEF Same, Fields, Core
<1>7. Input(r)
  <2>1. Input(s)  BY DEF Data
  <2>. QED BY <1>6, <2>1 DEF Input
<1>8. Data(r)  BY <1>3, <1>5, <1>6, <1>7, <1>10, DataIs, DataBy
<1>9. Adds(r, s, v, fn, old, t.pintr_disabled)  BY <1>3, <1>5, <1>8, <1>10 DEF Adds, x1
<1>. QED BY <1>4, <1>9

LEMMA PushAdds ==
  ASSUME NEW s, Data(s), NEW v, NEW fn, NEW old
  PROVE  Adds(cleanup_push(s, v, fn, old), s, v, fn, old, s.pintr_disabled)
<1>1. s.pintr_disabled \in Int /\ Same(s, s, {"pintr_disabled"})  BY DataIs DEF Same
<1>. QED BY <1>1, AddsIs

LEMMA PintrAdds ==
  ASSUME NEW s, Data(s)
  PROVE  Adds(PushPintr(s), s, Var("pintr_disabled"), "disabled_cleanup", 0, s.pintr_disabled + 1)
<1> DEFINE t == [s EXCEPT !.pintr_disabled = @ + 1]
<1>1. s.pintr_disabled \in Int /\ DOMAIN s = Fields  BY DataIs
<1>2. Same(t, s, {"pintr_disabled"}) /\ t.pintr_disabled = s.pintr_disabled + 1  BY <1>1 DEF Same, Fields, Core
<1>3. PushPintr(s) = cleanup_push(t, Var("pintr_disabled"), "disabled_cleanup", 0)  BY DEF PushPintr
<1> HIDE DEF t
<1>4. Adds(PushPintr(s), s, Var("pintr_disabled"), "disabled_cleanup", 0, t.pintr_disabled)  BY <1>1, <1>2, <1>3, AddsIs
<1>. QED BY <1>2, <1>4

\* Nothing of a stack has changed but what its cleanup entries do not say.
LEMMA LiveCut ==
  ASSUME NEW s, NEW e, Live(s, e), NEW r, Data(r), ~r.aborted, EnvOf(r) = EnvOf(s), r.call = s.call,
         \A i \in 1 .. Len(s.cs) : r.cs[i] = s.cs[i]
  PROVE  Live(r, e) /\ Top(r) = Top(s)
<1> DEFINE n == Len(s.call)
<1>1. Chain(s.call, s.cs, e, n) /\ e[n + 1] = EnvOf(s) /\ IsSeq(s.call) /\ s.call # <<>>  BY DEF Live, Stack
<1>2. n \in Nat /\ n \in 0 .. n
  <2>1. n \in Nat  BY <1>1, ChainIs
  <2> HIDE DEF n
  <2>. QED BY <2>1
<1>3. e[n + 1].b = Len(s.cs)  BY <1>1, EnvOfIs
<1>4. Chain(r.call, r.cs, e, n)
  <2> HIDE DEF n
  <2>. QED BY <1>1, <1>2, <1>3, ChainKept
<1>5. Len(r.call) = n /\ r.call # <<>> /\ Top(r) = Top(s)  BY <1>1 DEF Top
<1>6. Stack(r, e)
  <2> HIDE DEF n
  <2>. QED BY <1>1, <1>4, <1>5 DEF Stack
<1>. QED BY <1>5, <1>6 DEF Live

\* r is z without its last entry, which disabled interrupts.
Left(r, z) ==
  /\ Data(r) /\ r.call = z.call /\ r.haderr = z.haderr /\ r.aborted = z.aborted
  /\ EnvOf(r) = Env(Len(z.cs) - 1, z.mark, z.pintr_disabled - 1, z.fnlvl, z.insource)
  /\ \A i \in 1 .. Len(z.cs) - 1 : r.cs[i] = z.cs[i]

LEMMA LeaveIs ==
  ASSUME NEW z, Data(z), Len(z.cs) > 0, z.cs[Len(z.cs)].v = Var("pintr_disabled"), z.cs[Len(z.cs)].fn = "disabled_cleanup", NEW h
  PROVE  Left(Leave(z, h), z)
<1> DEFINE v == EnvOf(z)
           d == z.pintr_disabled - 1
           u == UndoLast(z)
           q == [Less(v) EXCEPT !.d = d]
           r == [u EXCEPT !.active = @ \ {h}]
<1>1. IsSeq(z.cs) /\ Len(z.cs) \in Nat /\ v \in Envs /\ z.pintr_disabled \in Int /\ z.mark \in Nat  BY DataIs
<1>2. v.b = Len(z.cs) /\ v.m = z.mark /\ v.d = z.pintr_disabled /\ v.l = z.fnlvl /\ v.src = z.insource  BY EnvOfIs
<1>3. cleanup_until(z, Var("pintr_disabled")) = u  BY <1>1, UntilTop
<1>4. Cut(z, z, v)  BY <1>1, <1>2, DataIs, CutBy
<1> HIDE DEF v
<1>5. d \in Int /\ d = v.d - 1 /\ v.b > 0  BY <1>1, <1>2
<1> HIDE DEF d
<1>6. Cut(u, z, q)  BY <1>2, <1>4, <1>5, UndoDisabled
<1>7. Less(v) \in Envs /\ Less(v).b = Len(z.cs) - 1 /\ Less(v).l = z.fnlvl /\ Less(v).src = z.insource  BY <1>1, <1>2, <1>5, LessIs
<1>8. q \in Envs /\ q.b = Len(z.cs) - 1 /\ q.d = d /\ q.l = z.fnlvl /\ q.src = z.insource  BY <1>5, <1>7 DEF Envs
<1> HIDE DEF q, u
<1>9. /\ Data(u) /\ u.call = z.call /\ u.haderr = z.haderr /\ u.aborted = z.aborted /\ DOMAIN u = Fields
      /\ EnvOf(u) = [q EXCEPT !.m = z.mark] /\ \A i \in 1 .. Len(z.cs) - 1 : u.cs[i] = z.cs[i]
  BY <1>6, <1>8, DataIs DEF Cut
<1>10. EnvOf(u) = Env(Len(z.cs) - 1, z.mark, d, z.fnlvl, z.insource)  BY <1>8, <1>9 DEF Envs, Env
<1>11. DOMAIN r = Fields /\ (\A f \in Core \ {"call", "aborted"} : r[f] = u[f]) /\ r.call = u.call /\ r.cs = u.cs
       /\ r.haderr = u.haderr /\ r.aborted = u.aborted
  BY <1>9 DEF Core, Fields
<1>13. Leave(z, h) = r  BY <1>3 DEF Leave
<1> HIDE DEF r
<1>12. Data(r) /\ EnvOf(r) = EnvOf(u)  BY <1>9, <1>11, DataLike
<1>14. Left(r, z)  BY <1>9, <1>10, <1>11, <1>12 DEF Left, d
<1>. QED BY <1>13, <1>14

\* z is s with the entry of a hook that is not run.
LEMMA LeaveLive ==
  ASSUME NEW s, NEW e, Live(s, e), NEW z, Data(z), Len(z.cs) = Len(s.cs) + 1,
         z.cs[Len(s.cs) + 1].v = Var("pintr_disabled"), z.cs[Len(s.cs) + 1].fn = "disabled_cleanup",
         \A i \in 1 .. Len(s.cs) : z.cs[i] = s.cs[i], z.pintr_disabled = s.pintr_disabled + 1,
         z.mark = s.mark, z.fnlvl = s.fnlvl, z.insource = s.insource, z.call = s.call, z.aborted = s.aborted, NEW h
  PROVE  Live(Leave(z, h), e) /\ Top(Leave(z, h)) = Top(s) /\ Leave(z, h).haderr = z.haderr
<1> DEFINE r == Leave(z, h)
           m == Len(s.cs)
           d == s.pintr_disabled
<1>1. m \in Nat /\ d \in Int /\ Data(s) /\ ~s.aborted  BY DataIs DEF Live
<1>2. Len(z.cs) > 0 /\ Len(z.cs) = m + 1 /\ Len(z.cs) - 1 = m /\ z.pintr_disabled - 1 = d  BY <1>1
<1>3. Left(r, z)
  <2>1. z.cs[Len(z.cs)].v = Var("pintr_disabled") /\ z.cs[Len(z.cs)].fn = "disabled_cleanup"  BY <1>2
  <2>. QED BY <1>2, <2>1, LeaveIs
<1> HIDE DEF r
<1>4. EnvOf(r) = EnvOf(s)
  <2>1. EnvOf(r) = Env(Len(z.cs) - 1, z.mark, z.pintr_disabled - 1, z.fnlvl, z.insource)  BY <1>3 DEF Left
  <2>2. EnvOf(r) = Env(m, s.mark, d, s.fnlvl, s.insource)  BY <1>2, <2>1
  <2>. QED BY <2>2 DEF EnvOf
<1>5. Data(r) /\ ~r.aborted /\ r.call = s.call /\ r.haderr = z.haderr  BY <1>1, <1>3 DEF Left
<1>6. \A i \in 1 .. m : r.cs[i] = s.cs[i]
  <2>1. \A i \in 1 .. m : r.cs[i] = z.cs[i]  BY <1>2, <1>3 DEF Left
  <2>. QED BY <2>1
<1>7. Live(r, e) /\ Top(r) = Top(s)  BY <1>4, <1>5, <1>6, LiveCut
<1>. QED BY <1>5, <1>7 DEF r

LEMMA RemovedIs ==
  ASSUME NEW s, Data(s), NEW h
  PROVE  Data(Removed(s, h)) /\ Same(Removed(s, h), s, {"aliases"})
<1> DEFINE q == [g \in DOMAIN s.aliases \ {h} |-> s.aliases[g]]
           r == [s EXCEPT !.aliases = q]
<1>1. DOMAIN s = Fields /\ \A g \in DOMAIN s.aliases : s.aliases[g] \in Lines  BY DataIs
<1>2. \A g \in DOMAIN q : q[g] \in Lines  BY <1>1
<1>3. Removed(s, h) = r  BY DEF Removed
<1> HIDE DEF q
<1>4. Same(r, s, {"aliases"}) /\ r.aliases = q  BY <1>1 DEF Same, Fields, Core
<1> HIDE DEF r
<1>5. /\ DOMAIN r = Fields /\ r.cs = s.cs /\ r.mark = s.mark /\ r.pintr_disabled = s.pintr_disabled /\ r.fnlvl = s.fnlvl
      /\ r.insource = s.insource /\ r.justpr = s.justpr /\ r.evalvec = s.evalvec /\ r.haderr = s.haderr
      /\ r.enterhist = s.enterhist /\ r.intty = s.intty /\ r.gointr = s.gointr /\ r.arena = s.arena
  BY <1>4 DEF Same, Fields, Core
<1>6. Input(r)
  <2>1. Input(s)  BY DEF Data
  <2>. QED BY <1>5, <2>1 DEF Input
<1>7. Data(r)  BY <1>2, <1>4, <1>5, <1>6, DataIs, DataBy
<1>. QED BY <1>3, <1>4, <1>7

LEMMA EnvSame ==
  ASSUME NEW a \in Envs, NEW b \in Envs, a.b = b.b, a.m = b.m, a.d = b.d, a.l = b.l, a.src = b.src
  PROVE  a = b
BY EnvIs

LEMMA HookSound ==
  ASSUME NoRepeat, NEW s, NEW e, Live(s, e), Top(s).k = "P", Top(s).at \in {"lex", "run"}, s.haderr = FALSE,
         NEW h \in {"precmd", "postcmd"}
  PROVE  Sound(Hook(s, h))
<1> DEFINE y == PushPintr(s)
           m == Len(s.cs)
           n == Len(s.call)
           d == s.pintr_disabled
           y1 == [y EXCEPT !.active = @ \cup {h}]
           w == cleanup_push(y1, <<"w", Len(y.call)>>, "lex_cleanup", 0)
           g == [k |-> "H", hook |-> h, omark |-> s.mark, at |-> "run", todo |-> s.aliases[h].cmds, failed |-> FALSE]
           c == Call(w, g)
           r == [c EXCEPT !.mark = Len(w.cs)]
<1>1. Data(s) /\ DOMAIN s = Fields /\ ~s.aborted /\ s.call # <<>> /\ Stack(s, e) /\ m \in Nat /\ d \in Int  BY DataIs DEF Live, Data
<1>2. Ready(s)  BY ReadyIs DEF Catches
<1>3. Adds(y, s, Var("pintr_disabled"), "disabled_cleanup", 0, d + 1)  BY <1>1, PintrAdds
<1>4. Hook(s, h) = IF h \in s.active THEN Leave(Removed(y, h), h)
                   ELSE IF h \notin DOMAIN s.aliases THEN Leave(y, h)
                   ELSE IF s.aliases[h].bad THEN stderror(w, FALSE) ELSE r
  BY DEF Hook
<1> HIDE DEF y
<1>5. /\ Data(y) /\ Len(y.cs) = m + 1 /\ y.cs[m + 1].v = Var("pintr_disabled") /\ y.cs[m + 1].fn = "disabled_cleanup"
      /\ y.pintr_disabled = d + 1 /\ \A i \in 1 .. m : y.cs[i] = s.cs[i]
  BY <1>3 DEF Adds
<1>6. /\ y.mark = s.mark /\ y.fnlvl = s.fnlvl /\ y.insource = s.insource /\ y.call = s.call /\ y.aborted = s.aborted
      /\ y.haderr = FALSE /\ DOMAIN y = Fields
  BY <1>3 DEF Adds, Same, Fields, Core
<1>7. ASSUME NEW z, Live(z, e), Top(z) = Top(s), z.haderr = FALSE PROVE Sound(z)
  <2>1. Handled(z) /\ z.call # <<>>  BY <1>7 DEF Handled, Live
  <2>. QED BY <1>7, <2>1, SoundIs
<1>8. Sound(Leave(y, h))
  <2>1. Live(Leave(y, h), e) /\ Top(Leave(y, h)) = Top(s) /\ Leave(y, h).haderr = y.haderr
    <3> HIDE DEF m, d
    <3>1. m = Len(s.cs) /\ d = s.pintr_disabled  BY DEF m, d
    <3>. QED BY <1>5, <1>6, <3>1, LeaveLive
  <2>. QED BY <1>6, <1>7, <2>1
<1>9. Sound(Leave(Removed(y, h), h))
  <2> DEFINE z == Removed(y, h)
  <2>1. Data(z) /\ Same(z, y, {"aliases"})  BY <1>5, RemovedIs
  <2> HIDE DEF z
  <2>2. /\ z.cs = y.cs /\ z.pintr_disabled = y.pintr_disabled /\ z.mark = y.mark /\ z.fnlvl = y.fnlvl
        /\ z.insource = y.insource /\ z.call = y.call /\ z.aborted = y.aborted /\ z.haderr = y.haderr
    BY <2>1 DEF Same, Fields, Core
  <2>3. Live(Leave(z, h), e) /\ Top(Leave(z, h)) = Top(s) /\ Leave(z, h).haderr = z.haderr
    <3> HIDE DEF m, d
    <3>1. m = Len(s.cs) /\ d = s.pintr_disabled  BY DEF m, d
    <3>2. /\ Len(z.cs) = m + 1 /\ z.cs[m + 1].v = Var("pintr_disabled") /\ z.cs[m + 1].fn = "disabled_cleanup"
          /\ z.pintr_disabled = d + 1 /\ \A i \in 1 .. m : z.cs[i] = s.cs[i]
      BY <1>5, <2>2
    <3>3. z.mark = s.mark /\ z.fnlvl = s.fnlvl /\ z.insource = s.insource /\ z.call = s.call /\ z.aborted = s.aborted
      BY <1>6, <2>2
    <3>. QED BY <2>1, <3>1, <3>2, <3>3, LeaveLive
  <2>4. Sound(Leave(z, h))  BY <1>6, <1>7, <2>2, <2>3
  <2>. QED BY <2>4 DEF z
<1>10. Same(y1, y, {"active"})  BY <1>6 DEF Same, Fields, Core
<1> HIDE DEF y1
<1>11. Data(y1) /\ y1.cs = y.cs /\ y1.pintr_disabled = d + 1
  <2>1. Same(y1, y, {"active"} \cup {"call"}) /\ {"active"} \in SUBSET Aside  BY <1>10 DEF Same, Aside
  <2>2. y1.haderr = FALSE /\ y1.pintr_disabled = y.pintr_disabled  BY <1>6, <1>10 DEF Same, Fields, Core
  <2>. QED BY <1>5, <2>1, <2>2, DataSame
<1>12. Adds(w, y1, <<"w", Len(y.call)>>, "lex_cleanup", 0, y1.pintr_disabled)  BY <1>11, PushAdds
<1> HIDE DEF w
<1>13. /\ Data(w) /\ Same(w, y1, {"cs", "pintr_disabled"}) /\ w.pintr_disabled = d + 1 /\ Len(w.cs) = m + 2
       /\ w.cs[m + 2].v = <<"w", n>> /\ w.cs[m + 2].fn = "lex_cleanup"
       /\ w.cs[m + 1].v = Var("pintr_disabled") /\ w.cs[m + 1].fn = "disabled_cleanup"
       /\ \A i \in 1 .. m : w.cs[i] = s.cs[i]
  <2>1. /\ Data(w) /\ Same(w, y1, {"cs", "pintr_disabled"}) /\ w.pintr_disabled = d + 1 /\ Len(w.cs) = Len(y.cs) + 1
        /\ w.cs[Len(y.cs) + 1] = [v |-> <<"w", Len(y.call)>>, fn |-> "lex_cleanup", old |-> 0]
        /\ \A i \in 1 .. Len(y.cs) : w.cs[i] = y.cs[i]
    BY <1>11, <1>12 DEF Adds
  <2>2. Len(y.cs) = m + 1 /\ Len(y.cs) + 1 = m + 2 /\ m + 1 \in 1 .. Len(y.cs) /\ \A i \in 1 .. m : i \in 1 .. Len(y.cs)
    <3> HIDE DEF m
    <3>. QED BY <1>1, <1>5
  <2>3. w.cs[m + 2] = [v |-> <<"w", n>>, fn |-> "lex_cleanup", old |-> 0]
    <3>1. Len(y.call) = n  BY <1>6
    <3>. QED BY <2>1, <2>2, <3>1
  <2>4. w.cs[m + 1] = y.cs[m + 1] /\ \A i \in 1 .. m : w.cs[i] = y.cs[i]  BY <2>1, <2>2
  <2> HIDE DEF m, n
  <2>. QED BY <1>5, <2>1, <2>2, <2>3, <2>4
<1>14. /\ w.mark = s.mark /\ w.fnlvl = s.fnlvl /\ w.insource = s.insource /\ w.call = s.call /\ ~w.aborted
       /\ w.haderr = FALSE /\ DOMAIN w = Fields
  <2>1. /\ w.mark = y1.mark /\ w.fnlvl = y1.fnlvl /\ w.insource = y1.insource /\ w.call = y1.call /\ w.aborted = y1.aborted
        /\ w.haderr = y1.haderr /\ DOMAIN w = Fields
    BY <1>13 DEF Same, Fields, Core
  <2>2. /\ y1.mark = y.mark /\ y1.fnlvl = y.fnlvl /\ y1.insource = y.insource /\ y1.call = y.call /\ y1.aborted = y.aborted
        /\ y1.haderr = y.haderr
    BY <1>10 DEF Same, Fields, Core
  <2>. QED BY <1>1, <1>6, <2>1, <2>2
<1>15. Sound(stderror(w, FALSE))
  <2>1. Over(w, s)
    <3>1. Len(w.cs) >= m /\ Len(w.cs) - 1 = m + 1
      <4> HIDE DEF m
      <4>. QED BY <1>1, <1>13
    <3>. QED BY <1>13, <1>14, <3>1 DEF Over
  <2>. QED BY <1>2, <1>14, <2>1, StderrorSound
<1>16. ASSUME h \in DOMAIN s.aliases PROVE Sound(r)
  <2>1. g \in Hooks /\ g.k = "H" /\ g.at = "run" /\ g.omark = s.mark /\ g.failed = FALSE
    <3>1. s.aliases[h] \in Lines  BY <1>1, <1>16, DataIs
    <3>2. s.aliases[h].cmds \in Seq(Commands)  BY <3>1 DEF NoRepeat
    <3>3. s.mark \in Nat  BY <1>1, DataIs
    <3>. QED BY <3>2, <3>3 DEF Hooks
  <2> HIDE DEF g
  <2>2. Same(c, w, {"call"}) /\ c.call = Append(w.call, g)  BY <1>14, CallIs
  <2> HIDE DEF c
  <2>3. Same(r, w, {"call", "mark"}) /\ r.call = Append(s.call, g) /\ r.mark = Len(w.cs)
    BY <1>14, <2>2 DEF Same, Fields, Core
  <2> HIDE DEF r
  <2>4. /\ DOMAIN r = Fields /\ r.cs = w.cs /\ r.pintr_disabled = w.pintr_disabled /\ r.fnlvl = w.fnlvl
        /\ r.insource = w.insource /\ r.justpr = w.justpr /\ r.evalvec = w.evalvec /\ r.haderr = w.haderr /\ r.aliases = w.aliases
        /\ r.enterhist = w.enterhist /\ r.intty = w.intty /\ r.gointr = w.gointr /\ r.arena = w.arena /\ r.aborted = w.aborted
    BY <2>3 DEF Same, Fields, Core
  <2>5. Input(r)
    <3>1. Input(w)  BY <1>13 DEF Data
    <3>. QED BY <2>4, <3>1 DEF Input
  <2>6. Data(r)
    <3>1. r.mark \in Nat  BY <1>13, <2>3, DataIs
    <3>. QED BY <1>13, <2>4, <2>5, <3>1, DataIs, DataBy
  <2> DEFINE a == EnvOf(s)
             b == EnvOf(r)
  <2>7. a \in Envs /\ b \in Envs  BY <1>1, <2>6, DataIs
  <2>8. a.b = m /\ a.m = s.mark /\ b = [a EXCEPT !.b = m + 2, !.m = m + 2, !.d = d + 1] /\ a.d = d /\ b.b = m + 2
    <3>1. b = Env(m + 2, m + 2, d + 1, s.fnlvl, s.insource)  BY <1>13, <1>14, <2>3, <2>4 DEF EnvOf
    <3>2. a = Env(m, s.mark, d, s.fnlvl, s.insource)  BY DEF EnvOf
    <3> HIDE DEF a, b, m, d
    <3> DEFINE p == m + 2
               q == d + 1
    <3>3. p \in Nat /\ q \in Int  BY <1>1 DEF p, q
    <3> HIDE DEF p, q
    <3> DEFINE R == [a EXCEPT !.b = p, !.m = p, !.d = q]
    <3>4. a.b = m /\ a.m = s.mark /\ a.d = d /\ a.l = s.fnlvl /\ a.src = s.insource  BY <3>2 DEF Env
    <3>5. b.b = p /\ b.m = p /\ b.d = q /\ b.l = s.fnlvl /\ b.src = s.insource  BY <3>1 DEF Env, p, q
    <3>6. R \in Envs /\ R.b = p /\ R.m = p /\ R.d = q /\ R.l = a.l /\ R.src = a.src  BY <2>7, <3>3 DEF Envs
    <3>7. b = R
      <4> HIDE DEF R
      <4>. QED BY <2>7, <3>4, <3>5, <3>6, EnvSame
    <3>. QED BY <3>4, <3>5, <3>7 DEF p, q
  <2> HIDE DEF a, b
  <2>9. Frame(g, n + 1, r.cs, a, b)
    <3>1. n \in Nat
      <4>. QED BY <1>1, StackIs
    <3>2. n + 1 - 1 = n
      <4> HIDE DEF n
      <4>. QED BY <3>1
    <3>3. Frees(r.cs[b.b], <<"w", n + 1 - 1>>) /\ Interrupts(r.cs[a.b + 1])  BY <1>13, <2>4, <2>8, <3>2 DEF Frees, Interrupts
    <3>4. b = [a EXCEPT !.b = a.b + 2, !.m = a.b + 2, !.d = a.d + 1]  BY <2>8
    <3> DEFINE j == n + 1
    <3>5. Frees(r.cs[b.b], <<"w", j - 1>>)  BY <3>3
    <3> HIDE DEF n, m, d, j
    <3>6. Frame(g, j, r.cs, a, b)  BY <2>1, <2>7, <2>8, <3>3, <3>4, <3>5 DEF Frame, Frames, Pushed, Doomed
    <3>. QED BY <3>6 DEF j
  <2>10. Enters(r, s, g)
    <3>1. Calls(Top(s), g)  BY <2>1 DEF Calls
    <3>2. \A i \in 1 .. EnvOf(s).b : r.cs[i] = s.cs[i]  BY <1>13, <2>4, <2>8 DEF a
    <3>. QED BY <2>3, <2>9, <3>1, <3>2 DEF Enters, a, b
  <2>11. (\E e2 : Stack(r, e2)) /\ r.call # <<>> /\ Top(r) = g  BY <1>1, <2>10, TopEnters
  <2>12. Handled(r) /\ ~r.aborted  BY <1>14, <2>1, <2>4, <2>11 DEF Handled
  <2>. QED BY <2>6, <2>11, <2>12 DEF Sound
<1>. QED BY <1>4, <1>8, <1>9, <1>15, <1>16

\* aliasrun() and its hook are left.
LEMMA AliasDoneSound ==
  ASSUME NEW s, NEW e, Live(s, e), Top(s).k = "H", Top(s).at = "after"
  PROVE  Sound(AliasDone(s))
<1> DEFINE f == Top(s)
           n == Len(s.call)
           m == Len(s.cs)
           a == e[n]
           b == EnvOf(s)
           y == [s EXCEPT !.mark = f.omark]
           z == IF y.haderr THEN [y EXCEPT !.haderr = FALSE, !.active = {},
                                    !.aliases = [g \in DOMAIN y.aliases \ y.active |-> y.aliases[g]]]
                ELSE y
           p == PopCall(z)
           u == UndoLast(p)
           r == Leave(u, f.hook)
<1>1. /\ Data(s) /\ DOMAIN s = Fields /\ ~s.aborted /\ s.call # <<>> /\ Stack(s, e) /\ m \in Nat /\ b \in Envs
      /\ s.pintr_disabled \in Int /\ s.fnlvl \in Int
  BY DataIs DEF Live, Data
<1>2. Frame(f, n, s.cs, a, b) /\ f \in Hooks /\ f.omark = a.m /\ n \in Nat
  <2>1. Frame(f, n, s.cs, a, b) /\ n \in Nat  BY <1>1, StackIs
  <2>2. f \in Hooks  BY <2>1 DEF Frame, Frames, Processes, Builtins
  <2>. QED BY <2>1, <2>2 DEF Frame
<1>3. /\ b.b = m /\ b.m = s.mark /\ b.d = s.pintr_disabled /\ b.l = s.fnlvl /\ b.src = s.insource  BY EnvOfIs
<1> HIDE DEF b
<1> HIDE DEF a, f
<1>4. /\ a \in Envs /\ a.b \in Nat /\ a.m \in Nat /\ b.b = a.b + 2 /\ b.d = a.d + 1 /\ b.l = a.l /\ b.src = a.src
  <2>1. f.k = "H"  BY DEF f
  <2> HIDE DEF n
  <2>. QED BY <1>2, <2>1, FrameEnv
<1>5. a.m <= a.b
  <2>1. Chain(s.call, s.cs, e, n)  BY <1>1 DEF Stack
  <2>2. n \in 1 .. n + 1
    <3>1. n > 0  BY <1>1, StackIs
    <3> HIDE DEF n
    <3>. QED BY <1>2, <3>1
  <2> HIDE DEF n
  <2>. QED BY <2>1, <2>2, ChainIs DEF a
<1>6. /\ a.b + 2 = m /\ a.d + 1 = s.pintr_disabled /\ a.l = s.fnlvl /\ a.src = s.insource /\ a.d \in Int
      /\ s.cs[a.b + 1].v = Var("pintr_disabled") /\ s.cs[a.b + 1].fn = "disabled_cleanup"
      /\ s.cs[m].v = <<"w", n - 1>> /\ s.cs[m].fn = "lex_cleanup"
  <2>1. Interrupts(s.cs[a.b + 1]) /\ Frees(s.cs[b.b], <<"w", n - 1>>)
    <3>1. f.k = "H"  BY DEF f
    <3> HIDE DEF n
    <3>. QED BY <1>2, <3>1 DEF Frame, Pushed
  <2>2. a.d \in Int  BY <1>4, EnvIs
  <2> HIDE DEF m, n
  <2>. QED BY <1>3, <1>4, <2>1, <2>2 DEF Interrupts, Frees
<1>7. cleanup_pop_mark(s, f.omark) = y
  <2>1. f.omark <= m
    <3> HIDE DEF m, n, y
    <3>1. a.m <= m  BY <1>1, <1>4, <1>5, <1>6
    <3>. QED BY <1>2, <3>1
  <2>. QED BY <2>1 DEF cleanup_pop_mark
<1>8. Same(y, s, {"mark"}) /\ y.mark = a.m  BY <1>1, <1>2 DEF Same, Fields, Core
<1> HIDE DEF y
<1>9. Same(z, s, {"mark", "haderr", "active", "aliases"}) /\ z.mark = a.m /\ z.haderr = FALSE
      /\ \A h \in DOMAIN z.aliases : z.aliases[h] \in Lines
  <2>1. /\ DOMAIN y = Fields /\ y.haderr = s.haderr /\ y.aliases = s.aliases /\ s.haderr \in BOOLEAN
        /\ \A h \in DOMAIN y.aliases : y.aliases[h] \in Lines
    BY <1>1, <1>8, DataIs DEF Same, Fields, Core
  <2>2. CASE y.haderr
    <3> DEFINE q == [g \in DOMAIN y.aliases \ y.active |-> y.aliases[g]]
    <3>1. \A h \in DOMAIN q : q[h] \in Lines  BY <2>1
    <3>2. z = [y EXCEPT !.haderr = FALSE, !.active = {}, !.aliases = q]  BY <2>2
    <3> HIDE DEF q, z
    <3>. QED BY <1>8, <2>1, <3>1, <3>2 DEF Same, Fields, Core
  <2>3. CASE ~y.haderr
    <3>1. z = y  BY <2>3
    <3> HIDE DEF z
    <3>. QED BY <1>8, <2>1, <2>3, <3>1 DEF Same, Fields, Core
  <2>. QED BY <2>2, <2>3
<1>10. AliasDone(s) = Leave(cleanup_until(p, <<"w", Len(z.call) - 1>>), f.hook)
  <2>1. z = IF y.haderr THEN [y EXCEPT !.haderr = FALSE, !.active = {},
                                    !.aliases = [g \in DOMAIN @ \ y.active |-> @[g]]]
            ELSE y
    OBVIOUS
  <2>. QED BY <1>7, <2>1 DEF AliasDone, f
<1> HIDE DEF z
<1>11. Same(p, z, {"call"}) /\ p.call = Front(z.call)
  <2>1. DOMAIN z = Fields  BY <1>9 DEF Same
  <2>. QED BY <2>1, PopCallIs
<1> HIDE DEF p
<1>12. /\ Same(p, s, {"mark", "haderr", "active", "aliases", "call"}) /\ p.call = Front(s.call) /\ p.mark = a.m /\ p.haderr = FALSE
       /\ p.cs = s.cs /\ ~p.aborted /\ p.pintr_disabled = s.pintr_disabled /\ p.fnlvl = s.fnlvl /\ p.insource = s.insource
       /\ z.call = s.call /\ (\A h \in DOMAIN p.aliases : p.aliases[h] \in Lines)
       /\ DOMAIN p = Fields /\ p.justpr = s.justpr /\ p.evalvec = s.evalvec
       /\ p.enterhist = s.enterhist /\ p.intty = s.intty /\ p.gointr = s.gointr /\ p.arena = s.arena
  BY <1>1, <1>9, <1>11 DEF Same, Fields, Core
<1>13. Data(p)
  <2>1. Input(p)
    <3>1. Input(s)  BY <1>1 DEF Data
    <3>. QED BY <1>12, <3>1 DEF Input
  <2>. QED BY <1>1, <1>4, <1>12, <2>1, DataIs, DataBy
<1>14. cleanup_until(p, <<"w", Len(z.call) - 1>>) = u
  <2>1. IsSeq(p.cs) /\ Len(p.cs) > 0 /\ p.cs[Len(p.cs)].v = <<"w", n - 1>>
    <3>1. m > 0
      <4> HIDE DEF m
      <4>. QED BY <1>4, <1>6
    <3>. QED BY <1>1, <1>6, <1>12, <3>1, DataIs
  <2> HIDE DEF u
  <2>2. cleanup_until(p, <<"w", n - 1>>) = UndoLast(p)
    <3> DEFINE v == <<"w", n - 1>>
    <3>1. p.cs[Len(p.cs)].v = v  BY <2>1
    <3> HIDE DEF v
    <3>2. cleanup_until(p, v) = UndoLast(p)  BY <2>1, <3>1, UntilTop
    <3>. QED BY <3>2 DEF v
  <2>3. Len(z.call) = n  BY <1>12
  <2>. QED BY <2>2, <2>3 DEF u
<1>15. Cut(u, p, Less(EnvOf(p)))
  <2> DEFINE v == EnvOf(p)
  <2>1. v \in Envs /\ v.b = Len(p.cs) /\ v.m = p.mark /\ v.d = p.pintr_disabled /\ v.l = p.fnlvl /\ v.src = p.insource
    BY <1>13, DataIs, EnvOfIs
  <2> HIDE DEF v
  <2>2. Cut(p, p, v)  BY <1>13, <2>1, DataIs, CutBy
  <2>3. v.b > 0
    <3>1. m > 0
      <4> HIDE DEF m
      <4>. QED BY <1>4, <1>6
    <3>. QED BY <1>12, <2>1, <3>1
  <2>4. p.cs[v.b].fn = "lex_cleanup"  BY <1>6, <1>12, <2>1
  <2>5. Cut(u, p, Less(v))  BY <2>2, <2>3, <2>4, UndoFrees
  <2>. QED BY <2>5 DEF v
<1> HIDE DEF u
<1>16. /\ Data(u) /\ u.call = p.call /\ u.haderr = FALSE /\ ~u.aborted /\ Len(u.cs) = a.b + 1 /\ u.mark = a.m
       /\ u.pintr_disabled = s.pintr_disabled /\ u.fnlvl = s.fnlvl /\ u.insource = s.insource
       /\ \A i \in 1 .. a.b + 1 : u.cs[i] = s.cs[i]
  <2> DEFINE v == EnvOf(p)
  <2>1. v \in Envs /\ v.b = m /\ v.d = s.pintr_disabled /\ v.l = s.fnlvl /\ v.src = s.insource
    BY <1>12, <1>13, DataIs, EnvOfIs
  <2> HIDE DEF v
  <2>2. v.b > 0 /\ v.b - 1 = a.b + 1
    <3> HIDE DEF m
    <3>. QED BY <1>4, <1>6, <2>1
  <2>3. Less(v).b = a.b + 1 /\ Less(v).d = v.d /\ Less(v).l = v.l /\ Less(v).src = v.src  BY <2>1, <2>2, LessIs
  <2>4. Cut(u, p, Less(v))  BY <1>15 DEF v
  <2>5. Len(u.cs) = Less(v).b /\ u.mark = p.mark /\ u.pintr_disabled = Less(v).d /\ u.fnlvl = Less(v).l /\ u.insource = Less(v).src
    BY <2>4, CutIs
  <2>6. /\ Data(u) /\ u.call = p.call /\ u.haderr = p.haderr /\ u.aborted = p.aborted
        /\ \A i \in 1 .. Less(v).b : u.cs[i] = p.cs[i]
    BY <2>4 DEF Cut
  <2>. QED BY <1>12, <2>1, <2>3, <2>5, <2>6
<1>17. Left(r, u)
  <2>1. Len(u.cs) > 0 /\ Len(u.cs) = a.b + 1 /\ u.cs[a.b + 1] = s.cs[a.b + 1]
    <3>1. a.b + 1 \in 1 .. a.b + 1 /\ a.b + 1 > 0  BY <1>4
    <3>. QED BY <1>16, <3>1
  <2>2. u.cs[Len(u.cs)].v = Var("pintr_disabled") /\ u.cs[Len(u.cs)].fn = "disabled_cleanup"  BY <1>6, <2>1
  <2> DEFINE h == f.hook
  <2> HIDE DEF h
  <2>3. Left(Leave(u, h), u)  BY <1>16, <2>1, <2>2, LeaveIs
  <2>. QED BY <2>3 DEF h
<1>18. AliasDone(s) = r  BY <1>10, <1>14
<1> HIDE DEF r
<1>19. Len(u.cs) - 1 = a.b /\ u.pintr_disabled - 1 = a.d /\ \A i \in 1 .. a.b : i \in 1 .. a.b + 1
  <2> HIDE DEF m
  <2>. QED BY <1>4, <1>6, <1>16
<1>20. Data(r) /\ ~r.aborted /\ r.haderr = FALSE /\ r.call = Front(s.call) /\ EnvOf(r) = Env(a.b, a.m, a.d, a.l, a.src)
  <2>1. EnvOf(r) = Env(Len(u.cs) - 1, u.mark, u.pintr_disabled - 1, u.fnlvl, u.insource)  BY <1>17 DEF Left
  <2>2. EnvOf(r) = Env(a.b, a.m, a.d, a.l, a.src)  BY <1>6, <1>16, <1>19, <2>1
  <2>. QED BY <1>12, <1>16, <1>17, <2>2 DEF Left
<1>21. \A i \in 1 .. a.b : r.cs[i] = s.cs[i]
  <2>1. \A i \in 1 .. a.b : r.cs[i] = u.cs[i]  BY <1>17, <1>19 DEF Left
  <2>. QED BY <1>16, <1>19, <2>1
<1>22. EnvOf(r) = a  BY <1>4, <1>20, EnvIs
<1>23. Returns(r, s, e)  BY <1>20, <1>21, <1>22 DEF Returns, a
<1>24. Stack(r, e) /\ r.call # <<>> /\ Calls(Top(r), Top(s))
  <2>1. Top(s).k # "P"  OBVIOUS
  <2>. QED BY <1>1, <1>23, <2>1, TopReturns
<1>25. Top(r).at \in {"lex", "run"}  BY <1>24 DEF Calls
<1>26. Handled(r)  BY <1>20, <1>25 DEF Handled
<1>. QED BY <1>18, <1>20, <1>24, <1>26 DEF Sound
-----------------------------------------------------------------------------
(* Files, functions and eval. *)

LEMMA NotEmpty ==
  ASSUME NEW q, Len(q) > 0
  PROVE  q # <<>>
<1>1. q = <<>> => Len(q) = 0  OBVIOUS
<1>. QED BY <1>1

LEMMA ProcessSound ==
  ASSUME NEW s, NEW e, Live(s, e), Top(s).k = "B", Top(s).at \in {"ret", "eval"}, s.haderr = FALSE
  PROVE  Sound(process(s, FALSE))
<1> DEFINE g == Process(FALSE, s)
           c == Call(s, g)
           m == Len(s.cs)
           r == [c EXCEPT !.mark = m]
           a == EnvOf(s)
           b == EnvOf(r)
           n == Len(s.call)
<1>1. Data(s) /\ DOMAIN s = Fields /\ ~s.aborted /\ s.call # <<>> /\ Stack(s, e) /\ m \in Nat /\ s.mark \in Nat
  BY DataIs DEF Live, Data
<1>2. g \in Processes /\ g.k = "P" /\ g.at = "top" /\ g.omark = s.mark /\ g.failed = FALSE /\ g.catch = FALSE
  <2>1. <<>> \in Seq(Commands)  OBVIOUS
  <2>. QED BY <1>1, <2>1 DEF Process, Processes
<1>3. process(s, FALSE) = r  BY DEF process
<1> HIDE DEF g
<1>4. Same(c, s, {"call"}) /\ c.call = Append(s.call, g)  BY <1>1, CallIs
<1> HIDE DEF c
<1>5. /\ Same(r, s, {"call", "mark"}) /\ r.call = Append(s.call, g) /\ r.mark = m  BY <1>4 DEF Same, Fields, Core
<1> HIDE DEF r
<1>6. /\ DOMAIN r = Fields /\ r.cs = s.cs /\ r.pintr_disabled = s.pintr_disabled /\ r.fnlvl = s.fnlvl
      /\ r.insource = s.insource /\ r.justpr = s.justpr /\ r.evalvec = s.evalvec /\ r.haderr = s.haderr /\ r.aliases = s.aliases
      /\ r.enterhist = s.enterhist /\ r.intty = s.intty /\ r.gointr = s.gointr /\ r.arena = s.arena /\ r.aborted = s.aborted
  BY <1>5 DEF Same, Fields, Core
<1>7. Data(r)
  <2>1. Input(r)
    <3>1. Input(s)  BY <1>1 DEF Data
    <3>. QED BY <1>6, <3>1 DEF Input
  <2>. QED BY <1>1, <1>5, <1>6, <2>1, DataIs, DataBy
<1>8. a \in Envs /\ b \in Envs  BY <1>1, <1>7, DataIs
<1>9. a.b = m /\ a.m = s.mark /\ b.b = m /\ b = [a EXCEPT !.b = b.b, !.m = a.b]
  <2>1. a.b = m /\ a.m = s.mark /\ a.d = s.pintr_disabled /\ a.l = s.fnlvl /\ a.src = s.insource  BY EnvOfIs
  <2>2. b.b = m /\ b.m = m /\ b.d = s.pintr_disabled /\ b.l = s.fnlvl /\ b.src = s.insource  BY <1>5, <1>6, EnvOfIs
  <2> HIDE DEF a, b, m
  <2> DEFINE R == [a EXCEPT !.b = b.b, !.m = a.b]
  <2>3. R \in Envs /\ R.b = b.b /\ R.m = a.b /\ R.d = a.d /\ R.l = a.l /\ R.src = a.src  BY <1>1, <1>8, <2>1, <2>2 DEF Envs
  <2>4. b = R
    <3> HIDE DEF R
    <3>. QED BY <1>8, <2>1, <2>2, <2>3, EnvSame
  <2>. QED BY <2>1, <2>2, <2>4
<1> HIDE DEF a, b
<1>10. Frame(g, n + 1, r.cs, a, b)
  <2> DEFINE j == n + 1
  <2> HIDE DEF j, m
  <2>1. Pushed(g, j, r.cs, a, b)  BY <1>2, <1>9 DEF Pushed
  <2>2. Frame(g, j, r.cs, a, b)  BY <1>2, <1>8, <1>9, <2>1 DEF Frame, Frames, Doomed
  <2>. QED BY <2>2 DEF j
<1>11. Enters(r, s, g)
  <2>1. Calls(Top(s), g)  BY <1>2 DEF Calls
  <2>. QED BY <1>5, <1>6, <1>10, <2>1 DEF Enters, a, b
<1>12. (\E e2 : Stack(r, e2)) /\ r.call # <<>> /\ Top(r) = g  BY <1>1, <1>11, TopEnters
<1>13. Handled(r) /\ ~r.aborted  BY <1>1, <1>2, <1>6, <1>12 DEF Handled
<1>. QED BY <1>3, <1>7, <1>12, <1>13 DEF Sound

\* t is s with what a builtin that reads other input has pushed.
Nests(t, s, pc) ==
  /\ Data(t) /\ ~t.aborted /\ t.haderr = FALSE /\ t.call = s.call
  /\ \A i \in 1 .. Len(s.cs) : t.cs[i] = s.cs[i]
  /\ Pushed([Top(s) EXCEPT !.at = pc], Len(s.call), t.cs, EnvOf(s), EnvOf(t))

LEMMA NestSound ==
  ASSUME NEW s, NEW e, Live(s, e), Top(s).k = "B", Top(s).at = "start", NEW pc \in {"ret", "eval"}, NEW t, Nests(t, s, pc)
  PROVE  Sound(process(At(t, pc), FALSE))
<1> DEFINE g == [Top(s) EXCEPT !.at = pc]
           n == Len(s.call)
           r == SetTop(t, g)
           a == EnvOf(s)
           b == EnvOf(t)
<1>1. /\ Data(s) /\ s.call # <<>> /\ Stack(s, e) /\ Data(t) /\ ~t.aborted /\ t.haderr = FALSE /\ t.call = s.call
      /\ \A i \in 1 .. Len(s.cs) : t.cs[i] = s.cs[i] /\ DOMAIN t = Fields
  BY DEF Live, Nests, Data
<1>2. /\ g \in Builtins /\ g.k = "B" /\ g.at = pc /\ Frame(Top(s), n, s.cs, e[n], a)
  <2>1. Frame(Top(s), n, s.cs, e[n], a)  BY <1>1, StackIs
  <2>2. Top(s) \in Builtins  BY <2>1 DEF Frame, Frames, Processes, Hooks
  <2>. QED BY <2>1, <2>2 DEF Builtins
<1>3. e[n] = a  BY <1>2 DEF Frame, Pushed
<1>4. At(t, pc) = r
  <2>1. Top(t) = Top(s)  BY <1>1 DEF Top
  <2>2. At(t, pc) = SetTop(t, [Top(t) EXCEPT !.at = pc])  BY AtIs
  <2>. QED BY <2>1, <2>2
<1> HIDE DEF g
<1>12. DOMAIN t = Fields  BY <1>1 DEF Data
<1>5. Same(r, t, {"call"}) /\ r.call = Put(s.call, n, g)  BY <1>1, <1>12, SetTopIs
<1> HIDE DEF r
<1>6. Data(r) /\ EnvOf(r) = b /\ r.cs = t.cs /\ ~r.aborted /\ r.haderr = FALSE
  <2>1. Same(r, t, {} \cup {"call"}) /\ {} \in SUBSET Aside  BY <1>5
  <2>2. r.haderr = FALSE  BY <1>1, <1>5 DEF Same, Fields, Core
  <2>. QED BY <1>1, <2>1, <2>2, DataSame
<1> HIDE DEF a, b
<1>7. Frame(g, n, r.cs, a, b)
  <2>1. Pushed(g, n, t.cs, a, b)  BY DEF Nests, g, a, b
  <2>2. a \in Envs /\ b \in Envs  BY <1>1, DataIs DEF a, b
  <2> HIDE DEF n
  <2>. QED BY <1>2, <1>6, <2>1, <2>2 DEF Frame, Frames, Doomed
<1>8. Turns(r, s, e, g)
  <2>1. \A i \in 1 .. a.b : r.cs[i] = s.cs[i]
    <3>1. a.b = Len(s.cs)  BY EnvOfIs DEF a
    <3>. QED BY <1>1, <1>6, <3>1
  <2>. QED BY <1>2, <1>3, <1>5, <1>6, <1>7, <2>1 DEF Turns
<1>9. (\E e2 : Stack(r, e2)) /\ r.call # <<>> /\ Top(r) = g  BY <1>1, <1>8, TopTurns
<1>10. \E e2 : Live(r, e2)  BY <1>6, <1>9 DEF Live
<1>11. Sound(process(r, FALSE))  BY <1>2, <1>6, <1>9, <1>10, ProcessSound
<1>. QED BY <1>4, <1>11

\* The end of them.
LEMMA RetSound ==
  ASSUME NEW s, NEW e, Live(s, e), Top(s).k = "B", Top(s).at \in {"ret", "eval"}, s.haderr = FALSE
  PROVE  Sound(cleanup_until(At(s, "after"), <<"st", Len(s.call)>>))
<1> DEFINE f == Top(s)
           g == [f EXCEPT !.at = "after"]
           n == Len(s.call)
           m == Len(s.cs)
           k == SetTop(s, g)
           a == e[n]
           b == EnvOf(s)
           v == <<"st", n>>
           r == cleanup_until(k, v)
<1>1. /\ Data(s) /\ s.call # <<>> /\ Stack(s, e) /\ DOMAIN s = Fields /\ ~s.aborted /\ m \in Nat /\ IsSeq(s.cs)
      /\ b.b = m /\ b.m = s.mark /\ b \in Envs
  BY DataIs, EnvOfIs DEF Live, Data
<1>2. /\ g \in Builtins /\ g.k = "B" /\ g.at = "after" /\ Frame(f, n, s.cs, a, b)
  <2>1. Frame(f, n, s.cs, a, b)  BY <1>1, StackIs
  <2>2. f \in Builtins  BY <2>1 DEF Frame, Frames, Processes, Hooks
  <2>. QED BY <2>1, <2>2 DEF Builtins
<1>3. At(s, "after") = k  BY AtIs
<1>15. f.k = "B" /\ f.at \in {"ret", "eval"}  OBVIOUS
<1> HIDE DEF g, f
<1>4. Same(k, s, {"call"}) /\ k.call = Put(s.call, n, g)  BY <1>1, SetTopIs
<1> HIDE DEF k
<1>5. Data(k) /\ EnvOf(k) = b /\ k.cs = s.cs /\ ~k.aborted /\ k.haderr = FALSE /\ k.mark = s.mark
  <2>1. Same(k, s, {} \cup {"call"}) /\ {} \in SUBSET Aside  BY <1>4
  <2>2. k.haderr = FALSE  BY <1>4 DEF Same, Fields, Core
  <2>. QED BY <1>1, <2>1, <2>2, DataSame
<1> HIDE DEF a, b
<1>6. /\ a \in Envs /\ a.b \in Nat /\ b.m = a.m /\ a.b <= m
      /\ \/ m = a.b + 1 /\ s.cs[m].v = v
         \/ m = a.b + 2 /\ s.cs[a.b + 1].v = v /\ s.cs[m].v = Var("pintr_disabled")
  <2> HIDE DEF n, m
  <2>1. a \in Envs /\ a.b \in Nat /\ b.m = a.m /\ a.b <= b.b  BY <1>2, <1>15, FrameEnv
  <2>2. Pushed(f, n, s.cs, a, b)  BY <1>2 DEF Frame
  <2>3. CASE f.at = "eval"
    <3>1. b = [a EXCEPT !.b = a.b + 1] /\ s.cs[b.b].v = v  BY <1>15, <2>2, <2>3 DEF Pushed
    <3>2. b.b = a.b + 1  BY <2>1, <3>1 DEF Envs
    <3>. QED BY <1>1, <2>1, <3>1, <3>2
  <2>4. CASE f.at = "ret"
    <3>1. CASE /\ b = [a EXCEPT !.b = a.b + 2, !.d = a.d + 1, !.src = 1]
               /\ s.cs[a.b + 1].v = v /\ Interrupts(s.cs[b.b])
      <4>1. b.b = a.b + 2  BY <2>1, <3>1 DEF Envs
      <4>. QED BY <1>1, <2>1, <3>1, <4>1 DEF Interrupts
    <3>2. CASE b = [a EXCEPT !.b = a.b + 1, !.l = a.l + 1, !.src = 2] /\ s.cs[b.b].v = v
      <4>1. b.b = a.b + 1  BY <2>1, <3>2 DEF Envs
      <4>. QED BY <1>1, <2>1, <3>2, <4>1
    <3>. QED BY <1>15, <2>2, <2>4, <3>1, <3>2 DEF Pushed
  <2>. QED BY <1>15, <2>3, <2>4
<1>7. Cut(Unwound(k, m - a.b), k, a)
  <2>1. Unwound(k, 0) = k  BY UnwoundNext
  <2>2. Cut(k, k, b)
    <3>1. b.d = k.pintr_disabled /\ b.l = k.fnlvl /\ b.src = k.insource /\ b.b = Len(k.cs) /\ b.m = k.mark  BY <1>5, EnvOfIs
    <3> HIDE DEF m
    <3>. QED BY <1>1, <1>5, <3>1, DataIs, CutBy
  <2>3. Frame(f, n, k.cs, a, b) /\ IsSeq(k.cs) /\ Len(k.cs) = m /\ Len(k.cs) - b.b = 0
    <3>1. Frame(f, n, k.cs, a, b)  BY <1>2, <1>5
    <3>2. IsSeq(k.cs) /\ Len(k.cs) = m  BY <1>1, <1>5
    <3>3. m - b.b = 0
      <4> HIDE DEF m
      <4>. QED BY <1>1
    <3>. QED BY <3>1, <3>2, <3>3
  <2>4. Cut(Unwound(k, Len(k.cs) - b.b), k, b)  BY <2>1, <2>2, <2>3
  <2> HIDE DEF n, m
  <2>5. Cut(Unwound(k, Len(k.cs) - a.b), k, a)  BY <2>3, <2>4, Undone
  <2>. QED BY <2>3, <2>5
<1>8. r = Unwound(k, m - a.b)
  <2>1. CASE m = a.b + 1 /\ s.cs[m].v = v
    <3>1. m - a.b = 0 + 1 /\ m > 0
      <4> HIDE DEF m
      <4>. QED BY <1>6, <2>1
    <3>2. cleanup_until(k, v) = UndoLast(k)
      <4>1. IsSeq(k.cs) /\ Len(k.cs) > 0 /\ k.cs[Len(k.cs)].v = v  BY <1>1, <1>5, <2>1, <3>1
      <4> HIDE DEF v
      <4>. QED BY <4>1, UntilTop
    <3>3. Unwound(k, 0 + 1) = UndoLast(Unwound(k, 0)) /\ Unwound(k, 0) = k  BY UnwoundNext
    <3>. QED BY <3>1, <3>2, <3>3
  <2>2. CASE m = a.b + 2 /\ s.cs[a.b + 1].v = v /\ s.cs[m].v = Var("pintr_disabled")
    <3>1. m - a.b = (0 + 1) + 1 /\ m > 1 /\ m - 1 = a.b + 1
      <4> HIDE DEF m
      <4>. QED BY <1>6, <2>2
    <3>2. Var("pintr_disabled") # v  BY DEF Var
    <3>3. cleanup_until(k, v) = UndoLast(UndoLast(k))
      <4>1. IsSeq(k.cs) /\ Len(k.cs) > 1 /\ k.cs[Len(k.cs) - 1].v = v /\ k.cs[Len(k.cs)].v # v
        BY <1>1, <1>5, <2>2, <3>1, <3>2
      <4> HIDE DEF v
      <4>. QED BY <4>1, UntilNext
    <3>4. Unwound(k, (0 + 1) + 1) = UndoLast(Unwound(k, 0 + 1)) /\ Unwound(k, 0 + 1) = UndoLast(Unwound(k, 0)) /\ Unwound(k, 0) = k
      BY UnwoundNext
    <3>. QED BY <3>1, <3>3, <3>4
  <2>. QED BY <1>6, <2>1, <2>2
<1> HIDE DEF r
<1>9. Cut(r, k, a)  BY <1>7, <1>8
<1>10. Data(r) /\ ~r.aborted /\ r.haderr = FALSE /\ r.call = k.call /\ EnvOf(r) = [a EXCEPT !.m = k.mark]
       /\ \A i \in 1 .. a.b : r.cs[i] = s.cs[i]
  BY <1>5, <1>9 DEF Cut
<1>11. EnvOf(r) = a
  <2>1. k.mark = a.m  BY <1>1, <1>5, <1>6
  <2>2. [a EXCEPT !.m = a.m] = a  BY <1>6 DEF Envs
  <2>. QED BY <1>10, <2>1, <2>2
<1>12. Frame(g, n, r.cs, a, a)
  <2> HIDE DEF n
  <2>. QED BY <1>2, <1>6 DEF Frame, Frames, Pushed, Doomed
<1>13. Turns(r, s, e, g)  BY <1>2, <1>4, <1>10, <1>11, <1>12, <1>15 DEF Turns, a, f
<1>14. (\E e2 : Stack(r, e2)) /\ r.call # <<>> /\ Top(r) = g  BY <1>1, <1>13, TopTurns
<1>16. Handled(r)  BY <1>2, <1>10, <1>14 DEF Handled
<1>. QED BY <1>3, <1>10, <1>14, <1>16 DEF Sound, r

-----------------------------------------------------------------------------
(* source, functions and eval. *)

\* x of a state in which other input is read, and st of what it was.
NewFields == {"arena", "intty", "gointr", "evalvec", "enterhist", "insource"} \cup Streams3
Reads(sv, s) ==
  /\ Data(sv.x) /\ Same(sv.x, s, NewFields) /\ sv.x.insource = 1
  /\ sv.x.arena.kind # "tty" /\ ~sv.x.intty
  /\ Input(sv.st) /\ sv.st.justpr \in BOOLEAN /\ sv.st.evalvec \in EvalLines /\ sv.st.insource = s.insource

LEMMA SavedIs ==
  ASSUME NEW s, Data(s), NEW t, Same(t, s, Streams3), NEW kind, NEW name, settell(kind, name) \in Arenas, kind # "tty",
         NEW unit, NEW hflg \in BOOLEAN
  PROVE  Reads(st_save(t, kind, name, unit, hflg), s)
<1> DEFINE y == Adopt(Adopt(Adopt(t, 0, "OLDSTD"), 1, "SHOUT"), 2, "SHDIAG")
           q == IF y.didfds THEN donefds(y) ELSE y
           a == settell(kind, name)
           r == [q EXCEPT !.SHIN = unit, !.arena = a, !.intty = FALSE, !.gointr = None,
                          !.evalvec = NoEval, !.enterhist = hflg, !.insource = 1]
           st == SavedState(t, y)
           sv == st_save(t, kind, name, unit, hflg)
<1>1. DOMAIN t = Fields /\ \A f \in Core : t[f] = s[f]  BY CoreApart DEF Same
<1>2. sv.x = r /\ sv.st = st  BY DEF st_save, NewInput
<1>3. Only(y, t, Streams3)
  <2>1. "OLDSTD" \in Streams3 /\ "SHOUT" \in Streams3 /\ "SHDIAG" \in Streams3  BY DEF Streams3
  <2>. QED BY <2>1, ToIs, StreamsTrans
<1>4. /\ Input(st) /\ st.justpr \in BOOLEAN /\ st.evalvec \in EvalLines /\ st.insource = s.insource
  <2>1. \A f \in Saved : st[f] = t[f]
    <3> HIDE DEF y
    <3>. QED BY DEF SavedState, Saved, Streams
  <2> HIDE DEF st
  <2>3. /\ st.insource = s.insource /\ st.intty = s.intty /\ st.gointr = s.gointr /\ st.evalvec = s.evalvec
        /\ st.enterhist = s.enterhist /\ st.justpr = s.justpr /\ st.arena = s.arena
    BY <1>1, <2>1 DEF Saved, Core
  <2>4. Input(st)
    <3>1. Input(s)  BY DEF Data
    <3>. QED BY <2>3, <3>1 DEF Input
  <2>. QED BY <2>3, <2>4, DataIs
<1> HIDE DEF y
<1>5. Only(q, t, Streams3)  BY <1>3, DoneIs, StreamsTrans
<1> HIDE DEF q
<1>6. DOMAIN q = Fields /\ \A f \in Core : q[f] = s[f]  BY <1>1, <1>5, StreamsOnly
<1>7. Same(q, s, Streams3)
  <2>1. Same(q, t, Streams3)  BY <1>1, <1>5, SameOnly
  <2>. QED BY <2>1, SameTrans
<1> HIDE DEF a
<1>8. /\ Same(r, q, NewFields) /\ r.arena = a /\ r.intty = FALSE /\ r.gointr = None /\ r.evalvec = NoEval
      /\ r.enterhist = hflg /\ r.insource = 1
  BY <1>6 DEF Same, NewFields, Fields, Core, Streams3
<1> HIDE DEF r
<1>9. Same(r, s, NewFields)
  <2>1. Streams3 \subseteq NewFields  BY DEF NewFields
  <2>. QED BY <1>7, <1>8, <2>1, SameTrans
<1>10. /\ r.cs = s.cs /\ r.mark = s.mark /\ r.pintr_disabled = s.pintr_disabled /\ r.fnlvl = s.fnlvl
       /\ r.justpr = s.justpr /\ r.haderr = s.haderr /\ r.aliases = s.aliases /\ DOMAIN r = Fields
  BY <1>9 DEF Same, NewFields, Fields, Core, Streams3
<1>11. a \in Arenas /\ a.kind # "tty"  BY DEF settell, a
<1>12. Input(r)  BY <1>8, <1>11 DEF Input
<1>13. NoEval \in EvalLines
  <2>1. <<>> \in Seq(Lines)  OBVIOUS
  <2>. QED BY <2>1 DEF NoEval, EvalLines
<1>14. Data(r)  BY <1>8, <1>10, <1>12, <1>13, DataIs, DataBy
<1> HIDE DEF st
<1>15. Reads(sv, s)  BY <1>2, <1>4, <1>8, <1>9, <1>11, <1>14 DEF Reads
<1>. QED BY <1>15

LEMMA ReadsKeep ==
  ASSUME NEW sv, NEW s, Reads(sv, s)
  PROVE  /\ Data(sv.x) /\ sv.x.cs = s.cs /\ sv.x.mark = s.mark /\ sv.x.pintr_disabled = s.pintr_disabled
         /\ sv.x.fnlvl = s.fnlvl /\ sv.x.haderr = s.haderr /\ sv.x.call = s.call /\ sv.x.aborted = s.aborted
         /\ sv.x.insource = 1
<1> DEFINE r == sv.x
<1>1. Same(r, s, NewFields) /\ Data(r) /\ r.insource = 1  BY DEF Reads
<1> HIDE DEF r
<1>2. /\ r.cs = s.cs /\ r.mark = s.mark /\ r.pintr_disabled = s.pintr_disabled /\ r.fnlvl = s.fnlvl /\ r.haderr = s.haderr
      /\ r.call = s.call /\ r.aborted = s.aborted
  BY <1>1 DEF Same, NewFields, Fields, Core, Streams3
<1>. QED BY <1>1, <1>2 DEF r

\* What a state with one entry more than another has.
LEMMA AddsKeep ==
  ASSUME NEW r, NEW s, NEW v, NEW fn, NEW old, NEW d, Adds(r, s, v, fn, old, d)
  PROVE  /\ Data(r) /\ r.mark = s.mark /\ r.fnlvl = s.fnlvl /\ r.insource = s.insource /\ r.haderr = s.haderr
         /\ r.call = s.call /\ r.aborted = s.aborted /\ r.pintr_disabled = d /\ DOMAIN r = Fields
         /\ r.arena = s.arena /\ r.evalvec = s.evalvec
BY DEF Adds, Same, Fields, Core

LEMMA SrcunitSound ==
  ASSUME NoRepeat, NEW s, NEW e, Live(s, e), Top(s).k = "B", Top(s).at = "start", s.haderr = FALSE,
         NEW file \in DOMAIN Files, NEW hflg \in BOOLEAN
  PROVE  Sound(srcunit(s, file, hflg))
<1> DEFINE unit == Lowest(s, FSAFE + 1)
           y == [s EXCEPT !.fd = [n \in DOMAIN @ \cup {unit} |-> IF n = unit THEN file ELSE @[n]]]
           sv == st_save(y, "file", file, unit, hflg)
           u == sv.x
           v == <<"st", Len(u.call)>>
           w == cleanup_push(u, v, "st_restore", sv.st)
           t == PushPintr(w)
           m == Len(s.cs)
           g == [Top(s) EXCEPT !.at = "ret"]
           a == EnvOf(s)
           b == EnvOf(t)
<1>1. Data(s) /\ ~s.aborted /\ DOMAIN s = Fields /\ s.call # <<>> /\ m \in Nat /\ s.fnlvl \in Int /\ s.pintr_disabled \in Int
  BY DataIs DEF Live
<1>2. Same(y, s, Streams3)
  <2>1. "fd" \in Streams3  BY DEF Streams3
  <2>2. Only(y, s, Streams3)  BY <2>1, FdIs
  <2> HIDE DEF y
  <2>. QED BY <1>1, <2>2, SameOnly
<1> HIDE DEF y
<1>3. settell("file", file) \in Arenas
  <2>1. Len(Files[file]) \in Nat  BY DEF NoRepeat
  <2>2. 0 <= Len(Text(settell("file", file)))  BY <2>1 DEF Text, settell
  <2>. QED BY <2>2 DEF settell, Arenas, Names
<1>4. Reads(sv, s)  BY <1>1, <1>2, <1>3, SavedIs
<1> HIDE DEF sv
<1>5. srcunit(s, file, hflg) = process(At(t, "ret"), FALSE)  BY DEF srcunit, ReadsFile, St, y, sv
<1>6. /\ Data(u) /\ u.cs = s.cs /\ u.mark = s.mark /\ u.pintr_disabled = s.pintr_disabled
      /\ u.fnlvl = s.fnlvl /\ u.haderr = FALSE /\ u.call = s.call /\ ~u.aborted /\ u.insource = 1
  BY <1>1, <1>4, ReadsKeep
<1>7. Input(sv.st) /\ sv.st.justpr \in BOOLEAN /\ sv.st.evalvec \in EvalLines /\ sv.st.insource = s.insource  BY <1>4 DEF Reads
<1> HIDE DEF u
<1>8. Adds(w, u, v, "st_restore", sv.st, s.pintr_disabled)  BY <1>6, PushAdds
<1>18. v = <<"st", Len(s.call)>>  BY <1>6
<1> HIDE DEF w, v
<1>9. /\ Data(w) /\ w.mark = s.mark /\ w.fnlvl = s.fnlvl /\ w.insource = 1 /\ w.haderr = FALSE /\ w.call = s.call /\ ~w.aborted
      /\ w.pintr_disabled = s.pintr_disabled
  BY <1>6, <1>8, AddsKeep
<1>10. Len(w.cs) = m + 1 /\ w.cs[m + 1] = [v |-> v, fn |-> "st_restore", old |-> sv.st] /\ \A i \in 1 .. m : w.cs[i] = s.cs[i]
  BY <1>6, <1>8 DEF Adds
<1>11. Adds(t, w, Var("pintr_disabled"), "disabled_cleanup", 0, w.pintr_disabled + 1)  BY <1>9, PintrAdds
<1> HIDE DEF t
<1>12. /\ Data(t) /\ t.mark = s.mark /\ t.fnlvl = s.fnlvl /\ t.insource = 1 /\ t.haderr = FALSE /\ t.call = s.call /\ ~t.aborted
       /\ t.pintr_disabled = s.pintr_disabled + 1
  BY <1>9, <1>11, AddsKeep
<1>13. /\ Len(t.cs) = m + 2 /\ t.cs[m + 2] = [v |-> Var("pintr_disabled"), fn |-> "disabled_cleanup", old |-> 0]
       /\ t.cs[m + 1] = [v |-> v, fn |-> "st_restore", old |-> sv.st] /\ \A i \in 1 .. m : t.cs[i] = s.cs[i]
  <2> HIDE DEF m
  <2>1. Len(w.cs) + 1 = m + 2 /\ m + 1 \in 1 .. Len(w.cs) /\ \A i \in 1 .. m : i \in 1 .. Len(w.cs)  BY <1>1, <1>10
  <2>2. Len(t.cs) = Len(w.cs) + 1 /\ t.cs[Len(w.cs) + 1] = [v |-> Var("pintr_disabled"), fn |-> "disabled_cleanup", old |-> 0]
        /\ \A i \in 1 .. Len(w.cs) : t.cs[i] = w.cs[i]
    BY <1>11 DEF Adds
  <2>. QED BY <1>10, <2>1, <2>2
<1>14. a \in Envs /\ b \in Envs /\ a.b = m /\ b.b = m + 2 /\ b = [a EXCEPT !.b = a.b + 2, !.d = a.d + 1, !.src = 1]
  <2>1. a \in Envs /\ b \in Envs  BY <1>1, <1>12, DataIs
  <2>2. a.b = m /\ a.m = s.mark /\ a.d = s.pintr_disabled /\ a.l = s.fnlvl /\ a.src = s.insource  BY EnvOfIs
  <2>3. b.b = m + 2 /\ b.m = s.mark /\ b.d = s.pintr_disabled + 1 /\ b.l = s.fnlvl /\ b.src = 1  BY <1>12, <1>13, EnvOfIs
  <2> HIDE DEF a, b, m
  <2> DEFINE R == [a EXCEPT !.b = a.b + 2, !.d = a.d + 1, !.src = 1]
  <2>4. R \in Envs /\ R.b = a.b + 2 /\ R.m = a.m /\ R.d = a.d + 1 /\ R.l = a.l /\ R.src = 1
    <3>1. a.b \in Nat /\ a.d \in Int  BY <2>1, EnvIs
    <3>2. a.b + 2 \in Nat /\ a.d + 1 \in Int  BY <3>1
    <3>. QED BY <2>1, <3>2 DEF Envs
  <2>5. b = R
    <3> HIDE DEF R
    <3>. QED BY <2>1, <2>2, <2>3, <2>4, EnvSame
  <2>. QED BY <2>1, <2>2, <2>3, <2>5
<1>15. g.k = "B" /\ g.at = "ret"
  <2>1. Top(s) \in Frames  BY StackIs DEF Live
  <2>2. Top(s) \in Builtins  BY <2>1 DEF Frames, Processes, Hooks
  <2>. QED BY <2>2 DEF Builtins
<1> HIDE DEF g, a, b
<1>16. Pushed(g, Len(s.call), t.cs, a, b)
  <2>1. t.cs[a.b + 1].v = <<"st", Len(s.call)>> /\ t.cs[a.b + 1].fn = "st_restore" /\ t.cs[a.b + 1].old = sv.st
    BY <1>13, <1>14, <1>18
  <2>2. Saves(t.cs[a.b + 1], a.src)
    <3>1. a.src = s.insource  BY EnvOfIs DEF a
    <3>. QED BY <1>7, <2>1, <3>1 DEF Saves
  <2>3. Interrupts(t.cs[b.b])  BY <1>13, <1>14 DEF Interrupts
  <2>. QED BY <1>14, <1>15, <2>1, <2>2, <2>3 DEF Pushed
<1>17. Nests(t, s, "ret")  BY <1>12, <1>13, <1>16 DEF Nests, g, a, b
<1>. QED BY <1>5, <1>17, NestSound

LEMMA DofunctionSound ==
  ASSUME NoRepeat, NEW s, NEW e, Live(s, e), Top(s).k = "B", Top(s).at = "start", s.haderr = FALSE,
         NEW fn \in DOMAIN Functions
  PROVE  Sound(dofunction(s, fn))
<1> DEFINE p == mypipe(s)
           sv == st_save(p.x, "func", fn, p.pv[1], FALSE)
           u == sv.x
           y == [u EXCEPT !.fnpipe = p.pv[2], !.fnlvl = @ + 1, !.insource = 2]
           v == <<"st", Len(y.call)>>
           t == cleanup_push(y, v, "fn_restore", sv.st)
           m == Len(s.cs)
           g == [Top(s) EXCEPT !.at = "ret"]
           a == EnvOf(s)
           b == EnvOf(t)
<1>1. Data(s) /\ ~s.aborted /\ DOMAIN s = Fields /\ s.call # <<>> /\ m \in Nat /\ s.fnlvl \in Int /\ s.pintr_disabled \in Int
  BY DataIs DEF Live
<1>2. CASE s.fnlvl = MaxLevel
  <2>1. Ready(s) /\ Over(s, s)
    <3>1. Catches(Top(s))  BY DEF Catches
    <3>. QED BY <1>1, <3>1, ReadyIs, OverSelf
  <2>2. Sound(stderror(s, FALSE))  BY <2>1, StderrorSound
  <2>. QED BY <1>2, <2>2 DEF dofunction
<1>3. CASE s.fnlvl # MaxLevel
  <2>1. Same(p.x, s, Streams3)
    <3>1. Only(p.x, s, Streams3)  BY DoneIs
    <3> HIDE DEF p
    <3>. QED BY <1>1, <3>1, SameOnly
  <2>2. dofunction(s, fn) = process(At(t, "ret"), FALSE)  BY <1>3 DEF dofunction, ReadsFunction, St
  <2>3. settell("func", fn) \in Arenas
    <3>1. Len(Functions[fn]) \in Nat  BY DEF NoRepeat
    <3>2. 0 <= Len(Text(settell("func", fn)))  BY <3>1 DEF Text, settell
    <3>. QED BY <3>2 DEF settell, Arenas, Names
  <2> HIDE DEF p
  <2>4. Reads(sv, s)  BY <1>1, <2>1, <2>3, SavedIs
  <2> HIDE DEF sv
  <2>5. /\ Data(u) /\ u.cs = s.cs /\ u.mark = s.mark /\ u.pintr_disabled = s.pintr_disabled
        /\ u.fnlvl = s.fnlvl /\ u.haderr = FALSE /\ u.call = s.call /\ ~u.aborted /\ u.insource = 1
    BY <1>1, <2>4, ReadsKeep
  <2>6. /\ Input(sv.st) /\ sv.st.justpr \in BOOLEAN /\ sv.st.evalvec \in EvalLines /\ sv.st.insource = s.insource
        /\ u.arena.kind # "tty" /\ ~u.intty
    BY <2>4 DEF Reads
  <2> HIDE DEF u
  <2>7. /\ Same(y, u, {"fnpipe", "fnlvl", "insource"}) /\ y.fnlvl = s.fnlvl + 1 /\ y.insource = 2
    <3>1. DOMAIN u = Fields  BY <2>5, DataIs
    <3>. QED BY <2>5, <3>1 DEF Same, Fields, Core
  <2> HIDE DEF y
  <2>8. /\ DOMAIN y = Fields /\ y.cs = s.cs /\ y.mark = s.mark /\ y.pintr_disabled = s.pintr_disabled
        /\ y.haderr = FALSE /\ y.call = s.call /\ y.aborted = u.aborted
        /\ y.justpr = u.justpr /\ y.aliases = u.aliases /\ y.evalvec = u.evalvec
        /\ y.enterhist = u.enterhist /\ y.intty = u.intty /\ y.gointr = u.gointr /\ y.arena = u.arena
    BY <2>5, <2>7 DEF Same, Fields, Core
  <2>9. Data(y)
    <3>1. Input(y)
      <4>1. Input(u)  BY <2>5 DEF Data
      <4>. QED BY <2>6, <2>7, <2>8, <4>1 DEF Input
    <3>2. s.fnlvl + 1 \in Int  BY <1>1
    <3>. QED BY <1>1, <2>5, <2>7, <2>8, <3>1, <3>2, DataIs, DataBy
  <2>10. v = <<"st", Len(s.call)>>  BY <2>8
  <2>11. Adds(t, y, v, "fn_restore", sv.st, y.pintr_disabled)  BY <2>9, PushAdds
  <2> HIDE DEF v, t
  <2>12. /\ Data(t) /\ t.mark = s.mark /\ t.fnlvl = s.fnlvl + 1 /\ t.insource = 2 /\ t.haderr = FALSE /\ t.call = s.call
         /\ ~t.aborted /\ t.pintr_disabled = s.pintr_disabled
    BY <2>5, <2>7, <2>8, <2>11, AddsKeep
  <2>13. Len(t.cs) = m + 1 /\ t.cs[m + 1] = [v |-> v, fn |-> "fn_restore", old |-> sv.st] /\ \A i \in 1 .. m : t.cs[i] = s.cs[i]
    BY <2>8, <2>11 DEF Adds
  <2>14. a \in Envs /\ b \in Envs /\ a.b = m /\ b.b = m + 1 /\ b = [a EXCEPT !.b = a.b + 1, !.l = a.l + 1, !.src = 2]
    <3>1. a \in Envs /\ b \in Envs  BY <1>1, <2>12, DataIs
    <3>2. a.b = m /\ a.m = s.mark /\ a.d = s.pintr_disabled /\ a.l = s.fnlvl /\ a.src = s.insource  BY EnvOfIs
    <3>3. b.b = m + 1 /\ b.m = s.mark /\ b.d = s.pintr_disabled /\ b.l = s.fnlvl + 1 /\ b.src = 2  BY <2>12, <2>13, EnvOfIs
    <3> HIDE DEF a, b, m
    <3> DEFINE R == [a EXCEPT !.b = a.b + 1, !.l = a.l + 1, !.src = 2]
    <3>4. R \in Envs /\ R.b = a.b + 1 /\ R.m = a.m /\ R.d = a.d /\ R.l = a.l + 1 /\ R.src = 2
      <4>1. a.b \in Nat /\ a.l \in Int  BY <3>1, EnvIs
      <4>2. a.b + 1 \in Nat /\ a.l + 1 \in Int  BY <4>1
      <4>. QED BY <3>1, <4>2 DEF Envs
    <3>5. b = R
      <4> HIDE DEF R
      <4>. QED BY <3>1, <3>2, <3>3, <3>4, EnvSame
    <3>. QED BY <3>1, <3>2, <3>3, <3>5
  <2>15. g.k = "B" /\ g.at = "ret"
    <3>1. Top(s) \in Frames  BY StackIs DEF Live
    <3>2. Top(s) \in Builtins  BY <3>1 DEF Frames, Processes, Hooks
    <3>. QED BY <3>2 DEF Builtins
  <2> HIDE DEF g, a, b
  <2>16. Pushed(g, Len(s.call), t.cs, a, b)
    <3>1. t.cs[b.b].v = <<"st", Len(s.call)>> /\ t.cs[b.b].fn = "fn_restore" /\ t.cs[b.b].old = sv.st
      BY <2>10, <2>13, <2>14
    <3>2. Saves(t.cs[b.b], a.src)
      <4>1. a.src = s.insource  BY EnvOfIs DEF a
      <4>. QED BY <2>6, <3>1, <4>1 DEF Saves
    <3>. QED BY <2>14, <2>15, <3>1, <3>2 DEF Pushed
  <2>17. Nests(t, s, "ret")  BY <2>12, <2>13, <2>16 DEF Nests, g, a, b
  <2>. QED BY <2>2, <2>17, NestSound
<1>. QED BY <1>2, <1>3

LEMMA DoevalSound ==
  ASSUME NoRepeat, NEW s, NEW e, Live(s, e), Top(s).k = "B", Top(s).at = "start", s.haderr = FALSE,
         NEW text \in Seq(Lines)
  PROVE  Sound(doeval(s, text))
<1> DEFINE st == [f \in {"evalvec", "didfds", "SHIN", "SHOUT", "SHDIAG"} |-> s[f]]
           u == [s EXCEPT !.evalvec = Evals(text)]
           v == <<"st", Len(s.call)>>
           y == cleanup_push(u, v, "doeval_cleanup", st)
           z == CopyTo(CopyTo(CopyTo(y, "SHIN", 0), "SHOUT", 1), "SHDIAG", 2)
           t == [z EXCEPT !.didfds = FALSE]
           m == Len(s.cs)
           g == [Top(s) EXCEPT !.at = "eval"]
           a == EnvOf(s)
           b == EnvOf(t)
<1>1. Data(s) /\ ~s.aborted /\ DOMAIN s = Fields /\ s.call # <<>> /\ m \in Nat  BY DataIs DEF Live
<1>2. st.evalvec \in EvalLines  BY <1>1, DataIs
<1>3. doeval(s, text) = process(At(t, "eval"), FALSE)  BY DEF doeval, St
<1> HIDE DEF st
<1>4. Evals(text) \in EvalLines  BY DEF Evals, EvalLines
<1>5. Same(u, s, {"evalvec"}) /\ u.evalvec = Evals(text)  BY <1>1 DEF Same, Fields, Core
<1> HIDE DEF u
<1>6. Same(u, s, {"arena", "evalvec"} \cup Aside) /\ u.arena = s.arena /\ u.haderr = FALSE
  BY <1>5 DEF Same, Fields, Core
<1>7. s.arena \in Arenas  BY <1>1 DEF Data, Input
<1>8. /\ Data(u) /\ EnvOf(u) = EnvOf(s) /\ u.cs = s.cs /\ u.call = s.call /\ u.aborted = s.aborted /\ u.mark = s.mark
      /\ u.fnlvl = s.fnlvl /\ u.insource = s.insource /\ u.pintr_disabled = s.pintr_disabled
  BY <1>1, <1>4, <1>5, <1>6, <1>7, ReadsData
<1>9. Adds(y, u, v, "doeval_cleanup", st, u.pintr_disabled)  BY <1>8, PushAdds
<1> HIDE DEF y, v
<1>10. /\ Data(y) /\ y.mark = s.mark /\ y.fnlvl = s.fnlvl /\ y.insource = s.insource /\ y.haderr = FALSE /\ y.call = s.call
       /\ ~y.aborted /\ y.pintr_disabled = s.pintr_disabled /\ DOMAIN y = Fields
  BY <1>1, <1>6, <1>8, <1>9, AddsKeep
<1>11. Len(y.cs) = m + 1 /\ y.cs[m + 1] = [v |-> v, fn |-> "doeval_cleanup", old |-> st] /\ \A i \in 1 .. m : y.cs[i] = s.cs[i]
  BY <1>8, <1>9 DEF Adds
<1>12. Only(t, y, Streams3)
  <2>1. "SHIN" \in Streams3 /\ "SHOUT" \in Streams3 /\ "SHDIAG" \in Streams3 /\ "didfds" \in Streams3  BY DEF Streams3
  <2>2. Only(z, y, Streams3)  BY <2>1, ToIs, StreamsTrans
  <2> HIDE DEF z
  <2>3. Only(t, z, Streams3)  BY <2>1, FdIs
  <2> HIDE DEF t
  <2>. QED BY <2>2, <2>3, StreamsTrans
<1> HIDE DEF t
<1>13. DOMAIN t = Fields /\ \A f \in Core : t[f] = y[f]  BY <1>10, <1>12, StreamsOnly
<1>14. Data(t) /\ EnvOf(t) = EnvOf(y)  BY <1>10, <1>13, DataLike
<1>15. t.haderr = FALSE /\ t.call = s.call /\ ~t.aborted /\ t.cs = y.cs  BY <1>10, <1>13 DEF Core
<1>16. a \in Envs /\ b \in Envs /\ a.b = m /\ b.b = m + 1 /\ b = [a EXCEPT !.b = a.b + 1]
  <2>1. a \in Envs /\ b \in Envs  BY <1>1, <1>14, DataIs
  <2>2. a.b = m /\ a.m = s.mark /\ a.d = s.pintr_disabled /\ a.l = s.fnlvl /\ a.src = s.insource  BY EnvOfIs
  <2>3. b.b = m + 1 /\ b.m = s.mark /\ b.d = s.pintr_disabled /\ b.l = s.fnlvl /\ b.src = s.insource
    BY <1>10, <1>11, <1>14, EnvOfIs
  <2> HIDE DEF a, b, m
  <2> DEFINE R == [a EXCEPT !.b = a.b + 1]
  <2>4. R \in Envs /\ R.b = a.b + 1 /\ R.m = a.m /\ R.d = a.d /\ R.l = a.l /\ R.src = a.src
    <3>1. a.b \in Nat  BY <2>1, EnvIs
    <3>2. a.b + 1 \in Nat  BY <3>1
    <3>. QED BY <2>1, <3>2 DEF Envs
  <2>5. b = R
    <3> HIDE DEF R
    <3>. QED BY <2>1, <2>2, <2>3, <2>4, EnvSame
  <2>. QED BY <2>1, <2>2, <2>3, <2>5
<1>17. g.k = "B" /\ g.at = "eval"
  <2>1. Top(s) \in Frames  BY StackIs DEF Live
  <2>2. Top(s) \in Builtins  BY <2>1 DEF Frames, Processes, Hooks
  <2>. QED BY <2>2 DEF Builtins
<1> HIDE DEF g, a, b
<1>18. Pushed(g, Len(s.call), t.cs, a, b)
  <2>1. t.cs[b.b].v = <<"st", Len(s.call)>> /\ t.cs[b.b].fn = "doeval_cleanup" /\ t.cs[b.b].old = st
    BY <1>11, <1>15, <1>16 DEF v
  <2>. QED BY <1>2, <1>16, <1>17, <2>1 DEF Pushed
<1>19. Nests(t, s, "eval")  BY <1>11, <1>14, <1>15, <1>18 DEF Nests, g, a, b
<1>. QED BY <1>3, <1>19, NestSound

-----------------------------------------------------------------------------
(* The builtins. *)

\* A builtin goes on, or is done.
LEMMA GoesOn ==
  ASSUME NEW s, NEW e, Live(s, e), s.haderr = FALSE, Top(s).k = "B"
  PROVE  Sound(s)
<1>1. Handled(s)  BY DEF Handled, Live
<1>. QED BY <1>1, SoundIs DEF Live

LEMMA Done ==
  ASSUME NEW s, NEW e, Live(s, e), Top(s).k = "B", Top(s).at \in {"start", "failed"}
  PROVE  LET ok == At(s, "after")
         IN (\E e2 : Live(ok, e2)) /\ Top(ok).k = "B" /\ Top(ok).at = "after" /\ Same(ok, s, {"call"}) /\ Ready(ok) /\ Over(ok, ok)
<1> DEFINE g == [Top(s) EXCEPT !.at = "after"]
           r == SetTop(s, g)
<1>1. At(s, "after") = r  BY AtIs
<1>2. Frame(Top(s), Len(s.call), s.cs, e[Len(s.call)], EnvOf(s))  BY StackIs DEF Live
<1>3. Frame(g, Len(s.call), s.cs, e[Len(s.call)], EnvOf(s)) /\ g.k = "B" /\ g.at = "after"
  <2>1. "after" \in {"start", "after", "failed"} /\ Top(s).at \in {"start", "after", "failed"}  OBVIOUS
  <2>. QED BY <1>2, <2>1, BuiltinAt
<1> HIDE DEF g
<1>4. Becomes(r, s, g) /\ \E e2 : Live(r, e2)  BY <1>3, Sets
<1> HIDE DEF r
<1>5. Top(r).k = "B" /\ Top(r).at = "after" /\ Same(r, s, {"call"})  BY <1>3, <1>4 DEF Becomes
<1>6. Catches(Top(r))  BY <1>5 DEF Catches
<1>7. Ready(r)  BY <1>4, <1>6, ReadyIs
<1>8. Over(r, r)  BY <1>4, OverSelf DEF Live
<1>. QED BY <1>1, <1>4, <1>5, <1>7, <1>8

LEMMA DoexitSound ==
  ASSUME NEW s, NEW e, Live(s, e), Top(s).k = "B", s.haderr = FALSE
  PROVE  Sound(doexit(s))
<1> DEFINE q == btoeof(s)
           y == [q EXCEPT !.doneinp = TRUE]
           c == xclose(y, y.SHIN)
           z == [c EXCEPT !.SHIN = -1]
           r == IF s.insource # 0 THEN y ELSE z
<1>1. Data(s) /\ DOMAIN s = Fields  BY DataIs DEF Live
<1>2. Same(q, s, {"arena", "evalvec"}) /\ Data(q)  BY <1>1, BtoeofIs
<1>3. q.arena \in Arenas /\ q.arena.kind = s.arena.kind /\ q.evalvec \in EvalLines
  <2>1. q.arena \in Arenas /\ q.evalvec \in EvalLines  BY <1>2 DEF Data, Input
  <2>2. q.arena.kind = s.arena.kind
    <3>1. s.arena \in Arenas  BY <1>1 DEF Data, Input
    <3>2. q.arena = [s.arena EXCEPT !.pos = s.arena.feob]  BY <1>1 DEF btoeof, Fields, Core
    <3>. QED BY <3>1, <3>2 DEF Arenas
  <2>. QED BY <2>1, <2>2
<1>4. doexit(s) = r
  <2>1. y.insource = s.insource  BY <1>2 DEF Same, Fields, Core
  <2>. QED BY <2>1 DEF doexit
<1> HIDE DEF q
<1>5. Same(y, q, {"doneinp"})  BY <1>2 DEF Same, Fields, Core
<1> HIDE DEF y
<1>6. Same(z, y, Streams3)
  <2>1. DOMAIN y = Fields  BY <1>5 DEF Same
  <2>2. Only(c, y, Streams3)  BY CloseIs
  <2> HIDE DEF c
  <2>3. "SHIN" \in Streams3  BY DEF Streams3
  <2>4. Only(z, c, Streams3)  BY <2>3, FdIs
  <2> HIDE DEF z
  <2>5. Only(z, y, Streams3)  BY <2>2, <2>4, StreamsTrans
  <2>. QED BY <2>1, <2>5, SameOnly
<1> HIDE DEF z
<1>7. Same(r, q, Aside)
  <2>1. {"doneinp"} \subseteq Aside /\ Streams3 \subseteq Aside  BY DEF Aside
  <2>2. Same(z, q, Aside) /\ Same(y, q, Aside)
    <3>1. Same(z, q, Aside)  BY <1>5, <1>6, <2>1, SameTrans
    <3>2. Same(y, q, Aside)  BY <1>5, <2>1 DEF Same
    <3>. QED BY <3>1, <3>2
  <2>. QED BY <2>2
<1>8. r.arena = q.arena /\ r.evalvec = q.evalvec
  BY <1>7 DEF Same, Aside, Streams3, Fields, Core
<1>9. r.haderr = FALSE
  <2>1. y.haderr = q.haderr  BY <1>5 DEF Same, Fields, Core
  <2>2. z.haderr = y.haderr  BY <1>6 DEF Same, Fields, Core, Streams3
  <2>3. q.haderr = s.haderr  BY <1>2 DEF Same, Fields, Core
  <2>. QED BY <2>1, <2>2, <2>3
<1> HIDE DEF r
<1>10. Same(r, s, {"arena", "evalvec"} \cup Aside)
  <2>1. {"arena", "evalvec"} \subseteq {"arena", "evalvec"} \cup Aside /\ Aside \subseteq {"arena", "evalvec"} \cup Aside  OBVIOUS
  <2>. QED BY <1>2, <1>7, <2>1, SameTrans
<1>11. Live(r, e) /\ Top(r) = Top(s)
  <2>1. r.arena \in Arenas /\ r.arena.kind = s.arena.kind /\ r.evalvec \in EvalLines  BY <1>3, <1>8
  <2>2. r.haderr \in BOOLEAN  BY <1>9
  <2>. QED BY <1>10, <2>1, <2>2, LiveReads
<1>. QED BY <1>4, <1>9, <1>11, GoesOn

LEMMA DoonintrSound ==
  ASSUME NEW s, NEW e, Live(s, e), Top(s).k = "B", Top(s).at = "after", s.haderr = FALSE, NEW lab
  PROVE  Sound(doonintr(s, lab))
<1>1. Data(s) /\ DOMAIN s = Fields /\ ~s.aborted /\ Input(s)  BY DataIs DEF Live
<1>2. CASE s.intty
  <2>1. Catches(Top(s))  BY DEF Catches
  <2>2. Ready(s) /\ Over(s, s)  BY <1>1, <2>1, ReadyIs, OverSelf
  <2>3. Sound(stderror(s, FALSE))  BY <2>2, StderrorSound
  <2>. QED BY <1>2, <2>3 DEF doonintr
<1>3. CASE ~s.intty
  <2> DEFINE r == [s EXCEPT !.gointr = lab]
  <2>1. doonintr(s, lab) = r  BY <1>3 DEF doonintr
  <2>2. Same(r, s, {"gointr"})  BY <1>1 DEF Same, Fields, Core
  <2> HIDE DEF r
  <2>3. /\ DOMAIN r = Fields /\ r.cs = s.cs /\ r.mark = s.mark /\ r.pintr_disabled = s.pintr_disabled /\ r.fnlvl = s.fnlvl
        /\ r.insource = s.insource /\ r.justpr = s.justpr /\ r.aliases = s.aliases /\ r.evalvec = s.evalvec
        /\ r.enterhist = s.enterhist /\ r.intty = s.intty /\ r.arena = s.arena /\ r.aborted = s.aborted
        /\ r.haderr = s.haderr /\ r.call = s.call
    BY <2>2 DEF Same, Fields, Core
  <2>4. Input(r)  BY <1>1, <1>3, <2>3 DEF Input
  <2>5. Data(r)  BY <1>1, <2>3, <2>4, DataIs, DataBy
  <2>6. EnvOf(r) = EnvOf(s)  BY <2>3 DEF EnvOf
  <2>7. Live(r, e) /\ Top(r) = Top(s)  BY <1>1, <2>3, <2>5, <2>6, LiveData
  <2>8. r.haderr = FALSE  BY <2>3
  <2>. QED BY <2>1, <2>7, <2>8, GoesOn
<1>. QED BY <1>2, <1>3

LEMMA WroteSound ==
  ASSUME NEW s, NEW e, Live(s, e), Top(s).k = "B", s.haderr = FALSE, NEW c
  PROVE  Sound(Wrote(s, c))
<1> DEFINE o == [to |-> IF c.c = "ext" /\ c.to # "" THEN c.to ELSE Output(s), wants |-> IF c.to # "" THEN c.to ELSE Wants(s)]
           r == [s EXCEPT !.out = o]
<1>1. DOMAIN s = Fields  BY DataIs DEF Live
<1>2. Wrote(s, c) = r  BY DEF Wrote
<1> HIDE DEF o
<1>3. Same(r, s, {"out"}) /\ r.haderr = FALSE  BY <1>1 DEF Same, Fields, Core
<1> HIDE DEF r
<1>4. {"out"} \in SUBSET Aside  BY DEF Aside
<1>5. Live(r, e) /\ Top(r) = Top(s)  BY <1>3, <1>4, LiveSame
<1>. QED BY <1>2, <1>3, <1>5, GoesOn

LEMMA StartSound ==
  ASSUME NoRepeat, NEW s, NEW e, Live(s, e), Top(s).k = "B", Top(s).at = "start", s.haderr = FALSE
  PROVE  Sound(Builtin(s))
<1> DEFINE f == Top(s)
           c == f.cmd
           ok == At(s, "after")
<1>1. c \in Internals
  <2>1. f \in Frames  BY StackIs DEF Live
  <2>. QED BY <2>1 DEF Frames, Processes, Hooks, Builtins
<1>2. /\ (\E e2 : Live(ok, e2)) /\ Top(ok).k = "B" /\ Top(ok).at = "after" /\ Same(ok, s, {"call"}) /\ Ready(ok) /\ Over(ok, ok)
  BY Done
<1>3. Ready(s) /\ Over(s, s)
  <2>1. Catches(Top(s))  BY DEF Catches
  <2>. QED BY <2>1, ReadyIs, OverSelf DEF Live
<1>4. Sound(stderror(s, FALSE))  BY <1>3, StderrorSound
<1>5. c.c = "echo" => Builtin(s) = Wrote(ok, c)  BY DEF Builtin
<1>6. c.c = "label" => Builtin(s) = ok  BY DEF Builtin
<1>7. c.c = "err" => Builtin(s) = stderror(s, FALSE)  BY DEF Builtin
<1>8. c.c = "exit" => Builtin(s) = doexit(ok)  BY DEF Builtin
<1>9. c.c = "onintr" => Builtin(s) = doonintr(ok, c.n)  BY DEF Builtin
<1>10. c.c = "goto" => Builtin(s) = gotolab(ok, c.n)  BY DEF Builtin
<1>11. c.c = "source" => Builtin(s) = IF c.n \notin DOMAIN Files THEN stderror(s, FALSE) ELSE srcunit(s, c.n, c.h)  BY DEF Builtin
<1>12. c.c = "call" => Builtin(s) = dofunction(s, c.n)  BY DEF Builtin
<1>13. c.c = "eval" => Builtin(s) = doeval(s, c.l)  BY DEF Builtin
<1> HIDE DEF ok, c
<1>14. ok.haderr = FALSE  BY <1>2 DEF Same, Fields, Core
<1>15. PICK e2 : Live(ok, e2)  BY <1>2
<1>16. CASE c.c \in {"echo", "label", "err", "exit", "onintr", "goto"}
  <2>1. Sound(Wrote(ok, c))  BY <1>2, <1>14, <1>15, WroteSound
  <2>2. Sound(ok)  BY <1>2, <1>14, <1>15, GoesOn
  <2>3. Sound(doexit(ok))  BY <1>2, <1>14, <1>15, DoexitSound
  <2>4. Sound(doonintr(ok, c.n))  BY <1>2, <1>14, <1>15, DoonintrSound
  <2>5. Sound(gotolab(ok, c.n))  BY <1>2, <1>15, GotolabSound
  <2>. QED BY <1>4, <1>5, <1>6, <1>7, <1>8, <1>9, <1>10, <1>16, <2>1, <2>2, <2>3, <2>4, <2>5
<1>17. CASE c.c = "source" /\ c.h \in BOOLEAN
  <2>1. c.n \in DOMAIN Files => Sound(srcunit(s, c.n, c.h))  BY <1>17, SrcunitSound
  <2>. QED BY <1>4, <1>11, <1>17, <2>1
<1>18. CASE c.c = "call" /\ c.n \in DOMAIN Functions
  <2>1. Sound(dofunction(s, c.n))  BY <1>18, DofunctionSound
  <2>. QED BY <1>12, <1>18, <2>1
<1>19. CASE c.c = "eval" /\ c.l \in Seq(Lines)
  <2>1. Sound(doeval(s, c.l))  BY <1>19, DoevalSound
  <2>. QED BY <1>13, <1>19, <2>1
<1>. QED BY <1>1, <1>16, <1>17, <1>18, <1>19 DEF NoRepeat, Simple, Internals

LEMMA BuiltinSound ==
  ASSUME NoRepeat, NEW s, NEW e, Live(s, e), Handled(s), Top(s).k = "B"
  PROVE  Sound(Builtin(s))
<1> DEFINE f == Top(s)
           ok == At(s, "after")
<1>1. f.at \in {"start", "after", "failed", "eval", "ret"}
  <2>1. f \in Frames  BY StackIs DEF Live
  <2>2. f \in Builtins  BY <2>1 DEF Frames, Processes, Hooks
  <2>. QED BY <2>2 DEF Builtins
<1>2. f.at \in {"start", "eval", "ret"} => s.haderr = FALSE
  <2>1. s.haderr \in BOOLEAN  BY DataIs DEF Live
  <2>. QED BY <2>1 DEF Handled, Handles
<1>3. CASE f.at = "start"
  BY <1>2, <1>3, StartSound
<1>4. CASE f.at \in {"eval", "ret"}
  <2>1. Builtin(s) = cleanup_until(At(s, "after"), <<"st", Len(s.call)>>)
    <3> HIDE DEF ok
    <3>. QED BY <1>4 DEF Builtin, ok
  <2>. QED BY <1>2, <1>4, <2>1, RetSound
<1>5. CASE f.at = "failed"
  <2>1. Builtin(s) = stderror(ok, TRUE)  BY <1>5 DEF Builtin
  <2>2. Ready(ok) /\ Over(ok, ok)  BY <1>5, Done
  <2> HIDE DEF ok
  <2>. QED BY <2>1, <2>2, StderrorSound
<1>6. CASE f.at = "after"
  BY <1>6, AfterSound
<1>. QED BY <1>1, <1>3, <1>4, <1>5, <1>6

-----------------------------------------------------------------------------
(* process(). *)

\* What process() changes.
Within(a, b) == [a EXCEPT !.b = b.b, !.m = a.b]

\* A frame of process() that goes on.
LEMMA ProcessAt ==
  ASSUME NEW f, NEW i, NEW cs, NEW a, NEW b, Frame(f, i, cs, a, b), f.k = "P"
  PROVE  /\ f \in Processes /\ a \in Envs /\ b \in Envs /\ f.omark = a.m /\ b = Within(a, b)
         /\ f.at \in {"top", "lex"} => b.b = a.b
         /\ f.failed => f.at # "lex" /\ b.b = a.b
BY DEF Frame, Frames, Hooks, Builtins, Pushed, Doomed, Within

LEMMA LexAt ==
  ASSUME NEW f, NEW i, NEW cs, NEW a, NEW b, Frame(f, i, cs, a, b), f.k = "P", f.at \in {"top", "lex"}, ~f.failed
  PROVE  LET g == [f EXCEPT !.at = "lex"]
         IN Frame(g, i, cs, a, b) /\ g.k = "P" /\ g.at = "lex" /\ g.catch = f.catch
<1> DEFINE g == [f EXCEPT !.at = "lex"]
<1>1. f \in Processes /\ a \in Envs /\ b \in Envs /\ f.omark = a.m /\ b = Within(a, b) /\ b.b = a.b
  BY ProcessAt
<1>2. g \in Processes /\ g.k = "P" /\ g.at = "lex" /\ g.catch = f.catch /\ g.omark = f.omark /\ g.failed = f.failed
  BY <1>1 DEF Processes
<1> HIDE DEF g
<1>3. Frame(g, i, cs, a, b)  BY <1>1, <1>2 DEF Frame, Frames, Pushed, Doomed, Within
<1>. QED BY <1>2, <1>3 DEF g

LEMMA CaughtAt ==
  ASSUME NEW f, NEW i, NEW cs, NEW a, NEW b, Frame(f, i, cs, a, b), f.k = "P", f.at = "top"
  PROVE  LET g == [f EXCEPT !.failed = FALSE]
         IN Frame(g, i, cs, a, b) /\ g.k = "P" /\ g.at = "top" /\ g.catch = f.catch /\ g.failed = FALSE
<1> DEFINE g == [f EXCEPT !.failed = FALSE]
<1>1. f \in Processes /\ a \in Envs /\ b \in Envs /\ f.omark = a.m /\ b = Within(a, b) /\ b.b = a.b
  BY ProcessAt
<1>2. g \in Processes /\ g.k = "P" /\ g.at = "top" /\ g.catch = f.catch /\ g.omark = f.omark /\ g.failed = FALSE
  BY <1>1 DEF Processes
<1> HIDE DEF g
<1>3. Frame(g, i, cs, a, b)  BY <1>1, <1>2 DEF Frame, Frames, Pushed, Doomed, Within
<1>. QED BY <1>2, <1>3 DEF g

\* What process() has at the start of its loop.
LEMMA JustIs ==
  ASSUME NEW s, NEW e, Live(s, e)
  PROVE  LET y == [s EXCEPT !.justpr = s.enterhist]
         IN Live(y, e) /\ Top(y) = Top(s) /\ Same(y, s, {"justpr"}) /\ EnvOf(y) = EnvOf(s)
<1> DEFINE y == [s EXCEPT !.justpr = s.enterhist]
<1>1. Data(s) /\ DOMAIN s = Fields /\ ~s.aborted /\ Input(s) /\ s.enterhist \in BOOLEAN  BY DataIs DEF Live, Input
<1>2. Same(y, s, {"justpr"}) /\ y.justpr = s.enterhist  BY <1>1 DEF Same, Fields, Core
<1> HIDE DEF y
<1>3. /\ DOMAIN y = Fields /\ y.cs = s.cs /\ y.mark = s.mark /\ y.pintr_disabled = s.pintr_disabled /\ y.fnlvl = s.fnlvl
      /\ y.insource = s.insource /\ y.gointr = s.gointr /\ y.aliases = s.aliases /\ y.evalvec = s.evalvec
      /\ y.enterhist = s.enterhist /\ y.intty = s.intty /\ y.arena = s.arena /\ y.aborted = s.aborted
      /\ y.haderr = s.haderr /\ y.call = s.call
  BY <1>2 DEF Same, Fields, Core
<1>4. Input(y)  BY <1>1, <1>3 DEF Input
<1>5. Data(y)  BY <1>1, <1>2, <1>3, <1>4, DataIs, DataBy
<1>6. EnvOf(y) = EnvOf(s)  BY <1>3 DEF EnvOf
<1>7. Live(y, e) /\ Top(y) = Top(s)  BY <1>1, <1>3, <1>5, <1>6, LiveData
<1>. QED BY <1>2, <1>6, <1>7 DEF y

\* process() is left.
LEMMA Leaves ==
  ASSUME NEW s, NEW e, Live(s, e), Top(s).k = "P", Top(s).at = "top"
  PROVE  LET q == cleanup_pop_mark(PopCall([s EXCEPT !.doneinp = FALSE]), Top(s).omark)
         IN /\ Data(q) /\ ~q.aborted /\ Stack(q, e) /\ q.haderr = s.haderr
            /\ q.call # <<>> => Top(q).k = "B"
            /\ ~Top(s).catch => q.call # <<>>
<1> DEFINE n == Len(s.call)
           f == Top(s)
           y == [s EXCEPT !.doneinp = FALSE]
           p == PopCall(y)
           q == cleanup_pop_mark(p, f.omark)
           a == e[n]
           b == EnvOf(s)
<1>1. Data(s) /\ DOMAIN s = Fields /\ ~s.aborted /\ s.call # <<>> /\ Stack(s, e)  BY DataIs DEF Live
<1>2. n \in Nat /\ n > 0 /\ n \in 1 .. n /\ Frame(f, n, s.cs, a, b) /\ f = s.call[n]  BY <1>1, StackIs
<1>3. a \in Envs /\ b \in Envs /\ f.omark = a.m /\ b = Within(a, b) /\ b.b = a.b /\ f \in Processes
  BY <1>2, ProcessAt
<1>4. a.m <= a.b /\ a.m \in Nat
  <2>1. Chain(s.call, s.cs, e, n)  BY <1>1 DEF Stack
  <2> HIDE DEF n
  <2>2. n \in 1 .. n + 1  BY <1>2
  <2>. QED BY <2>1, <2>2, ChainIs
<1>5. Same(y, s, {"doneinp"}) /\ DOMAIN y = Fields  BY <1>1 DEF Same, Fields, Core
<1>6. y.call = s.call /\ y.cs = s.cs /\ y.haderr = s.haderr  BY <1>5 DEF Same, Fields, Core
<1> HIDE DEF y
<1>7. Same(p, y, {"call"}) /\ p.call = Front(s.call)  BY <1>5, <1>6, PopCallIs
<1> HIDE DEF p
<1>8. p.cs = s.cs /\ DOMAIN p = Fields  BY <1>6, <1>7 DEF Same, Fields, Core
<1>9. b.b = Len(s.cs) /\ b.d = s.pintr_disabled /\ b.l = s.fnlvl /\ b.src = s.insource  BY EnvOfIs
<1> HIDE DEF a, b
<1>10. q = [p EXCEPT !.mark = f.omark]  BY <1>3, <1>4, <1>8, <1>9 DEF cleanup_pop_mark
<1> HIDE DEF q
<1>11. Same(q, p, {"mark"}) /\ q.mark = a.m  BY <1>3, <1>8, <1>10 DEF Same, Fields, Core
<1>12. /\ q.cs = s.cs /\ q.pintr_disabled = s.pintr_disabled /\ q.fnlvl = s.fnlvl /\ q.justpr = s.justpr
       /\ q.insource = s.insource /\ q.gointr = s.gointr /\ q.aliases = s.aliases /\ q.evalvec = s.evalvec
       /\ q.enterhist = s.enterhist /\ q.intty = s.intty /\ q.arena = s.arena /\ q.aborted = s.aborted
       /\ q.haderr = s.haderr /\ q.call = Front(s.call) /\ DOMAIN q = Fields
  BY <1>5, <1>7, <1>11 DEF Same, Fields, Core
<1>13. Data(q)
  <2>1. Input(q)
    <3>1. Input(s)  BY <1>1, DataIs
    <3>. QED BY <1>12, <3>1 DEF Input
  <2>. QED BY <1>1, <1>4, <1>11, <1>12, <2>1, DataIs, DataBy
<1>14. EnvOf(q) = a
  <2> DEFINE E == EnvOf(q)
  <2>1. E \in Envs /\ E.b = Len(s.cs) /\ E.m = a.m /\ E.d = s.pintr_disabled /\ E.l = s.fnlvl /\ E.src = s.insource
    BY <1>11, <1>12, <1>13, DataIs, EnvOfIs
  <2>2. a.d = b.d /\ a.l = b.l /\ a.src = b.src
    <3>1. Within(a, b).d = a.d /\ Within(a, b).l = a.l
          /\ Within(a, b).src = a.src
      BY <1>3 DEF Envs, Within
    <3>. QED BY <1>3, <3>1
  <2> HIDE DEF E
  <2>3. E = a  BY <1>3, <1>9, <2>1, <2>2, EnvSame
  <2>. QED BY <2>3 DEF E
<1>15. Returns(q, s, e)  BY <1>12, <1>14 DEF Returns, a
<1>16. /\ Stack(q, e) /\ Len(q.call) = n - 1
       /\ (f.k # "P" \/ ~f.catch) => q.call # <<>> /\ Top(q) = s.call[n - 1] /\ Calls(Top(q), f)
  BY <1>1, <1>15, TopReturns
<1>17. ~f.catch => q.call # <<>> /\ Top(q).k = "B"
  <2>1. ~f.catch => q.call # <<>> /\ Calls(Top(q), f)  BY <1>16
  <2>. QED BY <2>1 DEF Calls
<1>18. f.catch => q.call = <<>>
  <2>1. ASSUME f.catch PROVE n = 1
    <3>1. Chain(s.call, s.cs, e, n)  BY <1>1 DEF Stack
    <3> HIDE DEF n
    <3>2. CASE n # 1
      <4>1. n - 1 \in 1 .. n - 1 /\ (n - 1) + 1 = n  BY <1>2, <3>2
      <4>2. \A i \in 1 .. n - 1 : Calls(s.call[i], s.call[i + 1])  BY <3>1, ChainIs
      <4>3. Calls(s.call[n - 1], s.call[(n - 1) + 1])  BY <4>1, <4>2
      <4>4. Calls(s.call[n - 1], f)  BY <1>2, <4>1, <4>3
      <4>. QED BY <2>1, <4>4 DEF Calls
    <3>. QED BY <3>2
  <2>2. IsSeq(q.call)  BY <1>16 DEF Stack
  <2>3. f.catch => Len(q.call) = 0
    <3>1. n = 1 => n - 1 = 0  OBVIOUS
    <3> HIDE DEF n
    <3>. QED BY <1>16, <2>1, <3>1
  <2>4. Len(q.call) = 0 => q.call = <<>>
    <3>1. q.call \in Seq({q.call[i] : i \in DOMAIN q.call})  BY <2>2 DEF IsSeq
    <3>. QED BY <3>1, EmptySeq
  <2>. QED BY <2>3, <2>4
<1>19. ~q.aborted /\ (q.call # <<>> => f.catch = FALSE \/ ~f.catch)  BY <1>1, <1>12, <1>18
<1>. QED BY <1>12, <1>13, <1>16, <1>17, <1>18, <1>19 DEF q, p, y

LEMMA LoopTopSound ==
  ASSUME NoRepeat, NEW s, NEW e, Live(s, e), Handled(s), Top(s).k = "P", Top(s).at = "top"
  PROVE  Sound(LoopTop(s))
<1> DEFINE f == Top(s)
           n == Len(s.call)
           y == [s EXCEPT !.justpr = s.enterhist]
           z == [y EXCEPT !.doneinp = FALSE]
           q == cleanup_pop_mark(PopCall(z), f.omark)
           g == [f EXCEPT !.failed = FALSE]
           h == [SetTop(y, g) EXCEPT !.haderr = FALSE]
           l == At(y, "lex")
<1>1. Live(y, e) /\ Top(y) = f /\ Same(y, s, {"justpr"}) /\ EnvOf(y) = EnvOf(s)  BY JustIs
<1>2. y.haderr = s.haderr /\ y.call = s.call /\ y.cs = s.cs /\ DOMAIN y = Fields /\ s.haderr \in BOOLEAN
  <2>1. s.haderr \in BOOLEAN  BY DataIs DEF Live
  <2>. QED BY <1>1, <2>1 DEF Same, Fields, Core
<1>3. LoopTop(s) = IF y.haderr THEN (IF f.catch THEN closem(h) ELSE reset(Failed(q)))
                   ELSE IF y.doneinp THEN q
                   ELSE IF y.intty /\ ~y.evalvec.on THEN Hook(l, "precmd")
                   ELSE l
  BY DEF LoopTop
<1> HIDE DEF y
<1>4. Frame(f, n, y.cs, e[n], EnvOf(y))
  <2>1. Stack(y, e) /\ y.call # <<>>  BY <1>1 DEF Live
  <2>. QED BY <1>1, <1>2, <2>1, StackIs
<1>5. /\ Data(q) /\ ~q.aborted /\ Stack(q, e) /\ q.haderr = y.haderr
      /\ q.call # <<>> => Top(q).k = "B"
      /\ ~f.catch => q.call # <<>>
  <2>1. q = cleanup_pop_mark(PopCall([y EXCEPT !.doneinp = FALSE]), Top(y).omark)  BY <1>1
  <2>. QED BY <1>1, <2>1, Leaves
<1> HIDE DEF q
<1>6. CASE y.haderr /\ f.catch
  <2>1. Frame(g, n, y.cs, e[n], EnvOf(y)) /\ g.k = "P" /\ g.at = "top" /\ g.catch = f.catch /\ g.failed = FALSE
    BY <1>4, CaughtAt
  <2> HIDE DEF g
  <2> DEFINE x2 == SetTop(y, g)
  <2>2. Becomes(x2, y, g) /\ \E e2 : Live(x2, e2)
    <3> HIDE DEF x2
    <3>1. Frame(g, Len(y.call), y.cs, e[Len(y.call)], EnvOf(y))  BY <1>2, <2>1
    <3>. QED BY <1>1, <2>1, <3>1, Sets DEF x2
  <2> HIDE DEF x2
  <2>3. PICK e2 : Live(x2, e2)  BY <2>2
  <2>4. Top(x2) = g  BY <2>2 DEF Becomes
  <2>5. Same(h, x2, {"haderr"}) /\ h.haderr = FALSE
    <3>1. DOMAIN x2 = Fields  BY <2>3, DataIs DEF Live
    <3>2. h = [x2 EXCEPT !.haderr = FALSE]  BY DEF x2
    <3> HIDE DEF h
    <3>. QED BY <3>1, <3>2 DEF Same, Fields, Core
  <2> HIDE DEF h
  <2> DEFINE r == closem(h)
  <2>6. Same(r, h, Streams3)
    <3>1. DOMAIN h = Fields  BY <2>5 DEF Same
    <3>2. Only(r, h, Streams3)  BY DoneIs
    <3>. QED BY <3>1, <3>2, SameOnly
  <2> HIDE DEF r
  <2>7. Same(r, x2, {"haderr"} \cup Streams3)  BY <2>5, <2>6, SameTrans
  <2>8. r.haderr = FALSE  BY <2>5, <2>6 DEF Same, Fields, Core, Streams3
  <2>9. {"haderr"} \cup Streams3 \in SUBSET Aside  BY DEF Aside
  <2>10. Live(r, e2) /\ Top(r) = g  BY <2>3, <2>4, <2>7, <2>8, <2>9, LiveSame
  <2>11. Handled(r)  BY <2>1, <2>8, <2>10 DEF Handled, Handles
  <2>12. Sound(r)  BY <2>10, <2>11, SoundIs DEF Live
  <2>. QED BY <1>3, <1>6, <2>12 DEF r
<1>7. CASE y.haderr /\ ~f.catch
  <2>1. q.call # <<>> /\ Top(q).k = "B" /\ Catches(Top(q))  BY <1>5, <1>7 DEF Catches
  <2>2. Ready(q)  BY <1>5, <2>1 DEF Ready
  <2> DEFINE t == Failed(q)
             c == [q.call EXCEPT ![Inner(q)] = Fails(q.call[Inner(q)])]
  <2>3. DOMAIN q = Fields  BY <1>5, DataIs
  <2>4. t = [q EXCEPT !.call = c]  BY <1>5, <2>1, <2>3, FailedIs
  <2> HIDE DEF t, c
  <2>5. Same(t, q, {"call"}) /\ t.call = c  BY <2>3, <2>4 DEF Same, Fields, Core
  <2>6. Data(t) /\ t.cs = q.cs /\ t.mark = q.mark /\ t.aborted = q.aborted
    <3>1. Same(t, q, {} \cup {"call"}) /\ {} \in SUBSET Aside  BY <2>5
    <3>2. t.haderr \in BOOLEAN
      <4>1. t.haderr = q.haderr  BY <2>5 DEF Same, Fields, Core
      <4>. QED BY <1>5, <4>1, DataIs
    <3>. QED BY <1>5, <3>1, <3>2, DataSame
  <2>7. t.fnlvl = q.fnlvl /\ t.insource = q.insource /\ t.pintr_disabled = q.pintr_disabled  BY <2>5 DEF Same, Fields, Core
  <2>8. Over(q, q)  BY <1>5, OverSelf
  <2>9. Over(t, q)  BY <2>6, <2>7, <2>8, OverLike
  <2>10. Sound(reset(t))  BY <2>2, <2>5, <2>9, ResetSound DEF c
  <2>. QED BY <1>3, <1>7, <2>10 DEF t
<1>8. CASE ~y.haderr /\ y.doneinp
  <2>1. Handled(q)  BY <1>2, <1>5, <1>8 DEF Handled
  <2>2. Sound(q)  BY <1>5, <2>1 DEF Sound
  <2>. QED BY <1>3, <1>8, <2>2
<1>9. CASE ~y.haderr /\ ~y.doneinp
  <2>1. ~f.failed  BY <1>2, <1>9 DEF Handled, Live
  <2> DEFINE g2 == [f EXCEPT !.at = "lex"]
  <2>2. Frame(g2, n, y.cs, e[n], EnvOf(y)) /\ g2.k = "P" /\ g2.at = "lex" /\ g2.catch = f.catch
    <3>1. f.at \in {"top", "lex"}  OBVIOUS
    <3>. QED BY <1>4, <2>1, <3>1, LexAt
  <2>3. l = SetTop(y, g2)  BY <1>1, AtIs
  <2> HIDE DEF g2, l
  <2>4. Becomes(l, y, g2) /\ \E e2 : Live(l, e2)
    <3>1. Frame(g2, Len(y.call), y.cs, e[Len(y.call)], EnvOf(y))  BY <1>2, <2>2
    <3>. QED BY <1>1, <2>2, <2>3, <3>1, Sets
  <2>5. PICK e2 : Live(l, e2)  BY <2>4
  <2>6. Top(l) = g2 /\ l.haderr = FALSE
    <3>1. Same(l, y, {"call"}) /\ Top(l) = g2  BY <2>4 DEF Becomes
    <3>2. l.haderr = y.haderr  BY <3>1 DEF Same, Fields, Core
    <3>. QED BY <1>2, <1>9, <3>1, <3>2
  <2>7. "precmd" \in {"precmd", "postcmd"}  OBVIOUS
  <2>8. Sound(Hook(l, "precmd"))  BY <2>2, <2>5, <2>6, <2>7, HookSound
  <2>9. Handled(l)  BY <2>2, <2>6 DEF Handled
  <2>10. Sound(l)  BY <2>5, <2>9, SoundIs DEF Live
  <2>. QED BY <1>3, <1>9, <2>8, <2>10
<1>. QED BY <1>2, <1>6, <1>7, <1>8, <1>9

LEMMA EnableAdds ==
  ASSUME NEW s, Data(s), ~s.aborted
  PROVE  LET y == pintr_push_enable(s)
         IN Adds(y, s, Var("old"), "pintr_disabled_restore", s.pintr_disabled, 0) /\ Over(y, s) /\ y.call = s.call
<1> DEFINE u == [s EXCEPT !.pintr_disabled = 0]
           y == cleanup_push(u, Var("old"), "pintr_disabled_restore", s.pintr_disabled)
           m == Len(s.cs)
<1>1. DOMAIN s = Fields /\ m \in Nat  BY DataIs
<1>2. Same(u, s, {"pintr_disabled"}) /\ u.pintr_disabled = 0  BY <1>1 DEF Same, Fields, Core
<1>3. pintr_push_enable(s) = y  BY DEF pintr_push_enable
<1> HIDE DEF u
<1>4. Adds(y, s, Var("old"), "pintr_disabled_restore", s.pintr_disabled, 0)
  <2>1. u.pintr_disabled \in Int  BY <1>2
  <2>2. Adds(y, s, Var("old"), "pintr_disabled_restore", s.pintr_disabled, u.pintr_disabled)  BY <1>2, <2>1, AddsIs
  <2>. QED BY <1>2, <2>2
<1> HIDE DEF y
<1>5. /\ Data(y) /\ y.mark = s.mark /\ y.fnlvl = s.fnlvl /\ y.insource = s.insource /\ y.call = s.call /\ ~y.aborted
  BY <1>4, AddsKeep
<1>6. /\ Len(y.cs) = m + 1 /\ y.cs[Len(y.cs)].fn = "pintr_disabled_restore" /\ y.cs[Len(y.cs)].old = s.pintr_disabled
      /\ \A i \in 1 .. m : y.cs[i] = s.cs[i]
  BY <1>4 DEF Adds
<1>7. Over(y, s)
  <2>1. Len(y.cs) >= m
    <3> HIDE DEF m
    <3>. QED BY <1>1, <1>6
  <2>. QED BY <1>5, <1>6, <2>1 DEF Over
<1>. QED BY <1>3, <1>4, <1>5, <1>7

LEMMA LineAt ==
  ASSUME NEW f, NEW i, NEW cs, NEW a, NEW b, Frame(f, i, cs, a, b), f.k = "P", f.at = "lex",
         NEW c, NEW cs2, c \in Envs, c.b = b.b + 1, c.m = b.m, c.d = b.d, c.l = b.l, c.src = b.src,
         cs2[b.b + 1].v = Var("paraml"), cs2[b.b + 1].fn = "lex_cleanup",
         NEW g \in Processes, g.at \in {"run", "done"}, g.omark = f.omark, g.failed = FALSE
  PROVE  Frame(g, i, cs2, a, c)
<1>1. a \in Envs /\ b \in Envs /\ f.omark = a.m /\ b = Within(a, b) /\ b.b = a.b  BY ProcessAt
<1> DEFINE R == Within(a, c)
<1>2. b.m = a.b /\ b.d = a.d /\ b.l = a.l /\ b.src = a.src
  <2>1. Within(a, b).m = a.b /\ Within(a, b).d = a.d /\ Within(a, b).l = a.l /\ Within(a, b).src = a.src
    BY <1>1 DEF Envs, Within
  <2>. QED BY <1>1, <2>1
<1>3. R \in Envs /\ R.b = c.b /\ R.m = a.b /\ R.d = a.d /\ R.l = a.l /\ R.src = a.src
  <2>1. c.b \in Nat /\ a.b \in Nat  BY <1>1, EnvIs
  <2>. QED BY <1>1, <2>1 DEF Envs, Within
<1> HIDE DEF R
<1>4. c = R  BY <1>2, <1>3, EnvSame
<1>5. c.b = a.b + 1 /\ Frees(cs2[c.b], Var("paraml"))  BY <1>1 DEF Frees
<1>6. c = [a EXCEPT !.b = c.b, !.m = a.b]  BY <1>4 DEF R, Within
<1>7. g.k = "P"  BY DEF Processes
<1>8. Pushed(g, i, cs2, a, c)
  <2>1. g.k = "P" => /\ c = [a EXCEPT !.b = c.b, !.m = a.b]
                     /\ \/ c.b = a.b
                        \/ g.at \in {"run", "done"} /\ c.b = a.b + 1 /\ Frees(cs2[c.b], Var("paraml"))
    BY <1>5, <1>6
  <2>. QED BY <1>7, <2>1 DEF Pushed
<1>9. Doomed(g, a, c)  BY DEF Doomed
<1>. QED BY <1>1, <1>7, <1>8, <1>9 DEF Frame, Frames

\* w is s, in process(), with the line it has read.
Got(w, s) ==
  /\ Data(w) /\ ~w.aborted /\ w.haderr = FALSE /\ w.call = s.call
  /\ Len(w.cs) = Len(s.cs) + 1 /\ \A i \in 1 .. Len(s.cs) : w.cs[i] = s.cs[i]
  /\ w.cs[Len(s.cs) + 1].v = Var("paraml") /\ w.cs[Len(s.cs) + 1].fn = "lex_cleanup"
  /\ w.mark = s.mark /\ w.pintr_disabled = s.pintr_disabled /\ w.fnlvl = s.fnlvl /\ w.insource = s.insource

LEMMA GotSets ==
  ASSUME NEW s, NEW e, Live(s, e), Top(s).k = "P", Top(s).at = "lex", NEW w, Got(w, s), NEW g \in Processes,
         g.at \in {"run", "done"}, g.omark = Top(s).omark, g.failed = FALSE, g.catch = Top(s).catch
  PROVE  LET r == SetTop(w, g) IN (\E e2 : Live(r, e2)) /\ Top(r) = g /\ r.haderr = FALSE
<1> DEFINE r == SetTop(w, g)
           n == Len(s.call)
           a == e[n]
           b == EnvOf(s)
           c == EnvOf(w)
<1>1. Stack(s, e) /\ s.call # <<>> /\ Data(w) /\ DOMAIN w = Fields /\ ~w.aborted /\ w.haderr = FALSE /\ w.call = s.call
  BY DataIs DEF Live, Got
<1>2. Frame(Top(s), n, s.cs, a, b)  BY <1>1, StackIs
<1>3. Same(r, w, {"call"}) /\ r.call = Put(s.call, n, g)  BY <1>1, SetTopIs
<1> HIDE DEF r
<1>4. Data(r) /\ EnvOf(r) = c /\ r.cs = w.cs /\ ~r.aborted /\ r.haderr = FALSE
  <2>1. Same(r, w, {} \cup {"call"}) /\ {} \in SUBSET Aside  BY <1>3
  <2>2. r.haderr = w.haderr  BY <1>3 DEF Same, Fields, Core
  <2>. QED BY <1>1, <2>1, <2>2, DataSame
<1>5. c \in Envs /\ c.b = b.b + 1 /\ c.m = b.m /\ c.d = b.d /\ c.l = b.l /\ c.src = b.src /\ b.b = Len(s.cs)
  BY <1>1, DataIs, EnvOfIs DEF Got
<1> HIDE DEF a, b, c
<1>6. Frame(g, n, r.cs, a, c)
  <2>1. r.cs[b.b + 1].v = Var("paraml") /\ r.cs[b.b + 1].fn = "lex_cleanup"  BY <1>4, <1>5 DEF Got
  <2> HIDE DEF n
  <2>. QED BY <1>2, <1>5, <2>1, LineAt
<1>7. a.b <= b.b /\ a.b \in Nat /\ b.b \in Nat  BY <1>2, FrameEnv
<1>8. \A i \in 1 .. a.b : r.cs[i] = s.cs[i]
  <2>1. \A i \in 1 .. b.b : w.cs[i] = s.cs[i]  BY <1>5 DEF Got
  <2>2. \A i \in 1 .. a.b : i \in 1 .. b.b  BY <1>7
  <2>. QED BY <1>4, <2>1, <2>2
<1>9. g.k = "P"  BY DEF Processes
<1>10. Turns(r, s, e, g)  BY <1>3, <1>4, <1>6, <1>8, <1>9 DEF Turns, a
<1>11. (\E e2 : Stack(r, e2)) /\ r.call # <<>> /\ Top(r) = g  BY <1>1, <1>10, TopTurns
<1>12. \E e2 : Live(r, e2)  BY <1>4, <1>11 DEF Live
<1>. QED BY <1>4, <1>11, <1>12 DEF r

LEMMA GotLineSound ==
  ASSUME NoRepeat, NEW s, NEW e, Live(s, e), Top(s).k = "P", Top(s).at = "lex", NEW w, Got(w, s), NEW line \in Lines
  PROVE  Sound(GotLine(w, line))
<1> DEFINE f == Top(s)
           m == Len(s.cs)
           g1 == [f EXCEPT !.at = "done"]
           g2 == [f EXCEPT !.at = "run", !.todo = line.cmds]
<1>1. f \in Processes /\ ~f.failed /\ Top(w) = f
  <2>1. Frame(f, Len(s.call), s.cs, e[Len(s.call)], EnvOf(s))  BY StackIs DEF Live
  <2>2. f \in Processes /\ ~f.failed  BY <2>1, ProcessAt
  <2>. QED BY <2>2 DEF Got, Top
<1>2. line.cmds \in Seq(Commands) /\ line.bad \in BOOLEAN  BY DEF NoRepeat
<1>3. /\ g1 \in Processes /\ g1.k = "P" /\ g1.at = "done" /\ g1.omark = f.omark /\ g1.failed = FALSE /\ g1.catch = f.catch
      /\ g2 \in Processes /\ g2.k = "P" /\ g2.at = "run" /\ g2.omark = f.omark /\ g2.failed = FALSE /\ g2.catch = f.catch
  BY <1>1, <1>2 DEF Processes
<1>4. GotLine(w, line) = IF w.justpr THEN SetTop(w, g1) ELSE IF line.bad THEN stderror(w, FALSE) ELSE Hook(SetTop(w, g2), "postcmd")
  BY <1>1, AtIs DEF GotLine
<1> HIDE DEF g1, g2
<1>5. Sound(SetTop(w, g1))
  <2> DEFINE r == SetTop(w, g1)
  <2>1. (\E e2 : Live(r, e2)) /\ Top(r) = g1 /\ r.haderr = FALSE  BY <1>3, GotSets
  <2> HIDE DEF r
  <2>2. Handled(r) /\ r.call # <<>>  BY <1>3, <2>1 DEF Handled, Live
  <2>3. Sound(r)  BY <2>1, <2>2, SoundIs
  <2>. QED BY <2>3 DEF r
<1>6. Sound(Hook(SetTop(w, g2), "postcmd"))
  <2> DEFINE r == SetTop(w, g2)
  <2>1. (\E e2 : Live(r, e2)) /\ Top(r) = g2 /\ r.haderr = FALSE  BY <1>3, GotSets
  <2> HIDE DEF r
  <2>2. "postcmd" \in {"precmd", "postcmd"}  OBVIOUS
  <2>3. Sound(Hook(r, "postcmd"))  BY <1>3, <2>1, <2>2, HookSound
  <2>. QED BY <2>3 DEF r
<1>7. Sound(stderror(w, FALSE))
  <2>1. Ready(s)
    <3>1. Catches(f)  BY DEF Catches
    <3>. QED BY <3>1, ReadyIs
  <2>2. Over(w, s)
    <3>1. m \in Nat  BY DataIs DEF Live
    <3>2. Len(w.cs) = m + 1 /\ w.cs[m + 1].fn = "lex_cleanup"  BY DEF Got
    <3>3. Len(w.cs) >= m
      <4> HIDE DEF m
      <4>. QED BY <3>1, <3>2
    <3>. QED BY <3>2, <3>3 DEF Over, Got
  <2>3. w.call = s.call  BY DEF Got
  <2>. QED BY <2>1, <2>2, <2>3, StderrorSound
<1>. QED BY <1>4, <1>5, <1>6, <1>7

LEMMA LexedSound ==
  ASSUME NoRepeat, NEW s, NEW e, Live(s, e), Top(s).k = "P", Top(s).at = "lex", s.haderr = FALSE,
         NEW y, Adds(y, s, Var("old"), "pintr_disabled_restore", s.pintr_disabled, 0),
         NEW t, Same(t, y, {"arena", "evalvec"} \cup Aside), t.arena \in Arenas, t.arena.kind = y.arena.kind,
         t.evalvec \in EvalLines, t.haderr = FALSE, NEW line \in Lines
  PROVE  Sound(Lexed(t, line))
<1> DEFINE m == Len(s.cs)
           v == EnvOf(t)
           d == s.pintr_disabled
           z == UndoLast(t)
           q == [Less(v) EXCEPT !.d = d]
           w == cleanup_push(z, Var("paraml"), "lex_cleanup", 0)
<1>1. Data(s) /\ ~s.aborted /\ m \in Nat /\ d \in Int  BY DataIs DEF Live
<1>2. /\ Data(y) /\ y.mark = s.mark /\ y.fnlvl = s.fnlvl /\ y.insource = s.insource /\ y.call = s.call /\ ~y.aborted
  BY <1>1, AddsKeep
<1>3. /\ Data(t) /\ t.cs = y.cs /\ t.call = s.call /\ ~t.aborted /\ t.mark = s.mark /\ t.fnlvl = s.fnlvl /\ t.insource = s.insource
  <2>1. t.haderr \in BOOLEAN  OBVIOUS
  <2>. QED BY <1>2, <2>1, ReadsData
<1>4. /\ Len(t.cs) = m + 1 /\ t.cs[m + 1].v = Var("old") /\ t.cs[m + 1].fn = "pintr_disabled_restore" /\ t.cs[m + 1].old = d
      /\ \A i \in 1 .. m : t.cs[i] = s.cs[i]
  BY <1>3 DEF Adds
<1>5. IsSeq(t.cs) /\ v \in Envs /\ t.mark \in Nat  BY <1>3, DataIs
<1>6. v.b = Len(t.cs) /\ v.m = t.mark /\ v.d = t.pintr_disabled /\ v.l = t.fnlvl /\ v.src = t.insource  BY EnvOfIs
<1>7. Len(t.cs) > 0
  <2> HIDE DEF m
  <2>. QED BY <1>1, <1>4
<1>8. cleanup_until(t, Var("old")) = z  BY <1>4, <1>5, <1>7, UntilTop
<1>9. Cut(t, t, v)
  <2>1. Len(t.cs) \in Nat /\ v.b <= Len(t.cs)  BY <1>3, <1>6, DataIs
  <2>. QED BY <1>3, <1>5, <1>6, <2>1, DataIs, CutBy
<1>10. Lexed(t, line) = GotLine(w, line)  BY <1>8 DEF Lexed
<1> HIDE DEF v, d, z
<1>11. Cut(z, t, q)
  <2>1. t.cs[v.b].fn = "pintr_disabled_restore" /\ d = t.cs[v.b].old /\ v.b > 0  BY <1>4, <1>6, <1>7
  <2>. QED BY <1>1, <1>9, <2>1, UndoDisabled DEF z
<1>12. q \in Envs /\ q.b = m /\ q.d = d /\ q.l = s.fnlvl /\ q.src = s.insource
  <2>1. v.b > 0 /\ v.b - 1 = m  BY <1>1, <1>4, <1>6, <1>7
  <2>2. Less(v) \in Envs /\ Less(v).b = m /\ Less(v).l = s.fnlvl /\ Less(v).src = s.insource  BY <1>3, <1>5, <1>6, <2>1, LessIs
  <2>. QED BY <1>1, <2>2 DEF Envs
<1> HIDE DEF q
<1>13. /\ Data(z) /\ z.call = s.call /\ z.haderr = FALSE /\ ~z.aborted /\ z.mark = s.mark /\ z.pintr_disabled = d
       /\ z.fnlvl = s.fnlvl /\ z.insource = s.insource /\ Len(z.cs) = m /\ \A i \in 1 .. m : z.cs[i] = s.cs[i]
  <2>1. Data(z) /\ z.call = s.call /\ z.haderr = FALSE /\ ~z.aborted  BY <1>3, <1>11 DEF Cut
  <2>2. \A i \in 1 .. m : z.cs[i] = s.cs[i]  BY <1>4, <1>11, <1>12 DEF Cut
  <2>3. Len(z.cs) = m /\ z.mark = t.mark /\ z.pintr_disabled = d /\ z.fnlvl = s.fnlvl /\ z.insource = s.insource
    BY <1>11, <1>12, CutIs
  <2>. QED BY <1>3, <2>1, <2>2, <2>3
<1>14. Adds(w, z, Var("paraml"), "lex_cleanup", 0, z.pintr_disabled)  BY <1>13, PushAdds
<1> HIDE DEF w
<1>15. Got(w, s)
  <2>1. /\ Data(w) /\ w.mark = s.mark /\ w.fnlvl = s.fnlvl /\ w.insource = s.insource /\ w.call = s.call /\ ~w.aborted
        /\ w.haderr = FALSE /\ w.pintr_disabled = s.pintr_disabled
    BY <1>13, <1>14, AddsKeep DEF d
  <2>2. Len(w.cs) = m + 1 /\ w.cs[m + 1].v = Var("paraml") /\ w.cs[m + 1].fn = "lex_cleanup" /\ \A i \in 1 .. m : w.cs[i] = s.cs[i]
    BY <1>13, <1>14 DEF Adds
  <2>. QED BY <2>1, <2>2 DEF Got
<1>16. Sound(GotLine(w, line))  BY <1>15, GotLineSound
<1>. QED BY <1>10, <1>16

LEMMA EndedSound ==
  ASSUME NEW s, Ready(s), NEW t, Over(t, s), t.call = s.call
  PROVE  Sound(Ended(t))
<1> DEFINE r == [t EXCEPT !.doneinp = TRUE]
<1>1. Data(t) /\ DOMAIN t = Fields  BY DataIs DEF Over
<1>2. Same(r, t, {"arena", "evalvec"} \cup Aside) /\ r.arena = t.arena /\ r.evalvec = t.evalvec /\ r.haderr = t.haderr
  BY <1>1 DEF Same, Fields, Core, Aside, Streams3
<1> HIDE DEF r
<1>3. t.arena \in Arenas /\ t.evalvec \in EvalLines /\ t.haderr \in BOOLEAN  BY <1>1, DataIs DEF Input
<1>4. Over(r, s) /\ r.call = t.call  BY <1>2, <1>3, ReadsOver
<1>5. Sound(reset(r))  BY <1>4, ResetSound
<1>. QED BY <1>5 DEF Ended, r

LEMMA NextLine ==
  ASSUME NoRepeat, NEW a \in Arenas, a.pos # Len(Text(a))
  PROVE  bgetc(a) \in Arenas /\ bgetc(a).kind = a.kind /\ Text(a)[a.pos + 1] \in Lines
<1> DEFINE feob == IF a.kind = "file" THEN Len(Text(a)) ELSE IF a.feob > a.pos THEN a.feob ELSE a.pos + 1
           b == Moved(a, a.pos + 1, feob)
           n == Len(Text(a))
<1>1. Text(a) \in Seq(Lines) /\ n \in Nat /\ a.pos \in Nat /\ a.feob \in Nat /\ a.pos <= n /\ a.feob <= n
  BY TextIs
<1>6. bgetc(a) = b  BY DEF bgetc, Moved, Arenas
<1> HIDE DEF n
<1>2. a.pos + 1 \in 1 .. n /\ a.pos + 1 \in Nat /\ a.pos + 1 <= n  BY <1>1 DEF n
<1>3. feob \in Nat /\ feob <= n  BY <1>1, <1>2 DEF n
<1> HIDE DEF feob
<1>4. b \in Arenas /\ b.kind = a.kind  BY <1>2, <1>3, ArenaAt DEF n
<1>5. Text(a)[a.pos + 1] \in Lines  BY <1>1, <1>2 DEF n
<1> HIDE DEF b
<1>. QED BY <1>4, <1>5, <1>6

LEMMA LexSound ==
  ASSUME NoRepeat, NEW s, NEW e, Live(s, e), Top(s).k = "P", Top(s).at = "lex", s.haderr = FALSE
  PROVE  Sound(lex(s))
<1> DEFINE y == pintr_push_enable(s)
           a == s.arena
           l == s.evalvec.l
           atEnd == IF s.evalvec.on THEN l = <<>> ELSE a.pos = Len(Text(a))
           p == [y EXCEPT !.pintr_pending = FALSE]
           n1 == [y EXCEPT !.evalvec.l = Tail(@)]
           n2 == [y EXCEPT !.arena = bgetc(a)]
<1>1. Data(s) /\ ~s.aborted /\ a \in Arenas /\ s.evalvec \in EvalLines /\ s.evalvec.on \in BOOLEAN /\ l \in Seq(Lines)
  BY DataIs, EvalsIs DEF Live, Input
<1>2. Ready(s)
  <2>1. Catches(Top(s))  BY DEF Catches
  <2>. QED BY <2>1, ReadyIs
<1>3. Adds(y, s, Var("old"), "pintr_disabled_restore", s.pintr_disabled, 0) /\ Over(y, s) /\ y.call = s.call
  BY <1>1, EnableAdds
<1>4. DOMAIN y = Fields /\ y.arena = a /\ y.evalvec = s.evalvec /\ y.haderr = FALSE  BY <1>3, AddsKeep
<1>5. lex(s) = IF s.pintr_pending THEN pintr1(p)
               ELSE IF atEnd THEN Ended(y)
               ELSE IF s.evalvec.on THEN Lexed(n1, Head(l)) ELSE Lexed(n2, Text(a)[a.pos + 1])
  BY DEF lex
<1> HIDE DEF y, a, l
<1>6. Sound(pintr1(p))
  <2>1. Same(p, y, {"arena", "evalvec"} \cup Aside) /\ p.arena = a /\ p.evalvec = y.evalvec /\ p.haderr = FALSE
    BY <1>4 DEF Same, Fields, Core, Aside, Streams3
  <2> HIDE DEF p
  <2>2. p.arena \in Arenas /\ p.arena.kind = y.arena.kind /\ p.evalvec \in EvalLines /\ p.haderr \in BOOLEAN  BY <1>1, <1>4, <2>1
  <2>3. Over(p, s) /\ p.call = y.call  BY <1>3, <2>1, <2>2, ReadsOver
  <2>. QED BY <1>2, <1>3, <2>3, Pintr1Sound
<1>7. Sound(Ended(y))  BY <1>2, <1>3, EndedSound
<1>8. ASSUME s.evalvec.on, ~atEnd PROVE Sound(Lexed(n1, Head(l)))
  <2>1. Head(l) \in Lines /\ Tail(l) \in Seq(Lines)  BY <1>1, <1>8
  <2> DEFINE v == [s.evalvec EXCEPT !.l = Tail(l)]
  <2>2. v \in EvalLines  BY <1>1, <2>1 DEF EvalLines
  <2>3. n1 = [y EXCEPT !.evalvec = v]  BY <1>4 DEF l
  <2> HIDE DEF v, n1
  <2>4. Same(n1, y, {"arena", "evalvec"} \cup Aside) /\ n1.arena = a /\ n1.evalvec = v /\ n1.haderr = FALSE
    BY <1>4, <2>3 DEF Same, Fields, Core, Aside, Streams3
  <2>. QED BY <1>1, <1>3, <1>4, <2>1, <2>2, <2>4, LexedSound
<1>9. ASSUME ~s.evalvec.on, ~atEnd PROVE Sound(Lexed(n2, Text(a)[a.pos + 1]))
  <2>1. bgetc(a) \in Arenas /\ bgetc(a).kind = a.kind /\ Text(a)[a.pos + 1] \in Lines  BY <1>1, <1>9, NextLine
  <2>2. Same(n2, y, {"arena", "evalvec"} \cup Aside) /\ n2.arena = bgetc(a) /\ n2.evalvec = y.evalvec /\ n2.haderr = FALSE
    BY <1>4 DEF Same, Fields, Core, Aside, Streams3
  <2> HIDE DEF n2
  <2>. QED BY <1>1, <1>3, <1>4, <2>1, <2>2, LexedSound
<1>. QED BY <1>5, <1>6, <1>7, <1>8, <1>9

\* The end of a line: an entry of its own is missing only when a command of it has failed.
LEMMA TopAt ==
  ASSUME NEW f, NEW i, NEW cs, NEW cs2, NEW a, NEW b, Frame(f, i, cs, a, b), f.k = "P", NEW c \in Envs,
         c.b = a.b, c.m = b.m, c.d = b.d, c.l = b.l, c.src = b.src
  PROVE  LET g == [f EXCEPT !.at = "top"]
         IN Frame(g, i, cs2, a, c) /\ g.k = "P" /\ g.at = "top" /\ g.catch = f.catch /\ g.failed = f.failed
<1> DEFINE g == [f EXCEPT !.at = "top"]
           R == Within(a, c)
<1>1. f \in Processes /\ a \in Envs /\ b \in Envs /\ f.omark = a.m /\ b = Within(a, b)  BY ProcessAt
<1>2. b.m = a.b /\ b.d = a.d /\ b.l = a.l /\ b.src = a.src
  <2>1. Within(a, b).m = a.b /\ Within(a, b).d = a.d /\ Within(a, b).l = a.l /\ Within(a, b).src = a.src
    BY <1>1 DEF Envs, Within
  <2>. QED BY <1>1, <2>1
<1>3. R \in Envs /\ R.b = c.b /\ R.m = a.b /\ R.d = a.d /\ R.l = a.l /\ R.src = a.src
  <2>1. c.b \in Nat /\ a.b \in Nat  BY <1>1, EnvIs
  <2>. QED BY <1>1, <2>1 DEF Envs, Within
<1> HIDE DEF R
<1>4. c = R  BY <1>2, <1>3, EnvSame
<1>5. g \in Processes /\ g.k = "P" /\ g.at = "top" /\ g.catch = f.catch /\ g.omark = f.omark /\ g.failed = f.failed
  BY <1>1 DEF Processes
<1> HIDE DEF g
<1>6. Frame(g, i, cs2, a, c)
  <2>1. c = [a EXCEPT !.b = c.b, !.m = a.b]  BY <1>4 DEF R, Within
  <2>2. Pushed(g, i, cs2, a, c)  BY <1>5, <2>1 DEF Pushed
  <2>. QED BY <1>1, <1>5, <2>2 DEF Frame, Frames, Doomed
<1>. QED BY <1>5, <1>6 DEF g

LEMMA CmdDoneSound ==
  ASSUME NEW s, NEW e, Live(s, e), Top(s).k = "P", Top(s).at = "done", s.haderr = FALSE
  PROVE  Sound(cmd_done(s))
<1> DEFINE f == Top(s)
           n == Len(s.call)
           a == e[n]
           b == EnvOf(s)
           g == [f EXCEPT !.at = "top"]
           z == UndoLast(s)
           h == [s EXCEPT !.haderr = TRUE]
<1>1. Data(s) /\ DOMAIN s = Fields /\ ~s.aborted /\ s.call # <<>> /\ Stack(s, e) /\ IsSeq(s.cs) /\ Len(s.cs) \in Nat /\ s.mark \in Nat
  BY DataIs DEF Live
<1>2. Frame(f, n, s.cs, a, b)  BY <1>1, StackIs
<1>3. f \in Processes /\ a \in Envs /\ b \in Envs /\ b = Within(a, b) /\ (f.failed => b.b = a.b)  BY <1>2, ProcessAt
<1>4. b.b = Len(s.cs) /\ b.m = s.mark /\ b.d = s.pintr_disabled /\ b.l = s.fnlvl /\ b.src = s.insource  BY EnvOfIs
<1> HIDE DEF a, b
<1>5. b.m = a.b /\ b.b \in {a.b, a.b + 1} /\ a.b \in Nat  BY <1>2, FrameEnv
<1>6. CASE b.b = a.b + 1
  <2>1. cleanup_reset(s) /\ Len(s.cs) > 0 /\ ~f.failed
    <3>1. Len(s.cs) > s.mark /\ Len(s.cs) > 0 /\ b.b # a.b  BY <1>4, <1>5, <1>6
    <3>. QED BY <1>3, <3>1 DEF cleanup_reset
  <2>2. s.cs[b.b].v = Var("paraml") /\ s.cs[b.b].fn = "lex_cleanup"
    <3>1. b.b # a.b  BY <1>5, <1>6
    <3>2. Pushed(f, n, s.cs, a, b)  BY <1>2 DEF Frame
    <3> HIDE DEF n, f
    <3>3. Frees(s.cs[b.b], Var("paraml"))  BY <3>1, <3>2 DEF Pushed, f
    <3>. QED BY <3>3 DEF Frees
  <2>3. cmd_done(s) = At(z, "top")
    <3>1. cleanup_until(s, Var("paraml")) = z  BY <1>1, <1>4, <2>1, <2>2, UntilTop
    <3>. QED BY <2>1, <3>1 DEF cmd_done
  <2>4. Cut(s, s, b)
    <3>1. b.b <= Len(s.cs)  BY <1>1, <1>4
    <3>. QED BY <1>1, <1>3, <1>4, <3>1, DataIs, CutBy
  <2> HIDE DEF z
  <2>5. Cut(z, s, Less(b))
    <3>1. b.b > 0  BY <1>4, <2>1
    <3>. QED BY <2>2, <2>4, <3>1, UndoFrees DEF z
  <2>6. Less(b) \in Envs /\ Less(b).b = a.b /\ Less(b).m = b.m /\ Less(b).d = b.d /\ Less(b).l = b.l /\ Less(b).src = b.src
    <3>1. b.b > 0 /\ b.b - 1 = a.b  BY <1>4, <1>5, <1>6, <2>1
    <3>. QED BY <1>3, <3>1, LessIs
  <2> DEFINE c == EnvOf(z)
  <2>7. /\ Data(z) /\ DOMAIN z = Fields /\ z.call = s.call /\ z.haderr = FALSE /\ ~z.aborted /\ c \in Envs
        /\ c.b = a.b /\ c.m = b.m /\ c.d = b.d /\ c.l = b.l /\ c.src = b.src
        /\ \A i \in 1 .. a.b : z.cs[i] = s.cs[i]
    <3>1. Data(z) /\ z.call = s.call /\ z.haderr = FALSE /\ ~z.aborted /\ \A i \in 1 .. a.b : z.cs[i] = s.cs[i]
      BY <1>1, <2>5, <2>6 DEF Cut
    <3>2. Len(z.cs) = a.b /\ z.mark = s.mark /\ z.pintr_disabled = b.d /\ z.fnlvl = b.l /\ z.insource = b.src
      BY <2>5, <2>6, CutIs
    <3>3. c.b = Len(z.cs) /\ c.m = z.mark /\ c.d = z.pintr_disabled /\ c.l = z.fnlvl /\ c.src = z.insource  BY EnvOfIs
    <3> HIDE DEF c
    <3>4. DOMAIN z = Fields /\ EnvOf(z) \in Envs  BY <3>1, DataIs
    <3>. QED BY <1>4, <3>1, <3>2, <3>3, <3>4 DEF c
  <2> DEFINE r == SetTop(z, g)
  <2>8. At(z, "top") = r
    <3>1. Top(z) = f  BY <2>7 DEF Top
    <3>. QED BY <3>1, AtIs
  <2>9. Same(r, z, {"call"}) /\ r.call = Put(s.call, n, g)  BY <2>7, SetTopIs
  <2> HIDE DEF r
  <2>10. Data(r) /\ EnvOf(r) = c /\ r.cs = z.cs /\ ~r.aborted /\ r.haderr = FALSE
    <3>1. Same(r, z, {} \cup {"call"}) /\ {} \in SUBSET Aside  BY <2>9
    <3>2. r.haderr = z.haderr  BY <2>9 DEF Same, Fields, Core
    <3>. QED BY <2>7, <3>1, <3>2, DataSame
  <2> HIDE DEF c
  <2>11. Frame(g, n, r.cs, a, c) /\ g.k = "P" /\ g.at = "top" /\ g.catch = f.catch /\ g.failed = f.failed
    <3> HIDE DEF n
    <3>. QED BY <1>2, <2>7, TopAt
  <2>12. Turns(r, s, e, g)  BY <2>7, <2>9, <2>10, <2>11 DEF Turns, a, f
  <2>13. (\E e2 : Stack(r, e2)) /\ r.call # <<>> /\ Top(r) = g  BY <1>1, <2>12, TopTurns
  <2>14. Handled(r)  BY <2>1, <2>10, <2>11, <2>13 DEF Handled
  <2>. QED BY <2>3, <2>8, <2>10, <2>13, <2>14 DEF Sound
<1>7. CASE b.b = a.b
  <2>1. ~cleanup_reset(s)
    <3>1. ~(Len(s.cs) > s.mark)  BY <1>1, <1>4, <1>5, <1>7
    <3>. QED BY <3>1 DEF cleanup_reset
  <2>2. cmd_done(s) = At(h, "top")  BY <2>1 DEF cmd_done
  <2>3. Same(h, s, {"haderr"}) /\ h.haderr = TRUE  BY <1>1 DEF Same, Fields, Core
  <2> HIDE DEF h
  <2>4. {"haderr"} \in SUBSET Aside  BY DEF Aside
  <2>5. Live(h, e) /\ Top(h) = f /\ EnvOf(h) = b /\ h.cs = s.cs /\ h.call = s.call
    BY <2>3, <2>4, LiveSame DEF b
  <2>6. Frame(g, n, h.cs, a, b) /\ g.k = "P" /\ g.at = "top" /\ g.catch = f.catch
    <3> HIDE DEF n
    <3>. QED BY <1>2, <1>3, <1>7, TopAt
  <2> DEFINE r == SetTop(h, g)
  <2>7. At(h, "top") = r  BY <2>5, AtIs
  <2>8. Becomes(r, h, g) /\ \E e2 : Live(r, e2)
    <3>1. Frame(g, Len(h.call), h.cs, e[Len(h.call)], EnvOf(h))  BY <2>5, <2>6 DEF a
    <3> HIDE DEF g
    <3>. QED BY <2>5, <2>6, <3>1, Sets
  <2> HIDE DEF r, g
  <2>9. Top(r) = g /\ r.haderr = TRUE /\ r.call # <<>>
    <3>1. Same(r, h, {"call"}) /\ Top(r) = g /\ r.call # <<>>  BY <2>8 DEF Becomes
    <3>2. r.haderr = h.haderr  BY <3>1 DEF Same, Fields, Core
    <3>. QED BY <2>3, <3>1, <3>2
  <2>10. Handled(r)  BY <2>6, <2>9 DEF Handled, Handles
  <2>11. Sound(r)  BY <2>8, <2>9, <2>10, SoundIs
  <2>. QED BY <2>2, <2>7, <2>11
<1>. QED BY <1>5, <1>6, <1>7

-----------------------------------------------------------------------------
(* The shell as it starts. *)

LEMMA StartStack ==
  ASSUME NEW r, Data(r), r.cs = <<>>, r.mark = 0, r.pintr_disabled = 1, r.fnlvl = 0, r.insource = 0,
         NEW g \in Processes, r.call = <<g>>, g.at = "top", g.failed = FALSE, g.omark = 0, g.catch = TRUE
  PROVE  (\E e : Stack(r, e)) /\ r.call # <<>> /\ Top(r) = g
<1> DEFINE e == [i \in Nat |-> Bottom]
           E == EnvOf(r)
<1>1. Bottom \in Envs /\ Bottom.b = 0 /\ Bottom.m = 0 /\ Bottom = Within(Bottom, Bottom)
  <2>1. Bottom \in Envs /\ Bottom.b = 0 /\ Bottom.m = 0  BY DEF Bottom, Env, Envs
  <2> DEFINE R == Within(Bottom, Bottom)
  <2>2. R \in Envs /\ R.b = Bottom.b /\ R.m = Bottom.m /\ R.d = Bottom.d /\ R.l = Bottom.l /\ R.src = Bottom.src
    BY <2>1 DEF Envs, Within
  <2> HIDE DEF R
  <2>3. Bottom = R  BY <2>1, <2>2, EnvSame
  <2>. QED BY <2>1, <2>3 DEF R
<1>2. E = Bottom
  <2>1. Len(r.cs) = 0  OBVIOUS
  <2>. QED BY <2>1 DEF EnvOf, Bottom
<1> HIDE DEF E
<1>3. e \in [Nat -> Envs] /\ \A i \in Nat : e[i] = Bottom  BY <1>1
<1> HIDE DEF e
<1>4. Chain(r.call, r.cs, e, 0)
  <2>1. e[1] = Bottom /\ \A i \in 1 .. 0 + 1 : e[i] = Bottom  BY <1>3
  <2>2. \A i, j \in 1 .. 0 + 1 : e[i].b <= e[j].b  BY <1>1, <2>1
  <2>3. \A i \in 1 .. 0 + 1 : e[i].m <= e[i].b  BY <1>1, <2>1
  <2>4. (\A i \in 1 .. 0 : Frame(r.call[i], i, r.cs, e[i], e[i + 1])) /\ (\A i \in 1 .. 0 - 1 : Calls(r.call[i], r.call[i + 1]))
    OBVIOUS
  <2>5. 0 \in Nat /\ ~(0 > 0)  OBVIOUS
  <2>. QED BY <1>3, <2>1, <2>2, <2>3, <2>4, <2>5 DEF Chain
<1>5. g.k = "P"  BY DEF Processes
<1>6. Frame(g, 1, r.cs, Bottom, Bottom)
  <2>1. Pushed(g, 1, r.cs, Bottom, Bottom)  BY <1>1, <1>5 DEF Pushed, Within
  <2>. QED BY <1>1, <1>5, <2>1 DEF Frame, Frames, Doomed
<1>7. Pushes(r.call, r.cs, e, 0, r.call, E)
  <2>1. r.call[0 + 1] = g /\ e[0 + 1] = Bottom /\ 0 + 1 = 1 /\ r.call[1] = g  BY <1>3
  <2>2. \A i \in 1 .. 0 : r.call[i] = r.call[i]  OBVIOUS
  <2>3. ~(0 > 0)  OBVIOUS
  <2>. QED BY <1>2, <1>5, <1>6, <2>1, <2>2, <2>3 DEF Pushes
<1>8. Chain(r.call, r.cs, Higher(e, 0, E), 0 + 1)  BY <1>4, <1>7, ChainPush
<1>9. Len(r.call) = 1 /\ 0 + 1 = 1 /\ IsSeq(r.call)
  <2>1. r.call \in Seq({g})  OBVIOUS
  <2>2. {r.call[i] : i \in DOMAIN r.call} = {g}  BY DOMAIN r.call = {1}
  <2>. QED BY <2>1, <2>2 DEF IsSeq
<1>10. Higher(e, 0, E)[1 + 1] = E
  <2>1. 0 + 2 = 2 /\ 1 + 1 = 2 /\ 2 \in Nat /\ DOMAIN e = Nat  BY <1>3
  <2>. QED BY <2>1 DEF Higher
<1>11. Stack(r, Higher(e, 0, E))
  <2>1. Chain(r.call, r.cs, Higher(e, 0, E), 1)  BY <1>8, <1>9
  <2>. QED BY <1>9, <1>10, <2>1 DEF Stack, E
<1>12. r.call # <<>> /\ Top(r) = g  BY <1>9 DEF Top
<1>. QED BY <1>11, <1>12

LEMMA InitSound ==
  ASSUME NoRepeat, Init
  PROVE  Sound(x)
<1>1. PICK a \in HookAliases :
       LET s == [insource |-> 0, intty |-> TRUE, gointr |-> None, evalvec |-> NoEval, enterhist |-> FALSE,
                 justpr |-> FALSE, arena |-> Tty, call |-> <<>>, cs |-> <<>>, mark |-> 0,
                 pintr_disabled |-> 1, pintr_pending |-> FALSE, haderr |-> FALSE, doneinp |-> FALSE,
                 active |-> {}, aliases |-> a, last |-> "", fnpipe |-> -1, fnlvl |-> 0,
                 out |-> [to |-> "tty", wants |-> "tty"], left |-> FALSE,
                 aborted |-> FALSE]
       IN x = process(Started(s), TRUE)
  BY DEF Init
<1> DEFINE s == [insource |-> 0, intty |-> TRUE, gointr |-> None, evalvec |-> NoEval, enterhist |-> FALSE,
                 justpr |-> FALSE, arena |-> Tty, call |-> <<>>, cs |-> <<>>, mark |-> 0,
                 pintr_disabled |-> 1, pintr_pending |-> FALSE, haderr |-> FALSE, doneinp |-> FALSE,
                 active |-> {}, aliases |-> a, last |-> "", fnpipe |-> -1, fnlvl |-> 0,
                 out |-> [to |-> "tty", wants |-> "tty"], left |-> FALSE,
                 aborted |-> FALSE]
           i == Started(s)
           g == Process(TRUE, i)
           c == Call(i, g)
           m == Len(i.cs)
           r == [c EXCEPT !.mark = m]
<1>2. x = r  BY <1>1 DEF process
<1>3. /\ DOMAIN i = Fields /\ i.insource = 0 /\ i.intty = TRUE /\ i.gointr = None /\ i.evalvec = NoEval /\ i.enterhist = FALSE
      /\ i.justpr = FALSE /\ i.arena = Tty /\ i.call = <<>> /\ i.cs = <<>> /\ i.mark = 0 /\ i.pintr_disabled = 1
      /\ i.haderr = FALSE /\ i.aliases = a /\ i.fnlvl = 0 /\ i.aborted = FALSE
  <2>1. DOMAIN initdesc = Streams3  BY DEF initdesc, Streams3
  <2>2. DOMAIN s = Fields \ Streams3  BY DEF Fields, Core, Streams3
  <2>3. i = [k \in DOMAIN initdesc \cup DOMAIN s |-> IF k \in DOMAIN initdesc THEN initdesc[k] ELSE s[k]]
    <3> HIDE DEF s
    <3>. QED BY DEF Started
  <2>4. Streams3 \cup (Fields \ Streams3) = Fields  BY DEF Fields
  <2>5. DOMAIN i = Fields /\ \A k \in Fields \ Streams3 : i[k] = s[k]
    <3> HIDE DEF s, i
    <3>. QED BY <2>1, <2>2, <2>3, <2>4
  <2> HIDE DEF i
  <2>. QED BY <2>5 DEF Fields, Core, Streams3
<1> HIDE DEF i
<1>4. g \in Processes /\ g.at = "top" /\ g.failed = FALSE /\ g.omark = 0 /\ g.catch = TRUE /\ g.k = "P"
  <2>1. <<>> \in Seq(Commands)  OBVIOUS
  <2>. QED BY <1>3, <2>1 DEF Process, Processes
<1> HIDE DEF g
<1>5. Same(c, i, {"call"}) /\ c.call = <<g>>
  <2>1. Append(<<>>, g) = <<g>>  OBVIOUS
  <2>. QED BY <1>3, <2>1, CallIs
<1> HIDE DEF c
<1>6. Same(r, i, {"call", "mark"}) /\ r.call = <<g>> /\ r.mark = 0
  <2>1. m = 0  BY <1>3
  <2>. QED BY <1>5, <2>1 DEF Same, Fields, Core
<1> HIDE DEF r
<1>7. /\ DOMAIN r = Fields /\ r.insource = 0 /\ r.intty = TRUE /\ r.gointr = None /\ r.evalvec = NoEval /\ r.enterhist = FALSE
      /\ r.justpr = FALSE /\ r.arena = Tty /\ r.cs = <<>> /\ r.pintr_disabled = 1
      /\ r.haderr = FALSE /\ r.aliases = a /\ r.fnlvl = 0 /\ r.aborted = FALSE
  BY <1>3, <1>6 DEF Same, Fields, Core
<1>8. Tty \in Arenas /\ Tty.kind = "tty"
  <2>1. Text(Tty) = <<>> /\ Len(Text(Tty)) = 0  BY DEF Text, Tty, settell
  <2>. QED BY <2>1 DEF Tty, settell, Arenas, Names
<1>9. NoEval \in EvalLines
  <2>1. <<>> \in Seq(Lines)  OBVIOUS
  <2>. QED BY <2>1 DEF NoEval, EvalLines
<1>10. Data(r)
  <2>1. Input(r)  BY <1>7, <1>8 DEF Input
  <2>2. IsSeq(r.cs)
    <3>1. <<>> \in Seq({r.cs[j] : j \in DOMAIN r.cs})  OBVIOUS
    <3>. QED BY <1>7, <3>1 DEF IsSeq
  <2>3. \A h \in DOMAIN r.aliases : r.aliases[h] \in Lines  BY <1>7 DEF NoRepeat
  <2>4. r.mark \in Nat /\ r.pintr_disabled \in Int /\ r.fnlvl \in Int  BY <1>6, <1>7
  <2>5. r.haderr \in BOOLEAN /\ r.justpr \in BOOLEAN /\ r.evalvec \in EvalLines  BY <1>7, <1>9
  <2>. QED BY <1>7, <2>1, <2>2, <2>3, <2>4, <2>5, DataBy
<1>11. (\E e : Stack(r, e)) /\ r.call # <<>> /\ Top(r) = g  BY <1>4, <1>6, <1>7, <1>10, StartStack
<1>12. Handled(r)  BY <1>4, <1>7, <1>11 DEF Handled
<1>13. Sound(r)  BY <1>7, <1>10, <1>11, <1>12 DEF Sound
<1>. QED BY <1>2, <1>13

-----------------------------------------------------------------------------
(* Every step of the interpreter. *)

LEMMA NextSound ==
  ASSUME NoRepeat, Sound(x), [Next]_vars
  PROVE  Sound(x')
<1>1. CASE UNCHANGED vars
  BY <1>1 DEF vars
<1>2. CASE Next /\ ~Running
  BY <1>2 DEF Next, Internal, TopOfLoop, ReadLine, RunLine, LineDone, HookDone, RunBuiltin, TypeLine, TypeEof, Interrupt,
             AtTerminal, OnTop
<1>3. CASE Next /\ Running
  <2>1. x.call # <<>> /\ Handled(x) /\ \E e : Live(x, e)
    <3>1. x.call # <<>>  BY <1>3 DEF Running
    <3>. QED BY <3>1, SoundIs DEF Sound
  <2>2. PICK e : Live(x, e)  BY <2>1
  <2>3. x.haderr \in BOOLEAN  BY <2>2, DataIs DEF Live
  <2>4. Top(x).k = "P" /\ Top(x).at # "top" => x.haderr = FALSE  BY <2>1, <2>3 DEF Handled, Handles
  <2>5. Top(x).k = "H" /\ Top(x).at # "after" => x.haderr = FALSE  BY <2>1, <2>3 DEF Handled, Handles
  <2>6. CASE TopOfLoop
    <3>1. Top(x).k = "P" /\ Top(x).at = "top" /\ x' = LoopTop(x)  BY <2>6 DEF TopOfLoop, OnTop, Does
    <3>. QED BY <2>1, <2>2, <3>1, LoopTopSound
  <2>7. CASE ReadLine
    <3>1. Top(x).k = "P" /\ Top(x).at = "lex" /\ x' = lex(x)  BY <2>7 DEF ReadLine, OnTop, Does
    <3>2. x.haderr = FALSE  BY <2>4, <3>1
    <3>. QED BY <2>2, <3>1, <3>2, LexSound
  <2>8. CASE RunLine
    <3>1. Top(x).k \in {"P", "H"} /\ Top(x).at = "run" /\ x' = RunNext(x)  BY <2>8 DEF RunLine, OnTop, Does
    <3>2. x.haderr = FALSE  BY <2>4, <2>5, <3>1
    <3>. QED BY <2>2, <3>1, <3>2, RunNextSound
  <2>9. CASE LineDone
    <3>1. Top(x).k = "P" /\ Top(x).at = "done" /\ x' = cmd_done(x)  BY <2>9 DEF LineDone, OnTop, Does
    <3>2. x.haderr = FALSE  BY <2>4, <3>1
    <3>. QED BY <2>2, <3>1, <3>2, CmdDoneSound
  <2>10. CASE HookDone
    <3>1. Top(x).k = "H" /\ Top(x).at = "after" /\ x' = AliasDone(x)  BY <2>10 DEF HookDone, OnTop, Does
    <3>. QED BY <2>2, <3>1, AliasDoneSound
  <2>11. CASE RunBuiltin
    <3>1. Top(x).k = "B" /\ x' = Builtin(x)  BY <2>11 DEF RunBuiltin, Does
    <3>. QED BY <2>1, <2>2, <3>1, BuiltinSound
  <2>12. AtTerminal => Top(x).k = "P" /\ Top(x).at = "lex"  BY DEF AtTerminal, OnTop
  <2>13. Data(x) /\ ~x.aborted  BY <2>2 DEF Live
  <2>14. CASE TypeLine
    <3> DEFINE y == pintr_push_enable(x)
    <3>1. PICK line \in Typed : x' = Lexed(y, line)  BY <2>14 DEF TypeLine
    <3>2. line \in Lines  BY DEF NoRepeat
    <3>3. Top(x).k = "P" /\ Top(x).at = "lex" /\ x.haderr = FALSE  BY <2>4, <2>12, <2>14 DEF TypeLine
    <3>4. Adds(y, x, Var("old"), "pintr_disabled_restore", x.pintr_disabled, 0)  BY <2>13, EnableAdds
    <3> HIDE DEF y
    <3>5. DOMAIN y = Fields /\ y.arena = x.arena /\ y.evalvec = x.evalvec /\ y.haderr = FALSE  BY <3>3, <3>4, AddsKeep
    <3>6. y.arena \in Arenas /\ y.evalvec \in EvalLines  BY <2>13, <3>5, DataIs DEF Input
    <3>7. Same(y, y, {"arena", "evalvec"} \cup Aside)  BY <3>5 DEF Same
    <3>8. Sound(Lexed(y, line))  BY <2>2, <3>2, <3>3, <3>4, <3>5, <3>6, <3>7, LexedSound
    <3>. QED BY <3>1, <3>8
  <2>15. CASE TypeEof
    <3> DEFINE y == pintr_push_enable(x)
    <3>1. x' = Ended(y)  BY <2>15 DEF TypeEof, Does
    <3>2. Over(y, x) /\ y.call = x.call  BY <2>13, EnableAdds
    <3>3. Ready(x)
      <4>1. Catches(Top(x))  BY <2>12, <2>15 DEF Catches, TypeEof
      <4>. QED BY <2>2, <4>1, ReadyIs
    <3> HIDE DEF y
    <3>4. Sound(Ended(y))  BY <3>2, <3>3, EndedSound
    <3>. QED BY <3>1, <3>4
  <2>16. CASE Interrupt
    <3> DEFINE y == [x EXCEPT !.pintr_pending = TRUE]
    <3>1. x' = y  BY <2>16 DEF Interrupt
    <3>2. Same(y, x, {"pintr_pending"}) /\ y.haderr = x.haderr
      <4>1. DOMAIN x = Fields  BY <2>13, DataIs
      <4>. QED BY <4>1 DEF Same, Fields, Core
    <3> HIDE DEF y
    <3>3. {"pintr_pending"} \in SUBSET Aside /\ y.haderr \in BOOLEAN  BY <2>3, <3>2 DEF Aside
    <3>4. Live(y, e) /\ Top(y) = Top(x) /\ y.call = x.call  BY <2>2, <3>2, <3>3, LiveSame
    <3>5. Handled(y)  BY <2>1, <3>2, <3>4 DEF Handled
    <3>6. Sound(y)  BY <2>1, <3>4, <3>5, SoundIs
    <3>. QED BY <3>1, <3>6
  <2>. QED BY <1>3, <2>6, <2>7, <2>8, <2>9, <2>10, <2>11, <2>14, <2>15, <2>16 DEF Next, Internal
<1>. QED BY <1>1, <1>2, <1>3

(* In every state the cleanup stack (sh.err.c) holds exactly what the calls of
   process(), aliasrun(), srcunit(), dofunction() and doeval() that are not over
   have pushed, in their order, each mark is where its frame begins, and an error
   is on its way only where setexit() has caught it: the inductive invariant. *)
THEOREM StacksAgree ==
  ASSUME NoRepeat
  PROVE  Spec => []Sound(x)
<1>1. Init => Sound(x)  BY InitSound
<1>2. Sound(x) /\ [Next]_vars => Sound(x)'
  BY NextSound
<1>. QED BY <1>1, <1>2, PTL DEF Spec

(* cleanup_until() always finds the entry it is asked for, cleanup_pop_mark() never
   a stack below its mark, and every reset() a setexit() to land in: neither the
   abort() nor the assertion of sh.err.c is reached. *)
THEOREM NeverAborts ==
  ASSUME NoRepeat
  PROVE  Spec => []NeverAborted
<1>1. Sound(x) => NeverAborted  BY DEF Sound, NeverAborted
<1>. QED BY <1>1, StacksAgree, PTL

(* Once a command has failed no further line of the file, function or eval it is
   of is read, nor of those around: process(0) "blows away on errors" (sh.c), and
   cmd_done finds out by what is left of the cleanup stack whether one has failed. *)
THEOREM ErrorsAlwaysUnwind ==
  ASSUME NoRepeat
  PROVE  Spec => [](ErrorsUnwind /\ NeverAborted)
<1>1. Sound(x) => ErrorsUnwind
  <2>1. SUFFICES ASSUME Sound(x), OnTop("P", "lex") PROVE ~Top(x).failed
    BY DEF ErrorsUnwind
  <2>2. x.call # <<>> /\ Top(x).k = "P" /\ Top(x).at = "lex"  BY <2>1 DEF OnTop, Running
  <2>3. PICK e : Stack(x, e)  BY <2>1 DEF Sound
  <2>4. Frame(Top(x), Len(x.call), x.cs, e[Len(x.call)], EnvOf(x))  BY <2>2, <2>3, StackIs
  <2>. QED BY <2>2, <2>4, ProcessAt
<1>. QED BY <1>1, StacksAgree, NeverAborts, PTL

(* What the shell has at its prompt again, when no other process() is left: no
   cleanup entry and no mark, interrupts disabled once, no function, the
   terminal as its input, and no error. *)
Restored ==
  OnTop("P", "lex") /\ Len(x.call) = 1 =>
    /\ x.cs = <<>> /\ x.mark = 0 /\ x.pintr_disabled = 1 /\ x.fnlvl = 0 /\ x.insource = 0
    /\ x.arena.kind = "tty" /\ x.intty /\ x.gointr = None /\ ~x.enterhist /\ ~x.haderr

(* However the lines before have ended, when process() of the terminal reads again
   and nothing runs in it, st_restore(), fn_restore(), doeval_cleanup(), the count
   of disabled_cleanup() and the marks have all gone back to where main() had them. *)
THEOREM AlwaysRestored ==
  ASSUME NoRepeat
  PROVE  Spec => []Restored
<1>1. Sound(x) => Restored
  <2>1. SUFFICES ASSUME Sound(x), OnTop("P", "lex"), Len(x.call) = 1
                 PROVE  /\ x.cs = <<>> /\ x.mark = 0 /\ x.pintr_disabled = 1 /\ x.fnlvl = 0 /\ x.insource = 0
                        /\ x.arena.kind = "tty" /\ x.intty /\ x.gointr = None /\ ~x.enterhist /\ ~x.haderr
    BY DEF Restored
  <2>2. x.call # <<>> /\ Top(x).k = "P" /\ Top(x).at = "lex" /\ Data(x)  BY <2>1 DEF OnTop, Running, Sound
  <2>3. PICK e : Stack(x, e)  BY <2>1 DEF Sound
  <2> DEFINE a == e[1]
             b == EnvOf(x)
  <2>4. Frame(Top(x), 1, x.cs, a, b)
    <3>1. Frame(Top(x), Len(x.call), x.cs, e[Len(x.call)], EnvOf(x))  BY <2>2, <2>3, StackIs
    <3>. QED BY <2>1, <3>1
  <2>5. a = Bottom  BY <2>3, ChainIs DEF Stack
  <2> HIDE DEF a, b
  <2>6. a.b = 0 /\ a.m = 0 /\ a.d = 1 /\ a.l = 0 /\ a.src = 0  BY <2>5 DEF Bottom, Env
  <2>7. b.m = a.b /\ b.d = a.d /\ b.l = a.l /\ b.src = a.src  BY <2>2, <2>4, FrameEnv
  <2>8. b.b = a.b  BY <2>2, <2>4, ProcessAt
  <2>9. b.b = Len(x.cs) /\ b.m = x.mark /\ b.d = x.pintr_disabled /\ b.l = x.fnlvl /\ b.src = x.insource  BY EnvOfIs DEF b
  <2>10. x.cs = <<>>
    <3>1. x.cs \in Seq({x.cs[i] : i \in DOMAIN x.cs})  BY <2>2, DataIs DEF IsSeq
    <3>2. Len(x.cs) = 0  BY <2>6, <2>8, <2>9
    <3>. QED BY <3>1, <3>2, EmptySeq
  <2>11. x.mark = 0 /\ x.pintr_disabled = 1 /\ x.fnlvl = 0 /\ x.insource = 0  BY <2>6, <2>7, <2>9
  <2>12. x.arena.kind = "tty" /\ x.intty /\ x.gointr = None /\ ~x.enterhist  BY <2>2, <2>11, DataIs DEF Input
  <2>13. ~x.haderr
    <3>1. Handled(x)  BY <2>1 DEF Sound
    <3>. QED BY <2>2, <3>1 DEF Handled, Handles
  <2>. QED BY <2>10, <2>11, <2>12, <2>13
<1>. QED BY <1>1, StacksAgree, PTL
=============================================================================
