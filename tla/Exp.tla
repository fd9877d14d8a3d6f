----------------------------------- MODULE Exp -----------------------------------
(* The expressions of @, if and while (sh.exp.c): a recursive descent over the
   words of an expression, one function for each level of precedence, that skips
   what || and && leave out, and the file tests of its operands. *)
EXTENDS Integers, Sequences, SequencesExt, Bitwise, TLC

CONSTANTS
  W,         \* width of tcsh_number_t
  Bracketed  \* levels at which an operation on one of the same level gets parentheses
ExpAssumption == W \in Nat \ {0, 1}

(* A state of the descent: the place in the words t, the commands run so far, an
   error.  Each level gives a value and the next state. *)
Start == [at |-> 1, ran |-> <<>>, err |-> ""]
Word(t, s) == IF s.at <= Len(t) /\ s.err = "" THEN t[s.at] ELSE "end"
Skip(s) == [s EXCEPT !.at = @ + 1]
Result(v, s) == [v |-> v, s |-> s]
Fail(s, e) == Result(0, IF s.err = "" THEN [s EXCEPT !.err = e] ELSE s)

Wrap(n) == ((n + 2 ^ (W - 1)) % (2 ^ W)) - 2 ^ (W - 1)
getn(w) == CHOOSE n \in -(2 ^ (W - 1)) .. 2 ^ (W - 1) - 1 : ToString(n) = w
Bool(b) == IF b THEN 1 ELSE 0
Quot(a, b) == LET q(x) == IF x < 0 THEN -x ELSE x
                  m == q(a) \div q(b)
              IN Wrap(IF (a < 0) = (b < 0) THEN m ELSE -m)
Bits(n) == n % (2 ^ W)
Shift(a, n, left) == IF n < 0 \/ n >= W THEN 0 ELSE IF left THEN Wrap(a * 2 ^ n) ELSE a \div 2 ^ n
Op(op, a, b) ==
  CASE op = "||" -> Bool(a # 0 \/ b # 0)
    [] op = "&&" -> Bool(a # 0 /\ b # 0)
    [] op = "|" -> Wrap(Bits(a) + Bits(b) - (Bits(a) & Bits(b)))
    [] op = "^" -> Wrap(Bits(a) + Bits(b) - 2 * (Bits(a) & Bits(b)))
    [] op = "&" -> Wrap(Bits(a) & Bits(b))
    [] op = "==" -> Bool(a = b)
    [] op = "!=" -> Bool(a # b)
    [] op = "<" -> Bool(a < b)
    [] op = ">" -> Bool(a > b)
    [] op = "<<" -> Shift(a, b, TRUE)
    [] op = ">>" -> Shift(a, b, FALSE)
    [] op = "+" -> Wrap(a + b)
    [] op = "-" -> Wrap(a - b)
    [] op = "*" -> Wrap(a * b)
    [] op = "/" -> IF b = 0 THEN 0 ELSE Quot(a, b)
    [] op = "%" -> IF b = 0 THEN 0 ELSE a - b * Quot(a, b)

(* isa(): the words that are operators of a level.  A word that begins with < or
   > is a comparison for exp3(), << and >> too. *)
EQOP == {"==", "!="}
RELOP == {"<", ">", "<<", ">>"}
ADDOP == {"+", "-"}
MULOP == {"*", "/", "%"}
ANYOP == EQOP \cup RELOP \cup ADDOP \cup MULOP \cup {"(", ")", "!", "~", "^", "end"}
Relation(op) == IF op \in {"<", "<<"} THEN "<" ELSE ">"

(* The levels, from the lowest precedence: each function of the source with the
   operators it looks for. *)
Levels == <<{"||"}, {"&&"}, {"|"}, {"^"}, {"&"}, EQOP, RELOP, {"<<", ">>"}, ADDOP, MULOP>>
expN == [exp0 |-> 1, exp2c |-> 6, exp3a |-> 8, exp6 |-> 11]

RECURSIVE Level(_, _, _, _, _), Loop(_, _, _, _, _)
\* Mutant: what is left out within something left out is evaluated.
LoopForgets(k, t, r, ig, compat) ==
  LET op == Word(t, r.s)
      skip == (op = "||" /\ r.v # 0) \/ (op = "&&" /\ r.v = 0)
      p2 == Level(IF compat THEN k ELSE k + 1, t, Skip(r.s), skip, compat)
      f == IF op \in RELOP THEN Relation(op) ELSE op
      n == IF op \in {"/", "%"} /\ p2.v = 0 THEN Fail(p2.s, "Division by 0") ELSE Result(Op(f, r.v, p2.v), p2.s)
  IN IF op \notin Levels[k] THEN r ELSE IF compat THEN n ELSE Loop(k, t, n, ig, compat)
(* A loop of level k: as long as one of its operators follows, the level below
   (or, with compat, the level itself, once) and the operation, unless it is
   ignored. *)
Loop(k, t, r, ig, compat) ==
  LET op == Word(t, r.s)
      skip == ig \/ (op = "||" /\ r.v # 0) \/ (op = "&&" /\ r.v = 0)
      p2 == Level(IF compat THEN k ELSE k + 1, t, Skip(r.s), skip, compat)
      f == IF op \in RELOP THEN Relation(op) ELSE op
      v == IF ig THEN 0 ELSE Op(f, r.v, p2.v)
      n == IF ~ig /\ op \in {"/", "%"} /\ p2.v = 0 THEN Fail(p2.s, "Division by 0") ELSE Result(v, p2.s)
  IN IF op \notin Levels[k] THEN r
     ELSE IF compat THEN n ELSE Loop(k, t, n, ig, compat)

exp6(t, s, ig, compat) ==
  LET w == Word(t, s) IN
  CASE s.err # "" -> Result(0, s)
    [] w = "end" -> Fail(s, "Expression Syntax")
    [] w = "!" -> LET r == Level(expN.exp6, t, Skip(s), ig, compat) IN Result(Bool(r.v = 0), r.s)
    [] w = "~" -> LET r == Level(expN.exp6, t, Skip(s), ig, compat) IN Result(-r.v - 1, r.s)
    [] w = "(" -> LET r == Level(expN.exp0, t, Skip(s), ig, compat) IN
                  IF Word(t, r.s) = ")" THEN Result(r.v, Skip(r.s)) ELSE Fail(r.s, "Expression Syntax")
    [] w \in {"{ true }", "{ false }"} ->
         IF ig THEN Result(0, Skip(s)) ELSE Result(Bool(w = "{ true }"), [Skip(s) EXCEPT !.ran = Append(@, w)])
    [] w \in ANYOP -> Result(0, s)
    [] OTHER -> Result(getn(w), Skip(s))
\* One shift, whether it is ignored or not.
exp3a(t, s, ig, compat) ==
  LET p1 == Level(expN.exp3a + 1, t, s, ig, compat)
      op == Word(t, p1.s)
      p2 == Level(IF compat THEN expN.exp3a ELSE expN.exp3a + 1, t, Skip(p1.s), ig, compat)
  IN IF op \in {"<<", ">>"} THEN Result(Op(op, p1.v, p2.v), p2.s) ELSE p1
exp2c(t, s, ig, compat) ==
  LET p1 == Level(expN.exp2c + 1, t, s, ig, compat)
      op == Word(t, p1.s)
      p2 == Level(expN.exp2c + 1, t, Skip(p1.s), ig, compat)
  IN IF op \in EQOP THEN Result(IF ig THEN 1 ELSE Op(op, p1.v, p2.v), p2.s) ELSE p1
Level(k, t, s, ig, compat) ==
  CASE k = expN.exp6 -> exp6(t, s, ig, compat)
    [] k = expN.exp2c -> exp2c(t, s, ig, compat)
    [] k = expN.exp3a -> exp3a(t, s, ig, compat)
    [] OTHER -> Loop(k, t, Level(k + 1, t, s, ig, compat), ig, compat)
(* What @ and if make of the words. *)
expr(t, compat) ==
  LET r == Level(expN.exp0, t, Start, FALSE, compat)
  IN IF r.s.err = "" /\ r.s.at <= Len(t) THEN Fail(r.s, "Expression Syntax") ELSE r

(* @ name op= expression, and @ name++: the value is put behind the old one, which
   may be null, and the operator, and the whole is looked at as an expression. *)
operate(op, old, p, compat) == expr((IF old = "" THEN <<>> ELSE <<old>>) \o <<op, p>>, compat)
dolet(op, old, t, compat) ==
  LET r == expr(t, compat)
      q == operate(op, old, ToString(r.v), compat)
  IN IF op = "=" \/ r.s.err # "" THEN r ELSE Result(q.v, [r.s EXCEPT !.err = q.s.err])

(* filetest(): the letters of one word, such as -Lfs, of a file: what lstat() and
   stat() say of it, each a kind with a size, or nothing.  stat() is called once,
   by the first letter that needs it; garbage is what stb holds before. *)
Attr(c, st) == CASE c = "f" -> st[1] = "file"
                 [] c = "d" -> st[1] = "dir"
                 [] c = "z" -> st[2] = 0
                 [] c = "e" -> TRUE
RECURSIVE filetest(_, _, _, _, _)
filetest(ft, f, st, stb, garbage) ==
  LET c == Head(ft)
      st1 == IF c = "L" THEN f.lstat ELSE IF c = "l" \/ st # <<>> THEN st ELSE f.stat
      stb1 == IF c \notin {"l", "L"} /\ st = <<>> THEN f.stat ELSE stb
      i == CASE c = "L" -> TRUE
             [] c = "l" -> f.lstat[1] = "link"
             [] c = "s" -> IF stb1 = <<>> THEN garbage ELSE stb1[2] # 0
             [] OTHER -> Attr(c, st1)
  IN IF (IF c = "l" THEN f.lstat ELSE st1) = <<>> THEN FALSE
     ELSE IF Len(ft) > 1 /\ i THEN filetest(Tail(ft), f, st1, stb1, garbage) ELSE i
---------------------------------------------------------------------------
(* Expressions as trees, what C means by them, and the words they are written
   with. *)
VARIABLES tree, compat, result

Nums == {-1, 0, 3, -(2 ^ (W - 1))}
Leaves == {[op |-> "num", val |-> n] : n \in Nums} \cup {[op |-> "cmd", val |-> 1], [op |-> "cmd", val |-> 0]}
Few == {[op |-> "num", val |-> 3], [op |-> "num", val |-> 0], [op |-> "cmd", val |-> 1]}
Pair == {[op |-> "num", val |-> 3], [op |-> "cmd", val |-> 1]}
Ops == UNION {Levels[k] : k \in 1 .. 10}
FewOps == {"||", "&&", "-", "/"}
Two(o, a, b) == {[op |-> x, l |-> y, r |-> z] : x \in o, y \in a, z \in b}
One(a) == {[op |-> x, l |-> y] : x \in {"!", "~"}, y \in a}
Simple == Two(Ops, Leaves, Few)
SimpleFew == Two(FewOps, Few, Few)
(* Files, and tests of them. *)
Files == {[lstat |-> <<>>, stat |-> <<>>], [lstat |-> <<"link", 1>>, stat |-> <<>>]}
           \cup [lstat : {<<"link", 1>>}, stat : {<<"file", 0>>, <<"file", 1>>, <<"dir", 1>>}]
           \cup {[lstat |-> x, stat |-> x] : x \in {<<"file", 0>>, <<"dir", 1>>}}
Tests == {t \in UNION {[1 .. n -> {"f", "d", "l", "L", "z", "s", "e"}] : n \in 1 .. 3} :
            t[Len(t)] # "L" /\ ~\E i, j \in DOMAIN t : i < j /\ t[i] = "L" /\ t[j] = "s"}
Tree(o, a, b) == \E x \in o, y \in a, z \in b : tree = [op |-> x, l |-> y, r |-> z]
Init ==
  /\ \/ Tree(Ops, Two(Ops, Few, Few), Pair)
     \/ Tree(Ops, Pair, Two(Ops, Few, Few))
     \/ Tree(FewOps, SimpleFew, SimpleFew)
     \/ \E o \in FewOps, b \in Few : Tree(FewOps, Two({o}, SimpleFew, {b}), Few)
     \/ \E e \in One(Simple) : tree = e
     \/ Tree(FewOps, One(Leaves), Few)
     \/ \E o \in {"=", "^"} \cup ADDOP \cup MULOP, old \in {"", "-3", "7"}, e \in Two(Ops, Few, Few) : tree = [op |-> "@", assign |-> o, old |-> old, e |-> e]
     \/ \E f \in Files, ft \in Tests : tree = [op |-> "file", ft |-> ft, f |-> f]
  /\ compat \in BOOLEAN /\ result = <<>>

(* What the manual says of a test: of the link after an L, else of the file. *)
Holds(t, f) ==
  \A i \in DOMAIN t :
    LET x == IF t[i] = "l" \/ \E j \in 1 .. i - 1 : t[j] = "L" THEN f.lstat ELSE f.stat
    IN t[i] # "L" => x # <<>> /\ (IF t[i] = "l" THEN x[1] = "link" ELSE IF t[i] = "s" THEN x[2] # 0 ELSE Attr(t[i], x))

(* The meaning of a tree: the value, the commands run, an error. *)
RECURSIVE Mean(_)
Mean(e) ==
  LET a == Mean(e.l)
      b == Mean(e.r)
      short == (e.op = "||" /\ a[1] # 0) \/ (e.op = "&&" /\ a[1] = 0)
  IN CASE e.op = "num" -> <<e.val, <<>>, "">>
       [] e.op = "cmd" -> <<e.val, <<IF e.val = 1 THEN "{ true }" ELSE "{ false }">>, "">>
       [] e.op = "!" -> <<IF a[3] = "" THEN Bool(a[1] = 0) ELSE 0, a[2], a[3]>>
       [] e.op = "~" -> <<IF a[3] = "" THEN -a[1] - 1 ELSE 0, a[2], a[3]>>
       [] OTHER -> IF a[3] # "" THEN <<0, a[2], a[3]>>
                   ELSE IF short THEN <<Bool(a[1] # 0), a[2], "">>
                   ELSE IF b[3] # "" \/ (e.op \in {"/", "%"} /\ b[1] = 0) THEN <<0, a[2] \o b[2], "Division by 0">>
                   ELSE <<Op(e.op, a[1], b[1]), a[2] \o b[2], "">>
(* Its words, with no more parentheses than precedence and the direction call for. *)
Prec(e) == CASE e.op \in {"num", "cmd"} -> 12
             [] e.op \in {"!", "~"} -> 11
             [] OTHER -> CHOOSE k \in 1 .. 10 : e.op \in (IF k = 7 THEN {"<", ">"} ELSE Levels[k])
RECURSIVE Words(_, _)
Words(e, right) ==
  LET Sub(x, last) ==
        IF Prec(x) < Prec(e) \/ (Prec(x) = Prec(e) /\ (last # right \/ (Prec(e) \in Bracketed)))
        THEN <<"(">> \o Words(x, right) \o <<")">> ELSE Words(x, right)
  IN CASE e.op = "num" -> <<ToString(e.val)>>
       [] e.op = "cmd" -> Mean(e)[2]
       [] e.op \in {"!", "~"} -> <<e.op>> \o (IF Prec(e.l) >= 11 THEN Words(e.l, right)
                                              ELSE <<"(">> \o Words(e.l, right) \o <<")">>)
       [] OTHER -> Sub(e.l, FALSE) \o <<e.op>> \o Sub(e.r, TRUE)

Evaluate == /\ result = <<>>
            /\ IF tree.op = "file" THEN \E garbage \in BOOLEAN : result' = <<filetest(tree.ft, tree.f, <<>>, <<>>, garbage)>>
               ELSE LET r == IF tree.op = "@" THEN dolet(tree.assign, tree.old, Words(tree.e, compat), compat)
                             ELSE expr(Words(tree, compat), compat) IN result' = <<IF r.s.err = "" THEN r.v ELSE 0, r.s.ran, r.s.err>>
            /\ UNCHANGED <<tree, compat>>
Spec == Init /\ [][Evaluate]_<<tree, compat, result>>
(* An expression means what it means in C, with the same precedence, or with
   compat_expr from right to left; it runs the commands in braces that are not
   skipped, in their order, and divides by zero only when C does. *)
LikeC == result # <<>> /\ tree.op \notin {"file", "@"} => result = Mean(tree)
(* An assignment with an operator does the operation on the old value, which is 0
   when it is null, and on the whole of the expression. *)
AssignsLikeC == result # <<>> /\ tree.op = "@" =>
  LET old == IF tree.old = "" THEN 0 ELSE getn(tree.old)
      m == Mean(tree.e)
      div == tree.assign \in {"/", "%"} /\ m[1] = 0
  IN result = IF m[3] # "" THEN m ELSE IF div THEN <<0, m[2], "Division by 0">>
              ELSE <<IF tree.assign = "=" THEN m[1] ELSE Op(tree.assign, old, m[1]), m[2], "">>
(* A test of several letters is true when each of them holds, those after an L of
   the link itself. *)
AllTestsHold == tree.op = "file" /\ result # <<>> => result = <<Holds(tree.ft, tree.f)>>
=============================================================================
