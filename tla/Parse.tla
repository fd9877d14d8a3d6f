---------------------------------- MODULE Parse ----------------------------------
(* Aliases and the parser (sh.parse.c): the words of a line, aliases put in where
   a command begins, and the tree of commands that execute() runs.  A word is its
   text; of metacharacters it is one of the operators. *)
EXTENDS Integers, Sequences, SequencesExt, TLC

CONSTANTS Aliases,  \* word -> [body, args]: the words it stands for, whether they use the arguments
          ALEFT     \* how often the aliases of a line are looked at
ParseAssumption == ALEFT \in Nat \ {0}

KEYWORD == {"if", "while", "set", "@", "exit", "switch", "foreach", "test"}
RELPAR == {"<", "<<", ">", ">>", "(", ")"}
\* The depth of parentheses after k words.
Depth(t, k) == Cardinality({i \in 1 .. k : t[i] = "("}) - Cardinality({i \in 1 .. k : t[i] = ")"})
\* An & that belongs to the > or | before it.
Joined(t, k) == k > 1 /\ t[k] = "&" /\ t[k - 1] \in {">", ">>", "|"}
\* The first of the operators S outside parentheses, or 0.
Top(t, S) == SelectInSeq([k \in 1 .. Len(t) |-> k], LAMBDA k : t[k] \in S /\ Depth(t, k) = 0)
Before(t, k) == SubSeq(t, 1, k - 1)
After(t, k) == SubSeq(t, k + 1, Len(t))
LastPar(t) == SelectLastInSeq(t, LAMBDA w : w = ")")

(* asyn3(): a command.  One in parentheses is looked into; the first word of
   another that is an alias is replaced, its arguments too when the alias uses
   them.  A word an alias gives back for itself is quoted. *)
Quoted(w) == "'" \o w
Filled(b, args) == FlattenSeq([i \in 1 .. Len(b) |-> IF b[i] = "!*" THEN args ELSE <<b[i]>>])
None == [done |-> FALSE, words |-> <<>>]
RECURSIVE asyntax(_), asyn0(_)
\* Mutant: the commands in parentheses are not looked at.
asyn3Flat(t) ==
  LET a == Aliases[t[1]]
      new == Filled(a.body, Tail(t))
      safe == IF new # <<>> /\ new[1] = t[1] THEN <<Quoted(new[1])>> \o Tail(new) ELSE new
  IN IF t = <<>> \/ t[1] \notin DOMAIN Aliases THEN None
     ELSE [done |-> TRUE, words |-> safe \o IF a.args THEN <<>> ELSE Tail(t)]
asyn3(t) ==
  LET close == LastPar(t)
      in == asyn0(SubSeq(t, 2, close - 1))
      a == Aliases[t[1]]
      new == Filled(a.body, Tail(t))
      safe == IF new # <<>> /\ new[1] = t[1] THEN <<Quoted(new[1])>> \o Tail(new) ELSE new
  IN IF t = <<>> THEN None
     ELSE IF t[1] = "(" THEN IF close <= 2 \/ ~in.done THEN None
                             ELSE [done |-> TRUE, words |-> <<"(">> \o in.words \o SubSeq(t, close, Len(t))]
     ELSE IF t[1] \notin DOMAIN Aliases THEN None
     ELSE [done |-> TRUE, words |-> safe \o IF a.args THEN <<>> ELSE Tail(t)]
(* asyn0(), asyntax(): the commands of a line, up to the next operator that is
   not in parentheses; the first alias found is put in and the line looked at
   from the start. *)
asyn0(t) ==
  LET end == SelectInSeq([k \in 1 .. Len(t) |-> k], LAMBDA k : t[k] \in {"&", "&&", "|", "||", ";", "\n"} /\ ~(Joined(t, k) /\ t[k - 1] # "|") /\ Depth(t, k) = 0)
      one == asyn3(Before(t, end))
      rest == asyntax(After(t, end))
  IN IF end = 0 THEN IF Depth(t, Len(t)) = 0 THEN asyn3(t) ELSE None
     ELSE IF one.done THEN [done |-> TRUE, words |-> one.words \o SubSeq(t, end, Len(t))]
     ELSE IF rest.done THEN [done |-> TRUE, words |-> SubSeq(t, 1, end) \o rest.words] ELSE None
asyntax(t) ==
  LET skip == SelectInSeq(t, LAMBDA w : w \notin {";", "&", "&&", "\n"})
      r == asyn0(SubSeq(t, skip, Len(t)))
  IN IF skip = 0 \/ ~r.done THEN None ELSE [done |-> TRUE, words |-> SubSeq(t, 1, skip - 1) \o r.words]
RECURSIVE alias(_, _)
alias(t, left) ==
  LET r == asyntax(t)
  IN IF \E k \in 1 .. Len(t) : Depth(t, k) < 0 THEN [words |-> t, err |-> "TOOMANYRP"]
     ELSE IF left = 1 THEN [words |-> t, err |-> "ALIASLOOP"]
     ELSE IF r.done THEN alias(r.words, left - 1) ELSE [words |-> t, err |-> ""]

(* The tree.  A result is a node (or none) and the errors met on the way. *)
Node(type, car, cdr, fl) == [type |-> type, car |-> car, cdr |-> cdr, fl |-> fl, av |-> <<>>, lef |-> "", rit |-> ""]
NoNode == [type |-> "none"]
Res(n, e) == [n |-> n, e |-> e]
Join(type, a, b, fl) == Res(Node(type, a.n, b.n, fl), a.e \cup b.e)

(* syn3(), one word at a time.  s: parentheses l, their contents, the words of the
   command, its redirections. *)
IsSpecial(t) == LET k == SelectInSeq(t, LAMBDA w : w # "else") IN k # 0 /\ t[k] \in KEYWORD
Count(t, special) ==
  FoldLeft(LAMBDA n, k :
             LET l == Depth(t, k - 1)
             IN n + (CASE t[k] \in {"(", ")"} -> IF special THEN 1 ELSE 0
                       [] t[k] \in {"<", "<<", ">", ">>"} /\ l # 0 -> IF special THEN 1 ELSE 0
                       [] t[k] \in {"<", "<<", ">", ">>"} -> IF k = Len(t) THEN 0 ELSE IF t[k + 1] \in RELPAR THEN 0 ELSE -1
                       [] OTHER -> IF ~special /\ l # 0 THEN 0 ELSE 1),
           0, [k \in 1 .. Len(t) |-> k])
Error(s, e) == [s EXCEPT !.e = @ \cup {e}]
redirect(t, s, flags) ==
  LET out == t[s.k] \in {">", ">>"}
      amp == out /\ s.k < Len(t) /\ t[s.k + 1] = "&"
      a == IF amp THEN s.k + 1 ELSE s.k
      bang == out /\ a < Len(t) /\ t[a + 1] = "!"
      b == IF bang THEN a + 1 ELSE a
      w == t[b + 1]
      fl == (IF t[s.k] = ">>" THEN {"APPEND"} ELSE IF t[s.k] = "<<" THEN {"READ"} ELSE {}) \cup (IF amp THEN {"STDERR"} ELSE {})
      s1 == [s EXCEPT !.fl = @ \cup fl \cup (IF bang THEN {"OVERWRITE"} ELSE {})]
      taken == IF out THEN ("OUT" \in flags /\ "DIAG" \notin flags) \/ s.rit # "" ELSE "IN" \in flags \/ s.lef # ""
  IN IF amp /\ flags \cap {"OUT", "DIAG"} # {} THEN Error([s EXCEPT !.fl = @ \cup fl, !.k = a], "OUTRED")
     ELSE IF b = Len(t) THEN Error([s1 EXCEPT !.k = b], "MISRED")
     ELSE IF w \in RELPAR THEN Error([s1 EXCEPT !.k = b + 1], "MISRED")
     ELSE IF ~out /\ "HERE" \in flags /\ "READ" \in s1.fl THEN Error([s1 EXCEPT !.k = b + 1], "REDPAR")
     ELSE IF taken THEN Error([s1 EXCEPT !.k = b + 1], IF out THEN "OUTRED" ELSE "INRED")
     ELSE IF out THEN [s1 EXCEPT !.k = b + 1, !.rit = w] ELSE [s1 EXCEPT !.k = b + 1, !.lef = w]
RECURSIVE scan(_, _, _, _)
scan(t, s, flags, special) ==
  LET w == t[s.k]
      keep == IF special THEN [s EXCEPT !.av = Append(@, w)] ELSE s
      next == CASE w = "(" -> LET p == IF s.l = 0 THEN [keep EXCEPT !.lp = s.k + 1] ELSE keep
                              IN [(IF s.l = 0 /\ s.lp # 0 /\ ~special THEN Error(p, "BADPLP") ELSE p) EXCEPT !.l = @ + 1]
                [] w = ")" -> [keep EXCEPT !.l = @ - 1, !.rp = IF s.l = 1 THEN s.k ELSE @]
                [] w \in {"<", "<<", ">", ">>"} -> IF s.l = 0 THEN redirect(t, s, flags) ELSE keep
                [] OTHER -> IF s.l # 0 /\ ~special THEN s ELSE [s EXCEPT !.av = Append(@, w)]
  IN IF s.k > Len(t) THEN s ELSE scan(t, [next EXCEPT !.k = @ + 1], flags, special)
RECURSIVE syntax(_, _, _), syn0(_, _, _), syn1(_, _, _), syn1a(_, _, _), syn1b(_, _, _), syn2(_, _, _)
(* A simple command, or a list in parentheses with its redirections. *)
syn3(t, z, flags) ==
  LET special == IsSpecial(t)
      fl == IF z = ")" THEN {"NOFORK"} ELSE {}
      s == scan(t, [k |-> 1, l |-> 0, lp |-> 0, rp |-> 0, av |-> <<>>, lef |-> "", rit |-> "", fl |-> fl, e |-> {}], flags, special)
      par == s.lp # 0 /\ ~special
      in == syn0(SubSeq(t, s.lp, s.rp - 1), ")", {"HERE"})
      extra == IF par /\ s.av # <<>> THEN {"BADPLPS"} ELSE IF ~par /\ s.av = <<>> THEN {"NULLCOM"} ELSE {}
      n == [type |-> IF par THEN "paren" ELSE "command", car |-> IF par THEN in.n ELSE NoNode, cdr |-> NoNode, fl |-> s.fl,
            av |-> IF par THEN <<>> ELSE s.av, lef |-> s.lef, rit |-> s.rit]
      \* more words than the array was made for, parentheses with no end: never
      room == IF Len(s.av) > Count(t, special) /\ Len(s.av) > 0 /\ s.e = {} THEN {"OVERFLOW"} ELSE {}
      open == IF par /\ s.rp < s.lp THEN {"OPEN"} ELSE {}
  IN IF open # {} THEN Res(n, open) ELSE Res(n, s.e \cup extra \cup room \cup (IF par THEN in.e ELSE {}))
(* Each level splits at the first of its operators that no parentheses hide. *)
syn2(t, z, flags) ==
  LET k == Top(t, {"|", "||"})
      diag == k # 0 /\ k < Len(t) /\ t[k + 1] \in {"&", "&&"}
  IN IF k = 0 THEN syn3(t, z, flags)
     ELSE Join("pipe", syn3(Before(t, k), t[k], flags \cup {"OUT"} \cup (IF diag THEN {"DIAG"} ELSE {})),
               syn2(After(t, IF diag THEN k + 1 ELSE k), z, flags \cup {"IN"}), IF diag THEN {"STDERR"} ELSE {})
syn1b(t, z, flags) ==
  LET k == Top(t, {"&&"})
  IN IF k = 0 THEN syn2(t, z, flags) ELSE Join("and", syn2(Before(t, k), "&&", flags), syn1b(After(t, k), z, flags), {})
syn1a(t, z, flags) ==
  LET k == Top(t, {"||"})
  IN IF k = 0 THEN syn1b(t, z, flags) ELSE Join("or", syn1b(Before(t, k), "||", flags), syn1a(After(t, k), z, flags), {})
syn1(t, z, flags) ==
  LET k == Top(t, {";", "\n"})
      car == syn1a(Before(t, k), ";", flags)
      cdr == syntax(After(t, k), z, flags)
  IN IF k = 0 THEN syn1a(t, z, flags)
     ELSE IF cdr.n = NoNode THEN Res(Node("list", NoNode, car.n, {}), car.e \cup cdr.e) ELSE Join("list", car, cdr, {})
\* A list goes into the background as one command in parentheses.
background(r) ==
  IF r.n.type \in {"list", "and", "or"} THEN Res(Node("paren", r.n, NoNode, {"AMPERSAND", "NOINTERRUPT"}), r.e)
  ELSE Res([r.n EXCEPT !.fl = @ \cup {"AMPERSAND", "NOINTERRUPT"}], r.e)
syn0(line, z, flags) ==
  LET t == SelectSeq(line, LAMBDA w : w # "#")   \* a comment is the last word
      k == SelectInSeq([i \in 1 .. Len(t) |-> i], LAMBDA i : t[i] = "&" /\ ~Joined(t, i) /\ Depth(t, i) = 0)
      n == IF k = 0 THEN Len(t) ELSE k
      rp == IF \E i \in 1 .. n : Depth(t, i) < 0 THEN {"TOOMANYRP"} ELSE {}
      r == IF k = 0 THEN syn1(t, z, flags)
           ELSE Join("list", background(syn1(Before(t, k), "&", flags)), syntax(SubSeq(t, k, Len(t)), z, flags), {})
  IN IF k = 0 /\ Depth(t, n) # 0 THEN Res(NoNode, {"TOOMANYLP"} \cup rp) ELSE Res(r.n, r.e \cup rp)
(* syntax(): a line; empty commands at its front are left out. *)
syntax(t, z, flags) ==
  LET skip == SelectInSeq(t, LAMBDA w : w \notin {";", "&", "&&", "\n", "#"})
  IN IF skip = 0 THEN Res(NoNode, {}) ELSE syn0(SubSeq(t, skip, Len(t)), z, flags)

---------------------------------------------------------------------------------
(* Short lines of words, parsed; trees written out and parsed; aliases. *)
VARIABLES line, tree, next
vars == <<line, tree, next>>

Tokens == {"a", "(", ")", "<", ">", "&", "|", ";", "if"}
Short == UNION {[1 .. n -> Tokens] : n \in 0 .. 5}
AliasTokens == {"ll", "two", "seq", "ls", "loop", ";", "(", ")", "|"}
WithAlias == UNION {[1 .. n -> AliasTokens] : n \in 0 .. 4}

(* Trees, as the grammar in sh.parse.c has them. *)
Cmd(av, lef, rit, fl) == [type |-> "command", car |-> NoNode, cdr |-> NoNode, fl |-> fl, av |-> av, lef |-> lef, rit |-> rit]
Leaves == {Cmd(<<"a">>, "", "", {}), Cmd(<<"b", "c">>, "", "", {})}
Pipes(S) == S \cup {Node("pipe", x, y, {}) : x \in S, y \in S} \cup {Node("pipe", x, Node("pipe", y, x, {}), {"STDERR"}) : x \in S, y \in S}
Ands(S, T) == S \cup {Node("and", x, y, {}) : x \in S, y \in T}
Ors(S, T) == S \cup {Node("or", x, y, {}) : x \in S, y \in T}
Lists(S, T) == S \cup {Node("list", x, y, {}) : x \in S, y \in T}
L1 == Ors(Ands(Pipes(Leaves), Leaves), Ands(Leaves, Leaves))
Paren(n) == [Node("paren", n, NoNode, {}) EXCEPT !.rit = ""]
L2 == Lists({Paren(n) : n \in Lists(Ands(Leaves, Leaves), Leaves)} \cup L1, Leaves \cup {Node("and", Paren(n), m, {}) : n, m \in Leaves})
Trees == L2 \cup {Node("list", background(Res(n, {})).n, m, {}) : n \in L2, m \in Leaves \cup {NoNode}}

Sign(n) == CASE n.type = "pipe" -> IF "STDERR" \in n.fl THEN <<"|", "&">> ELSE <<"|">> [] n.type = "and" -> <<"&&">> [] n.type = "or" -> <<"||">>
             [] n.type = "list" -> IF n.car # NoNode /\ "AMPERSAND" \in n.car.fl THEN <<"&">> ELSE <<";">>
RECURSIVE Typed(_)
Typed(n) ==
  CASE n = NoNode -> <<>>
    [] n.type = "command" -> n.av
    [] n.type = "paren" /\ "AMPERSAND" \in n.fl /\ n.car.type \in {"list", "and", "or"} -> Typed(n.car)
    [] n.type = "paren" -> <<"(">> \o Typed(n.car) \o <<")">>
    [] OTHER -> Typed(n.car) \o Sign(n) \o Typed(n.cdr)
\* Without the mark of the last command in parentheses.
RECURSIVE Bare(_)
Bare(n) == IF n = NoNode THEN n ELSE [n EXCEPT !.fl = @ \ {"NOFORK"}, !.car = Bare(@), !.cdr = Bare(@)]

(* The grammar, for lines with at most one level of everything. *)
RECURSIVE S(_), S0(_), S1(_), S1a(_), S1b(_), S2(_, _), S3(_, _)
Cuts(t, w) == {k \in 1 .. Len(t) : t[k] = w}
S(t) == (\A k \in 1 .. Len(t) : t[k] \in {";", "&"}) \/ S0(t) \/ (t # <<>> /\ t[1] \in {";", "&"} /\ S(Tail(t)))
S0(t) == S1(t) \/ \E k \in Cuts(t, "&") : ~Joined(t, k) /\ S1(Before(t, k)) /\ S(After(t, k))
S1(t) == S1a(t) \/ \E k \in Cuts(t, ";") : S1a(Before(t, k)) /\ S(After(t, k))
S1a(t) == S1b(t)
S1b(t) == S2(t, {})
S2(t, f) == S3(t, f) \/ \E k \in Cuts(t, "|") :
              IF k < Len(t) /\ t[k + 1] = "&" THEN S3(Before(t, k), f \cup {"out"}) /\ S2(After(t, k + 1), f \cup {"in"})
              ELSE S3(Before(t, k), f \cup {"out"}) /\ S2(After(t, k), f \cup {"in"})
\* Redirections taken out: < or > or >& and a word, one of each at most.
RECURSIVE Stripped(_, _)
Stripped(t, f) ==
  LET top(k) == Depth(t, k) = 0
      k == SelectInSeq([i \in 1 .. Len(t) |-> i], LAMBDA i : t[i] \in {"<", ">"} /\ top(i))
      n == IF t[k] = ">" /\ k < Len(t) /\ t[k + 1] = "&" THEN k + 2 ELSE k + 1
      way == IF t[k] = "<" THEN "in" ELSE "out"
  IN IF k = 0 THEN t
     ELSE IF n > Len(t) \/ way \in f THEN <<")">>
     ELSE IF t[n] \notin {"a", "if"} THEN <<")">>
     ELSE Stripped(SubSeq(t, 1, k - 1) \o SubSeq(t, n + 1, Len(t)), f \cup {way})
S3(t, f) ==
  LET w == Stripped(t, f)
      special == IsSpecial(t)
      balanced == Depth(w, Len(w)) = 0 /\ \A k \in 1 .. Len(w) : Depth(w, k) >= 0
  IN /\ w # <<>> /\ balanced
     /\ \/ special /\ \A k \in 1 .. Len(w) : w[k] \notin {"&", "|", ";"} \/ Depth(w, k) > 0
        \/ ~special /\ \A k \in 1 .. Len(w) : w[k] \in {"a", "if"}
        \/ ~special /\ w[1] = "(" /\ w[Len(w)] = ")" /\ (\A k \in 1 .. Len(w) - 1 : Depth(w, k) > 0) /\ S0(SubSeq(w, 2, Len(w) - 1))

MCInit == /\ next = "parse"
          /\ \/ line \in Short \cup WithAlias /\ tree = NoNode
             \/ tree \in Trees /\ line = Typed(tree)
MCNext == next = "parse" /\ next' = "done" /\ UNCHANGED <<tree, line>>
MCSpec == MCInit /\ [][MCNext]_vars

Parsed(t) == syntax(t, "\n", {})
Aliased == alias(line, ALEFT)
Short0 == tree = NoNode /\ ToSet(line) \subseteq Tokens
(* A line has no error exactly when the grammar of the source has it, and what it
   is made into is the tree it was written from: |, &&, ||, ; and & bind in this
   order, a list goes into the background as a whole (sh.parse.c:183). *)
ParsesGrammar == IF tree # NoNode THEN Parsed(line).e = {} /\ Bare(Parsed(line).n) = tree
                 ELSE Short0 /\ Aliased.err = "" => ((Parsed(line).e = {}) <=> S(line))
(* No command gets more words than it was given room for, and parentheses are
   looked into only when their end was found (sh.parse.c:486, 600). *)
StaysInBounds == Short0 /\ Aliased.err = "" => Parsed(line).e \cap {"OVERFLOW", "OPEN"} = {}
(* Where the alias pass says that a command begins, the parser agrees: after it
   no command of the tree has an alias for its name (sh.parse.c:133). *)
RECURSIVE Names(_)
Names(n) == IF n = NoNode THEN {} ELSE IF n.type = "command" THEN {n.av[1]} ELSE Names(n.car) \cup Names(n.cdr)
AliasesDone == tree = NoNode /\ Aliased.err = "" =>
                 LET r == Parsed(Aliased.words) IN r.e = {} => Names(r.n) \cap DOMAIN Aliases = {}
=================================================================================
