------------------------------- MODULE VarTree -------------------------------
(* The trees of variables and aliases (sh.set.c): AVL trees with parent links
   whose root hangs off the left link of a header.  A tree is a function from
   the addresses in use to nodes. *)
EXTENDS Integers, Sequences, SequencesExt, FiniteSetsExt, TLC

CONSTANTS
  Order     \* every name, a sequence in the order of Strcmp()
OrderAssumption == \A i, j \in DOMAIN Order : Order[i] = Order[j] => i = j

Names == {Order[i] : i \in DOMAIN Order}
Rank(name) == CHOOSE i \in DOMAIN Order : Order[i] = name
HEADER == 0
Nil == -1
Left == 0
Right == 1
Node(name, flags, vec, p) ==
  [v_name |-> name, v_flags |-> flags, vec |-> vec, v_bal |-> 0,
   v_link |-> [f \in {Left, Right} |-> Nil], v_parent |-> p]
EmptyTree == HEADER :> Node("", "none", <<>>, Nil)
NewAddress(h) == Min((1 .. Len(Order) + 1) \ DOMAIN h)

RECURSIVE Down(_, _, _), Leftmost(_, _), Rightmost(_, _), Climb(_, _), Traverse(_, _)
Down(h, p, name) ==
  IF p = Nil \/ h[p].v_name = name THEN p
  ELSE Down(h, h[p].v_link[IF Rank(name) < Rank(h[p].v_name) THEN Left ELSE Right], name)
adrof1(h, name) == Down(h, h[HEADER].v_link[Left], name)

(* The nodes in the order in which plist() prints them: it has no stack, and
   climbs by the parent links. *)
Leftmost(h, p) == IF h[p].v_link[Left] = Nil THEN p ELSE Leftmost(h, h[p].v_link[Left])
Rightmost(h, p) == IF h[p].v_link[Right] = Nil THEN p ELSE Rightmost(h, h[p].v_link[Right])
Climb(h, p) == LET up == h[p].v_parent IN IF h[up].v_link[Right] = p THEN Climb(h, up) ELSE up
Traverse(h, p) ==
  IF h[p].v_parent = Nil THEN <<>>
  ELSE <<p>> \o Traverse(h, IF h[p].v_link[Right] # Nil THEN Leftmost(h, h[p].v_link[Right]) ELSE Climb(h, p))
plist(h) == Traverse(h, Leftmost(h, HEADER))
(* The first variable in that order whose name matches the pattern. *)
madrof(h, pattern) ==
  LET hits == {i \in DOMAIN plist(h) : h[plist(h)[i]].v_name \in pattern}
  IN IF hits = {} THEN Nil ELSE plist(h)[Min(hits)]

(* A single rotation: the child of p on the other side comes up in its place.
   The link from above is the caller's to set.  rleft() is Rotate towards the
   left, rright() towards the right. *)
Rotate(h, p, side) ==
  LET t == h[p].v_link[1 - side]
      inner == h[t].v_link[side]
      h1 == [h EXCEPT ![t].v_parent = h[p].v_parent, ![t].v_link[side] = p,
                      ![p].v_link[1 - side] = inner, ![p].v_parent = t]
  IN IF inner = Nil THEN h1 ELSE [h1 EXCEPT ![inner].v_parent = p]

(* p has become too heavy on the side s: it is rotated under its child, after a
   first rotation of that child if the weight is on its inner side.  The weights
   follow from the child's, w. *)
Inner(h, p, s) ==
  LET child == h[p].v_link[s]
  IN [Rotate(h, child, s) EXCEPT ![p].v_link[s] = h[child].v_link[1 - s]]
Weighed(h, p, top, sign, w) ==
  LET b == h[top].v_bal
  IN CASE w = sign -> [h EXCEPT ![p].v_bal = 0, ![top].v_bal = 0]
       [] w = 0 -> [h EXCEPT ![p].v_bal = sign, ![top].v_bal = -sign]
       [] OTHER -> [h EXCEPT ![h[top].v_link[Left]].v_bal = IF b < 1 THEN 0 ELSE -1,
                             ![h[top].v_link[Right]].v_bal = IF b > -1 THEN 0 ELSE 1, ![top].v_bal = 0]
Raised(h, p, s, w) ==
  LET pp == h[p].v_parent
      ff == IF h[pp].v_link[Right] = p THEN Right ELSE Left
      top == h[p].v_link[s]
  IN [tree |-> Weighed([Rotate(h, p, 1 - s) EXCEPT ![pp].v_link[ff] = top], p, top, 2 * s - 1, w), top |-> top]
Settled(h, p, s) ==
  LET w == h[h[p].v_link[s]].v_bal
  IN Raised(IF w = 1 - 2 * s THEN Inner(h, p, s) ELSE h, p, s, w)
(* One step of that: s is the side of p that now weighs more. *)
Heavier(h, p, s) ==
  IF h[p].v_bal = 2 * s - 1 THEN Settled(h, p, s)
  ELSE [tree |-> [h EXCEPT ![p].v_bal = @ + 2 * s - 1], top |-> p]
(* From p up; f is the branch that has grown, or shrunk if d = 1. *)
RECURSIVE balance(_, _, _, _), Above(_, _, _, _)
Above(r, pp, ff, d) ==
  IF (r.tree[r.top].v_bal = 0) = (d = 0) THEN r.tree ELSE balance(r.tree, pp, ff, d)
balance(h, p, f, d) ==
  LET pp == h[p].v_parent
  IN IF pp = Nil THEN h
     ELSE Above(Heavier(h, p, IF f # d THEN Right ELSE Left), pp, IF h[pp].v_link[Right] = p THEN Right ELSE Left, d)

(* Where a new node would be linked: its parent and the branch. *)
RECURSIVE Place(_, _, _, _)
Place(h, p, f, name) ==
  LET c == h[p].v_link[f]
  IN IF c = Nil THEN <<p, f>>
     ELSE Place(h, c, IF Rank(name) > Rank(h[c].v_name) THEN Right ELSE Left, name)
(* The assignment itself; the caller has seen that the variable may be written. *)
setq(h, name, vec, flags) ==
  LET c == adrof1(h, name)
      at == Place(h, HEADER, Left, name)
      new == NewAddress(h)
  IN IF c # Nil THEN [h EXCEPT ![c].vec = vec, ![c].v_flags = flags]
     ELSE balance((new :> Node(name, flags, vec, at[1])) @@ [h EXCEPT ![at[1]].v_link[at[2]] = new],
                  at[1], at[2], 0)
unsetv1(h, p) ==
  LET both == h[p].v_link[Left] # Nil /\ h[p].v_link[Right] # Nil
      q == IF both THEN Rightmost(h, h[p].v_link[Left]) ELSE p
      h1 == IF both THEN [h EXCEPT ![p].v_name = h[q].v_name, ![p].v_flags = h[q].v_flags, ![p].vec = h[q].vec] ELSE h
      c == IF h1[q].v_link[Right] = Nil THEN h1[q].v_link[Left] ELSE h1[q].v_link[Right]
      pp == h1[q].v_parent
      f == IF h1[pp].v_link[Right] = q THEN Right ELSE Left
      h2 == [h1 EXCEPT ![pp].v_link[f] = c]
      h3 == IF c = Nil THEN h2 ELSE [h2 EXCEPT ![c].v_parent = pp]
  IN balance([a \in DOMAIN h3 \ {q} |-> h3[a]], pp, f, 1)

(* Nothing but the tree points at its nodes between two commands, so their
   addresses do not matter: each gets that of its name. *)
Canonical(h) ==
  LET at(p) == IF p \in {Nil, HEADER} THEN p ELSE Rank(h[p].v_name)
  IN [a \in {at(p) : p \in DOMAIN h} |->
        LET n == h[CHOOSE p \in DOMAIN h : at(p) = a]
        IN [n EXCEPT !.v_link = [f \in {Left, Right} |-> at(n.v_link[f])], !.v_parent = at(n.v_parent)]]

(* What a tree must be: in order, every node found, balanced. *)
RECURSIVE Height(_, _)
Height(h, p) == IF p = Nil THEN 0 ELSE 1 + Max({Height(h, h[p].v_link[f]) : f \in {Left, Right}})
Sound(h) ==
  LET nodes == plist(h)
  IN /\ Range(nodes) = DOMAIN h \ {HEADER}
     /\ \A i \in DOMAIN nodes :
          LET p == nodes[i] IN
            /\ i < Len(nodes) => Rank(h[p].v_name) < Rank(h[nodes[i + 1]].v_name)
            /\ adrof1(h, h[p].v_name) = p
            /\ h[p].v_bal = Height(h, h[p].v_link[Right]) - Height(h, h[p].v_link[Left])
            /\ h[p].v_bal \in {-1, 0, 1}
=============================================================================
