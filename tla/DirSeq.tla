-------------------------------- MODULE DirSeq --------------------------------
(* What the directory stack is to its user: a sequence of names, the current
   directory first, which the builtins change (tcsh.man.in, "Directory stack
   substitution").  op is the builtin that ran; one that fails or has nothing
   to do, op = "error", leaves the stack as it is. *)
EXTENDS Sequences, Integers, SequencesExt
VARIABLES stack, op
vars == <<stack, op>>
Ranks == 1 .. Len(stack) - 1  \* the numbers of the entries below the current one
Rotated(t, i) == SubSeq(t, i, Len(t)) \o SubSeq(t, 1, i - 1)
(* With dunique another entry that has the name of the current one goes. *)
Becomes(t) ==
  \/ stack' = t
  \/ \E i \in 2 .. Len(t) : t[i] = t[1] /\ stack' = RemoveAt(t, i)
Init == Len(stack) >= 1
Cd == op' = "cd" /\ Becomes(<<stack'[1]>> \o Tail(stack))
CdEntry == op' = "cd +n" /\ \E i \in Ranks : Becomes(Rotated(Tail(stack), i))
Push == op' = "pushd" /\ Becomes(<<stack'[1]>> \o stack)
Exchange == op' = "exchange" /\ Becomes(<<stack[2], stack[1]>> \o SubSeq(stack, 3, Len(stack)))
Rotate == op' = "rotate" /\ \E i \in Ranks : Becomes(Rotated(stack, i + 1))
Extract == op' = "extract" /\ \E i \in Ranks : Becomes(<<stack[i + 1]>> \o RemoveAt(stack, i + 1))
Pop == op' = "popd" /\ Becomes(Tail(stack))
Drop == op' = "popd +n" /\ \E i \in Ranks : stack' = RemoveAt(stack, i + 1)
Clear == op' = "dirs -c" /\ stack' = <<stack[1]>>
Assign == op' = "set dirstack" /\ stack'[1] = stack[1]
Rename == op' = "set home" /\ Len(stack') = Len(stack)
Keep == op' \in {"error", "job", "rmdir"} /\ UNCHANGED stack
Next == Cd \/ CdEntry \/ Push \/ Exchange \/ Rotate \/ Extract \/ Pop \/ Drop \/ Clear \/ Assign \/ Rename \/ Keep
Spec == Init /\ [][Next]_vars
=============================================================================
