------------------------------- MODULE MCLines --------------------------------
(* What becomes of a line between the key that ends it and the program that is
   run: history references, words, aliases and the tree of commands, variables,
   patterns; one of them in each behaviour, with the values they are checked with. *)
EXTENDS Integers, Sequences, TLC

CONSTANTS Working,   \* the parts of a run
          MaxSteps   \* commands expanded one after the other

VARIABLES
  part,               \* the part that works
  s1, s2, s3, s4, s5  \* its variables, "off" when it has fewer

W(s) == CASE s = "ab" -> <<"a", "b">> [] s = "a/b.a" -> <<"a", "/", "b", ".", "a">> [] s = "b" -> <<"b">> [] s = "aab" -> <<"a", "a", "b">>
HistoryMC == <<[num |-> 3, words |-> <<W("ab"), W("a/b.a"), W("aab")>>], [num |-> 2, words |-> <<W("b")>>],
               [num |-> 1, words |-> <<W("a/b.a"), W("b")>>]>>

AliasesMC == [ll |-> [body |-> <<"ls", "-l">>, args |-> FALSE], ls |-> [body |-> <<"ls", "-F">>, args |-> FALSE],
              two |-> [body |-> <<"ll", "!*", "|", "wc">>, args |-> TRUE], seq |-> [body |-> <<"(", "ll", ";", "ls", ")">>, args |-> FALSE],
              loop |-> [body |-> <<"loops">>, args |-> FALSE], loops |-> [body |-> <<"loop">>, args |-> FALSE]]

Bare(cs) == [k \in 1 .. Len(cs) |-> <<cs[k], FALSE>>]
StartMC == "a" :> <<Bare(<<"x", "/", "y">>), Bare(<<"y", "/", " ", "'", "x">>), <<>> >> @@ "i" :> <<Bare(<<"2">>)>> @@ "b" :> <<>>
             @@ "argv" :> <<Bare(<<"x">>)>> @@ "status" :> <<Bare(<<"0">>)>>
EnvMC == "e" :> Bare(<<"/", "x">>)
StdinMC == Bare(<<"x", " ", "y">>)
WritesMC(c) == <<"o", "\n", "o">>

AlphabetMC == <<" ", "\n", "*", "-", ".", "/", "0", "1", "=", "?", "[", "]", "^", "a", "b", "h", "x", "{", "}", "~", ",">>
a == <<"a">>
b == <<"b">>
ab == <<"a", "b">>
x == <<"x">>
dota == <<".", "a">>
TreeMC == {<<a>>, <<a, b>>, <<a, ab>>, <<a, ab, x>>, <<a, dota>>, <<b>>, <<ab>>, <<dota>>, <<dota, x>>, <<x>>, <<x, a>>, <<x, b>>,
           << <<>>, <<"h">> >>, << <<>>, <<"h">>, a>>}
LinksMC == (<<b>> :> <<x>>) @@ (<<x, b>> :> <<a>>)
HomesMC == (<<>> :> <<"/", "h">>) @@ (<<"a">> :> <<"/">>)
StacksMC == {[stack |-> <<(<<"/", "h">>), (<<"x">>)>>, owd |-> <<"a">>], [stack |-> << <<"x">> >>, owd |-> <<"a">>],
             [stack |-> << <<"x">> >>, owd |-> <<>>]}
OutputMC == [c \in UNION {[1 .. k -> {"a", " ", "\n"}] : k \in 0 .. 4} \cup {<<"a", " ", "*">>, <<"a", "NUL", "b">>} |-> c]

---------------------------------------------------------------------------
S == INSTANCE HistSubst WITH History <- HistoryMC, sub <- s1, got <- s2, mem <- s3, ref <- s4
X == INSTANCE Lex WITH file <- s1, Htime <- s2, events <- s3, line <- s4, source <- s5
Y == INSTANCE Parse WITH Aliases <- AliasesMC, ALEFT <- 6, line <- s1, tree <- s2, next <- s3
D == INSTANCE Dol WITH Start <- StartMC, Env <- EnvMC, Stdin <- StdinMC, Stale <- 1, Output <- WritesMC,
       vars <- s1, last <- s2, doc <- s3, said <- s4, n <- s5
G == INSTANCE Glob WITH GLOBSPACE <- 2, Alphabet <- AlphabetMC, Tree <- TreeMC, Links <- LinksMC, Homes <- HomesMC,
       Stacks <- StacksMC, Output <- OutputMC, in <- s1, cwds <- s2
ASSUME S!HistSubstAssumption /\ Y!ParseAssumption

vars == <<part, s1, s2, s3, s4, s5>>
Off3 == s4 = "off" /\ s5 = "off"
Off2 == s3 = "off" /\ Off3
Init ==
  /\ part \in Working
  /\ \/ part = "history" /\ S!MCInit /\ s5 = "off"
     \/ part = "lex" /\ X!MCInit
     \/ part = "parse" /\ Y!MCInit /\ Off3
     \/ part = "dol" /\ D!MCInit
     \/ part = "glob" /\ G!MCInit /\ Off2
Refer == part = "history" /\ S!MCNext /\ UNCHANGED <<part, s5>>
CutIntoWords == part = "lex" /\ X!MCNext /\ UNCHANGED part
MakeTree == part = "parse" /\ Y!MCNext /\ UNCHANGED <<part, s4, s5>>
Substitute == part = "dol" /\ D!MCNext /\ UNCHANGED part
FindFiles == part = "glob" /\ G!MCNext /\ UNCHANGED <<part, s3, s4, s5>>
Next == Refer \/ CutIntoWords \/ MakeTree \/ Substitute \/ FindFiles
Spec == Init /\ [][Next]_vars
---------------------------------------------------------------------------
(* A reference to an earlier line puts in the words that the manual says, and fails
   where the manual has none (sh.lex.c:719). *)
RefersAsManual == part = "history" => S!RefersAsManual
(* A line is cut where neither quotes nor backslashes hide it, and what is saved
   of it is the same words, with their own time, when it is read back; a time that
   ends the file goes to the first line typed then and to no other (sh.lex.c:268,
   341). *)
ReadsBack == [][part = "lex" => X!CutsWords /\ X!ReadsBack /\ X!SavedTimes]_vars
(* The parser takes the lines the grammar has and makes the trees they mean, within
   the room it asked for, and no alias is left where a command begins
   (sh.parse.c:133, 183, 486). *)
ParsesGrammar == [][part = "parse" => Y!ParsesGrammar /\ Y!StaysInBounds /\ Y!AliasesDone]_vars
(* References give the selected and modified words of their value, and no character
   of a value quotes anything; a here document comes out line by line (sh.dol.c). *)
ExpandsAsManual == part = "dol" => D!ExpandsAsManual /\ D!HereText
(* Patterns, braces, homes and the output of commands become the files and words
   that they stand for, each word for itself (sh.glob.c, glob.c). *)
FilesFound == [][part = "glob" => G!FilesFound /\ G!Matches /\ G!Braces /\ G!WordByWord /\ G!OutputWords]_vars
================================================================================
