------------------------------ MODULE HistList ------------------------------
(***************************************************************************)
(* The history list of one shell (sh.hist.c): Histlist, newest first, with *)
(* its hash table (HistHash), the variable histdup, the merging of entries *)
(* by time, and the dummy entries that history substitutions leave on it   *)
(* (sh.lex.c).                                                             *)
(*                                                                         *)
(* A struct Hist is a number of Ids; what it holds is in hist.  The list   *)
(* is the sequence of those on it.  Positions in the list start at 1, and  *)
(* position 0 stands for &Histlist, whose Htime is 0.  All of it is one    *)
(* record H, so that enthist() and discardExcess() are operators that the  *)
(* actions compose.                                                        *)
(***************************************************************************)
EXTENDS HistHash, SequencesExt

CONSTANTS
  Words,        \* the commands that are entered, as hashhist() and heq() see them
  HashOf,       \* hashhist()
  Modes,        \* the values of $histdup used: "", "erase", "all", "prev"
  Lengths,      \* the values of $history used
  MaxHist,      \* bound: how many struct Hist there are at a time
  MaxEvents,    \* bound on eventno
  MaxTime,      \* bound on the clock
  MaxDummies,   \* bound: dummy entries on the list at a time
  Loads         \* how files are read: "merge" (history -M), "load" (-L)

ASSUME HistListAssumption ==
  /\ HashOf \in [Words -> Nat]
  /\ Modes \subseteq {"", "erase", "all", "prev"} /\ Lengths \subseteq Nat
  /\ {MaxHist, MaxEvents, MaxTime, MaxDummies} \subseteq Nat /\ MaxTime # 0
  /\ Loads \subseteq {"merge", "load"}

HIST_PURGE == -500000                 \* sh.h:1015, the event of a dummy entry
Ids  == 1 .. MaxHist
NULL == 0                             \* histMerg: NULL, or ...
HEAD == -1                            \* ... &Histlist, or one of Ids

\* dummy: made by dosub(), which has no "\n" at the end and so never heq() to a
\* line.
Entry == [word : Words, dummy : BOOLEAN, num : Int, ref : Int, time : Nat]

VARIABLES
  H,            \* [hist, list, histMerg, table, eventno]
  histlen, histdup,
  clock,        \* time()
  lexing        \* inside lex(), after dosub() has left a dummy entry

vars == <<H, histlen, histdup, clock, lexing>>

TypeOK ==
  /\ H.list \in Seq(Ids) /\ IsInjective(H.list)
  /\ DOMAIN H.hist = Range(H.list) /\ \A id \in DOMAIN H.hist : H.hist[id] \in Entry
  /\ H.histMerg \in {NULL, HEAD} \cup Range(H.list)
  /\ H.table # ABORT =>
       \A i \in DOMAIN H.table : H.table[i] \in {EMPTY, DELETED} \cup Ids
  /\ H.eventno \in Int /\ histlen \in Lengths /\ histdup \in Modes
  /\ clock \in 1 .. MaxTime /\ lexing \in BOOLEAN

Init ==
  /\ H = [hist |-> << >>, list |-> << >>, histMerg |-> NULL, table |-> NoTable, eventno |-> 0]
  /\ histlen \in Lengths /\ histdup \in Modes /\ clock = 1 /\ lexing = FALSE

-----------------------------------------------------------------------------
(* The list.                                                                *)

Hash(S)       == [id \in DOMAIN S.hist |-> HashOf[S.hist[id].word]]
Htime(S, pos) == IF pos = 0 THEN 0 ELSE S.hist[S.list[pos]].time
Position(S, id) == CHOOSE pos \in 1 .. Len(S.list) : S.list[pos] = id
\* heq(): the entries with these words.
Same(S, word, dummy) ==
  {id \in Range(S.list) : S.hist[id].word = word /\ S.hist[id].dummy = dummy}

\* hremove() and hfree() of the entry at a position.
hremove(S, pos) ==
  LET id == S.list[pos] IN
  [S EXCEPT !.list     = RemoveAt(@, pos),
            !.hist     = [i \in DOMAIN @ \ {id} |-> @[i]],
            !.histMerg = IF @ = id THEN NULL ELSE @,
            !.table    = IF @ = ABORT THEN @ ELSE remove(@, id, Hash(S)[id])]

hinsert(S, id, e, pos) ==              \* after the one at position pos
  [S EXCEPT !.list = InsertAt(@, pos + 1, id),
            !.hist = [i \in DOMAIN @ \cup {id} |-> IF i = id THEN e ELSE @[i]]]

\* Mutant: off by one.
OldEarly(S, pos, hlen) == S.eventno - S.hist[S.list[pos]].ref >= hlen - 1 \/ hlen = 0

Old(S, pos, hlen) == S.eventno - S.hist[S.list[pos]].ref >= hlen \/ hlen = 0

\* Where entries are dropped: old ones, while there are too many, at the front,
\* at the back or anywhere; dummy entries at the front; all of them.
Victims(S, which, hlen) ==
  {pos \in 1 .. Len(S.list) :
     CASE which = "front"   -> pos = 1 /\ Len(S.list) > hlen /\ Old(S, pos, hlen)
       [] which = "back"    -> pos = Len(S.list) /\ Len(S.list) > hlen /\ Old(S, pos, hlen)
       [] which = "old"     -> Len(S.list) > hlen /\ Old(S, pos, hlen)
       [] which = "dummies" -> pos = 1 /\ S.hist[S.list[pos]].num = HIST_PURGE
       [] which = "all"     -> pos = 1}

\* The first of them is dropped, as often as there is one.
DropAll(S, which, hlen) ==
  LET after[n \in 0 .. Len(S.list)] ==
        IF n = 0 THEN S
        ELSE LET R == after[n - 1] IN
             IF Victims(R, which, hlen) = {} THEN R
             ELSE hremove(R, Min(Victims(R, which, hlen)))
  IN  after[Len(S.list)]

\* discardExcess: from the front, from the back, and, if the list is still 1/16
\* too long, wherever there is an old entry.
discardExcess(S, hlen) ==
  LET S1 == DropAll(DropAll(S, "front", hlen), "back", hlen)
  IN  IF Len(S1.list) - (hlen \div 16) <= hlen THEN S1 ELSE DropAll(S1, "old", hlen)

-----------------------------------------------------------------------------
(* enthist().                                                               *)

mergeBelow(S, time, hint) ==
  Min({pos \in 0 .. Len(S.list) : pos = Len(S.list) \/ Htime(S, pos + 1) < time})

\* mergeInsertionPoint: the position after which entries of the given time, and
\* then earlier ones, come.  hint is where to look first, -1 if unknown.
mergeInsertionPoint(S, time, hint) ==
  LET count == Len(S.list)
      merg  == IF S.histMerg \in {NULL, HEAD} THEN 1 ELSE Position(S, S.histMerg)
      from  == IF merg > 1 /\ Htime(S, merg) >= time THEN merg
               ELSE IF merg > 1 /\ Htime(S, merg - 1) >= time THEN merg - 1
               ELSE IF count > 0 /\ Htime(S, count) >= time THEN count
               ELSE hint
      up    == IF from = -1 THEN 0
               ELSE Max({pos \in 0 .. from : pos = 0 \/ Htime(S, pos) > time})
  IN  Min({pos \in up .. count : pos = count \/ Htime(S, pos + 1) <= time})

\* Mutant: the numbers stay, the new entry has the latest one.
bubbleNothing(S, event, pos) == S

\* bubbleHnumHrefDown: the numbers of the new entry and of those before it move
\* on by one place.
bubbleHnumHrefDown(S, event, pos) ==
  LET Given(k) == IF k = 1 THEN [num |-> event, ref |-> event]
                  ELSE [num |-> S.hist[S.list[k - 1]].num, ref |-> S.hist[S.list[k - 1]].ref]
  IN  [S EXCEPT !.hist = [id \in DOMAIN @ |->
         IF \E k \in 1 .. pos : S.list[k] = id
         THEN [@[id] EXCEPT !.num = Given(Position(S, id)).num, !.ref = Given(Position(S, id)).ref]
         ELSE @[id]]]

NewId(S) == Min(Ids \ Range(S.list))

\* The new entry goes on the list, and into the table if there is one to keep.
Entered(S, e, pos, hashing) ==
  LET id == NewId(S)
      S1 == hinsert(S, id, e, pos)
  IN  [S1 EXCEPT !.table = IF @ = ABORT THEN @
                           ELSE IF hashing THEN insert(@, S1.list, Hash(S1), id) ELSE NoTable]

\* A new entry: at the front, or by its time; an equal one of that time is kept
\* instead.
Add(S, event, word, dummy, time, merge, hint, hashing) ==
  LET pp    == mergeInsertionPoint(S, time, hint)
      last  == Max({pos \in pp .. Len(S.list) : \A k \in pp + 1 .. pos : Htime(S, k) = time})
      equal == \E k \in pp + 1 .. last : S.list[k] \in Same(S, word, dummy)
      S1    == [S EXCEPT !.histMerg = IF pp = 0 THEN HEAD ELSE S.list[pp]]
      S2    == bubbleHnumHrefDown(S1, event, last)
      prev  == S.hist[S.list[last]]
      e     == [word |-> word, dummy |-> dummy, time |-> time, num |-> event, ref |-> event]
  IN  IF ~merge THEN Entered(S, e, 0, hashing)
      ELSE IF equal THEN [S1 EXCEPT !.eventno = @ - 1]
      ELSE IF last = 0 THEN Entered(S1, e, 0, hashing)
      ELSE Entered(S2, [e EXCEPT !.num = prev.num, !.ref = prev.ref], last, hashing)

\* enthist(event, lp, docopy, mflg, hlen) where now is the time and stamp the
\* one that lex() read before the line, 0 if none.
enthist(S, event, word, dummy, stamp, now, merge, hlen) ==
  LET hashing == histdup \in {"erase", "all"}
      created == IF S.table = ABORT THEN ABORT
                 ELSE create(S.table, S.list, Hash(S), hlen, histlen)
      looked  == IF created = ABORT THEN [entry |-> EMPTY, table |-> ABORT]
                 ELSE find(created, S.list, Hash(S), HashOf[word], Same(S, word, dummy))
      S1      == IF hashing THEN [S EXCEPT !.table = looked.table] ELSE S
      p       == IF hashing THEN looked.entry
                 ELSE IF histdup = "prev" /\ S.list # << >> /\ S.list[1] \in Same(S, word, dummy)
                 THEN S.list[1] ELSE EMPTY
      keep    == hashing /\ hlen # 0
      time    == IF stamp # 0 THEN stamp ELSE now
      pos     == Position(S, p)
      stamp1  == IF stamp # 0 /\ S.hist[p].time > stamp THEN S.hist[p].time ELSE stamp
      hint    == IF merge /\ stamp1 # 0 /\ Htime(S, pos - 1) >= stamp1 THEN pos - 1 ELSE -1
  IN  IF S1.table = ABORT THEN S1
      ELSE IF p = EMPTY THEN Add(S1, event, word, dummy, time, merge, -1, keep)
      ELSE IF histdup = "erase"
      THEN Add(hremove(S1, pos), event, word, dummy, IF stamp1 # 0 THEN stamp1 ELSE now,
               merge, hint, keep)
      ELSE [S1 EXCEPT !.eventno = @ - 1, !.hist[p].time = time]

savehist(S, word, stamp, now, merge) ==
  LET S1 == [S EXCEPT !.eventno = @ + 1] IN
  discardExcess(enthist(S1, S1.eventno, word, FALSE, stamp, now, merge, histlen), histlen)

-----------------------------------------------------------------------------
(* What happens to it.                                                      *)

\* There is room for one more struct Hist and one more event.
Room == Len(H.list) < MaxHist /\ H.eventno < MaxEvents

\* A line typed at the terminal ends; time may have passed.
Type(word) ==
  /\ Room /\ ~lexing
  /\ \E now \in clock .. MaxTime :
       clock' = now /\ H' = savehist(H, word, 0, now, FALSE)
  /\ UNCHANGED <<histlen, histdup, lexing>>

\* A line of a history file with its time, merged or not.
Load(word, how) ==
  /\ Room /\ ~lexing /\ how \in Loads
  /\ \E stamp \in 1 .. clock : H' = savehist(H, word, stamp, clock, how = "merge")
  /\ UNCHANGED <<histlen, histdup, clock, lexing>>

\* dosub(): the result of a :s modifier is a dummy entry, until readc() has read
\* all of it.
Dosub(word) ==
  /\ Room
  /\ Cardinality({id \in Range(H.list) : H.hist[id].dummy}) < MaxDummies
  /\ H' = enthist(H, HIST_PURGE, word, TRUE, 0, clock, FALSE, -1)
  /\ lexing' = TRUE
  /\ UNCHANGED <<histlen, histdup, clock>>

ThrowAway ==
  /\ lexing
  /\ H' = discardExcess(H, histlen)
  /\ lexing' = FALSE
  /\ UNCHANGED <<histlen, histdup, clock>>

\* gethent(): !n refers to an event.
Refer(n) ==
  /\ \E id \in Range(H.list) : H.hist[id].num = n
  /\ LET pos == Min({k \in 1 .. Len(H.list) : H.hist[H.list[k]].num = n}) IN
       H' = [H EXCEPT !.hist[H.list[pos]].ref = H.eventno]
  /\ UNCHANGED <<histlen, histdup, clock, lexing>>

\* cleanhist(), after a hook: the dummy entries at the front.
Cleanhist ==
  /\ ~lexing /\ H.list # << >>
  /\ H' = DropAll(H, "dummies", 0)
  /\ UNCHANGED <<histlen, histdup, clock, lexing>>

\* history -c
Clear ==
  /\ ~lexing /\ H' = DropAll(H, "all", 0)
  /\ UNCHANGED <<histlen, histdup, clock, lexing>>

\* set history = n
Sethistory(n) ==
  /\ ~lexing /\ histlen' = n /\ H' = discardExcess(H, n)
  /\ UNCHANGED <<histdup, clock, lexing>>

\* set histdup = mode
SetHistdup(mode) ==
  /\ ~lexing /\ histdup' = mode
  /\ UNCHANGED <<H, histlen, clock, lexing>>

Next ==
  /\ H.table # ABORT
  /\ \/ \E w \in Words : Type(w) \/ Dosub(w)
     \/ \E w \in Words, how \in Loads : Load(w, how)
     \/ \E n \in 1 .. MaxEvents : Refer(n)
     \/ \E n \in Lengths : Sethistory(n)
     \/ \E mode \in Modes : SetHistdup(mode)
     \/ ThrowAway \/ Cleanhist \/ Clear

Spec == Init /\ [][Next]_vars

-----------------------------------------------------------------------------
(* Properties.                                                              *)

\* While there is a table it holds exactly the entries of the list, each once,
\* no freed one, and a search for the words of an entry finds an entry with
\* these words: none is hidden behind an entry that was emptied too early.
TableMatchesList ==
  H.table \notin {ABORT, NoTable} =>
    /\ \A id \in Ids :
         Cardinality({i \in DOMAIN H.table : H.table[i] = id})
           = (IF id \in Range(H.list) THEN 1 ELSE 0)
    /\ \A id \in Range(H.list) :
         Search(H.table, Hash(H)[id], Same(H, H.hist[id].word, H.hist[id].dummy)) # EMPTY

\* Events are numbered in the order of the list, without two of the same number,
\* whatever was merged, erased or found already there: !n is one event.
EventsInOrder ==
  \A i, j \in 1 .. Len(H.list) :
    LET m == H.hist[H.list[i]]  n == H.hist[H.list[j]] IN
    i < j /\ ~m.dummy /\ ~n.dummy => n.num < m.num /\ m.num <= H.eventno

Sorted(S) == \A i, j \in 1 .. Len(S.list) : i < j => Htime(S, i) >= Htime(S, j)

At(S, w, time) == Cardinality({id \in Same(S, w, FALSE) : S.hist[id].time = time})

\* A line of a file that is on the list already, with its time, is not merged a
\* second time: shells may merge each other's files as often as they like.
MergedOnce ==
  [][\A w \in Words, t \in 1 .. clock - 1 :
       Sorted(H) /\ histdup \in {"", "erase"} /\ At(H', w, t) > 1
         => At(H', w, t) <= At(H, w, t)]_vars

Copies(S, w) == Cardinality(Same(S, w, FALSE))

\* With histdup = erase or all no line is entered that is on the list already.
NoNewDuplicates ==
  [][\A w \in Words :
       histdup \in {"erase", "all"} /\ Copies(H', w) > 1
         => Copies(H', w) <= Copies(H, w)]_vars

\* Entering a line loses none of the last $history events (histdup = erase may
\* merge the line again as an older event).
RecentKept ==
  [][\A id \in Range(H.list) :
       LET e == H.hist[id] IN
       ~e.dummy /\ histdup # "erase" /\ histlen' = histlen /\ H'.eventno > H.eventno
         /\ H'.eventno - e.num < histlen
         => \E f \in Range(H'.list) : H'.hist[f].word = e.word /\ ~H'.hist[f].dummy]_vars
=============================================================================
