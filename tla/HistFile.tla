------------------------------ MODULE HistFile ------------------------------
(***************************************************************************)
(* The history file that several shells share with savehist = (n merge     *)
(* lock): rechist() (sh.hist.c:1240-1350) takes the dot lock, merges the   *)
(* file into the list, writes the list to a new file and renames it.  The  *)
(* merging of two lists is their union here (HistList models it), n and    *)
(* $history are large enough for all lines.                                *)
(***************************************************************************)
EXTENDS DotLock

CONSTANTS
  Lines,        \* the lines that are typed, each of them in one shell
  MaxSaves      \* bound: how often a shell saves its history

ASSUME HistFileAssumption == MaxSaves \in Nat

VARIABLES
  file,         \* the lines of the history file
  mem,          \* the history list of every shell
  typed,        \* ghost: all lines that were typed
  locked,       \* dotlock_cleanup is on the cleanup stack of a shell
  saves         \* how often a shell has begun to save

vars == <<dotlock, file, mem, typed, locked, saves>>

Places == DotLockPcs \cup {"typing", "load", "write", "rename", "unlock", "dead"}

TypeOK ==
  /\ names \subseteq Cookies /\ lock \in Cookies \cup {NONE, GONE}
  /\ lock \in Cookies => lock \in names
  /\ pc \in [Shells -> Places] /\ cookie \in [Shells -> Cookies]
  /\ tries \in [Shells -> 0 .. MaxTries]
  /\ errno \in [Shells -> {"0", "EEXIST", "ENOENT"}]
  /\ disturbed \subseteq {"collision", "open", "interrupt"}
  /\ typed \subseteq Lines /\ file \subseteq typed /\ mem \in [Shells -> SUBSET typed]
  /\ locked \in [Shells -> BOOLEAN] /\ saves \in [Shells -> 0 .. MaxSaves]

Init ==
  /\ DotLockInit("typing")
  /\ file = {} /\ typed = {} /\ mem = [s \in Shells |-> {}]
  /\ locked = [s \in Shells |-> FALSE] /\ saves = [s \in Shells |-> 0]

-----------------------------------------------------------------------------
Type(s) ==
  /\ pc[s] = "typing"
  /\ \E line \in Lines \ typed :
       mem' = [mem EXCEPT ![s] = @ \cup {line}] /\ typed' = typed \cup {line}
  /\ UNCHANGED <<dotlock, file, locked, saves>>

\* history -S, or the shell is about to exit.
Rechist(s) ==
  /\ pc[s] = "typing" /\ saves[s] < MaxSaves
  /\ saves' = [saves EXCEPT ![s] = @ + 1] /\ Goto(s, "lock")
  /\ UNCHANGED <<names, lock, cookie, tries, errno, disturbed, file, mem, typed, locked>>

Dotlock(s) ==
  CreateExclusive(s, "load") /\ UNCHANGED <<file, mem, typed, locked, saves>>

\* dot_lock() returns 0, and the lock will be removed whatever happens.
DotlockReturns(s) ==
  /\ pc[s] = "return" /\ locked' = [locked EXCEPT ![s] = TRUE] /\ Goto(s, "load")
  /\ UNCHANGED <<names, lock, cookie, tries, errno, disturbed, file, mem, typed, saves>>

Loadhist(s) ==
  /\ pc[s] = "load" /\ Goto(s, "write")
  /\ mem' = [mem EXCEPT ![s] = @ \cup file]
  /\ UNCHANGED <<names, lock, cookie, tries, errno, disturbed, file, typed, locked, saves>>

Xcreat(s) ==
  /\ pc[s] = "write" /\ Goto(s, "rename")
  /\ UNCHANGED <<names, lock, cookie, tries, errno, disturbed, file, mem, typed, locked, saves>>

\* The new file cannot be created, or an error or ^C ends the writing: the file
\* stays as it is.
XcreatFails(s) ==
  /\ pc[s] \in {"write", "rename"} /\ Goto(s, "unlock")
  /\ UNCHANGED <<names, lock, cookie, tries, errno, disturbed, file, mem, typed, locked, saves>>

Rename(s) ==
  /\ pc[s] = "rename" /\ file' = mem[s] /\ Goto(s, "unlock")
  /\ UNCHANGED <<names, lock, cookie, tries, errno, disturbed, mem, typed, locked, saves>>

\* Mutant: the lock is removed whether it was got or not.
CleanupAlways(s) ==
  /\ pc[s] = "unlock" /\ Goto(s, "typing") /\ dot_unlock(s)
  /\ locked' = [locked EXCEPT ![s] = FALSE]
  /\ UNCHANGED <<cookie, tries, errno, disturbed, file, mem, typed, saves>>

Cleanup(s) ==
  /\ pc[s] = "unlock" /\ Goto(s, "typing")
  /\ IF locked[s] THEN dot_unlock(s) ELSE UNCHANGED <<names, lock>>
  /\ locked' = [locked EXCEPT ![s] = FALSE]
  /\ UNCHANGED <<cookie, tries, errno, disturbed, file, mem, typed, saves>>

\* ^C: while it polls, or when SIGINT is no longer blocked but dot_lock() has
\* not returned, the shell goes back to its prompt; the lock may be there.
InterruptedLock(s) ==
  /\ pc[s] \in {"lock", "return"} /\ Goto(s, "typing")
  /\ disturbed' = disturbed \cup {"interrupt"}
  /\ UNCHANGED <<names, lock, cookie, tries, errno, file, mem, typed, locked, saves>>

\* ^C while the file is read: fixerror() moves the input to its end, and the
\* list is saved with the lines that were read so far.
InterruptedLoad(s) ==
  /\ pc[s] = "load" /\ Goto(s, "write")
  /\ \E part \in (SUBSET file) \ {file} : mem' = [mem EXCEPT ![s] = @ \cup part]
  /\ disturbed' = disturbed \cup {"interrupt"}
  /\ UNCHANGED <<names, lock, cookie, tries, errno, file, typed, locked, saves>>

\* SIGKILL, a crash: the files of the shell stay.
Killed(s) ==
  /\ pc[s] # "dead" /\ Return(s, "dead")
  /\ locked' = [locked EXCEPT ![s] = FALSE] /\ mem' = [mem EXCEPT ![s] = {}]
  /\ UNCHANGED <<names, lock, disturbed, file, typed, saves>>

Save(s) ==
  Dotlock(s) \/ DotlockReturns(s) \/ Loadhist(s) \/ Xcreat(s) \/ Rename(s) \/ Cleanup(s)

Next ==
  \E s \in Shells :
    Type(s) \/ Rechist(s) \/ Save(s) \/ XcreatFails(s)
      \/ InterruptedLock(s) \/ InterruptedLoad(s) \/ Killed(s)

Spec     == Init /\ [][Next]_vars
FairSpec == Spec /\ \A s \in Shells : WF_vars(Save(s))

-----------------------------------------------------------------------------
(* Properties.                                                              *)

\* From its link() on until it removes the lock, a shell has the lock.
Owns(s) ==
  pc[s] \in {"stat", "return"} \/ (pc[s] = "unlink" /\ errno[s] = "0") \/ locked[s]

\* At most one shell believes that it has the lock, and while it does there is
\* one, even if two shells use the same unique name, open() fails, a shell is
\* interrupted or killed, and its unique file is left behind.
MutualExclusion ==
  \A s \in Shells : Owns(s) => lock # NONE /\ \A t \in Shells : Owns(t) => t = s

\* A line that was saved by any shell stays in the history file, however the
\* shells that merge it interleave, fail and die.
SavedStays == [][disturbed' = {} => file \subseteq file']_vars

\* There is no lock without a shell that will remove it, unless one was killed.
NoStaleLock ==
  disturbed = {} /\ lock # NONE => \E s \in Shells : Owns(s) \/ pc[s] = "dead"

\* Who wants to save gets the lock and comes to an end (each shell saves a
\* bounded number of times; dot_lock() gives no turns).
EverySaveEnds ==
  \A s \in Shells :
    pc[s] = "lock" ~>
      pc[s] = "typing" \/ disturbed # {} \/ \E t \in Shells : pc[t] = "dead"

=============================================================================
