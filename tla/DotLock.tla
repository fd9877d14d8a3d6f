------------------------------ MODULE DotLock ------------------------------
(***************************************************************************)
(* dot_lock() and dot_unlock() (dotlock.c), as several shells run them for *)
(* the same file: a file of a mostly unique name is created and linked to  *)
(* the name of the lock, and the one who sees two links has the lock.      *)
(*                                                                         *)
(* The directory is the set of the unique names in it, names, and what the *)
(* name of the lock refers to: the file of the unique name that it is a    *)
(* link to as long as there is that name, then GONE.  The steps are those  *)
(* of the system calls; a signal that dot_lock() blocks or a module that   *)
(* uses it does the rest.                                                  *)
(***************************************************************************)
EXTENDS Naturals, FiniteSets

CONSTANTS
  Shells,
  Cookies,      \* hostname.(pid ^ usec), of which there are two with luck
  MaxTries      \* dotlock.c:79, 5: how often open() is tried

NONE == "none"                         \* there is no lock
GONE == "gone"                         \* its unique name is no longer there

ASSUME DotLockAssumption ==
  /\ MaxTries \in Nat \ {0}
  /\ Cookies # {} /\ NONE \notin Cookies /\ GONE \notin Cookies

VARIABLES
  names, lock,
  pc,           \* where a shell is: here or in the module that uses the lock
  cookie, tries, errno,    \* of create_exclusive() in a shell
  disturbed     \* ghost: what has happened so far that the lock does not withstand

dotlock == <<names, lock, pc, cookie, tries, errno, disturbed>>

Exclusive  == {"open", "link", "stat", "unlink"}         \* in create_exclusive()
DotLockPcs == {"lock", "return"} \cup Exclusive

NoCookie == CHOOSE c \in Cookies : TRUE  \* the value of no use of a local variable

Goto(s, place) == pc' = [pc EXCEPT ![s] = place]
Fails(s, e)    == errno' = [errno EXCEPT ![s] = e]

DotLockInit(idle) ==
  /\ names = {} /\ lock = NONE /\ disturbed = {}
  /\ pc = [s \in Shells |-> idle]
  /\ cookie = [s \in Shells |-> NoCookie]
  /\ tries = [s \in Shells |-> 0] /\ errno = [s \in Shells |-> "0"]

\* create_exclusive() returns, and its local variables are gone.
Return(s, place) ==
  /\ Goto(s, place)
  /\ cookie' = [cookie EXCEPT ![s] = NoCookie]
  /\ tries'  = [tries EXCEPT ![s] = 0]
  /\ errno'  = [errno EXCEPT ![s] = "0"]

-----------------------------------------------------------------------------
(* create_exclusive().                                                      *)

Gettimeofday(s) ==
  /\ pc[s] = "lock" /\ Goto(s, "open")
  /\ \E c \in Cookies :
       /\ cookie' = [cookie EXCEPT ![s] = c]
       /\ disturbed' =
            IF \E t \in Shells \ {s} : pc[t] \in Exclusive /\ cookie[t] = c
            THEN disturbed \cup {"collision"} ELSE disturbed
  /\ UNCHANGED <<names, lock, tries, errno>>

Open(s) ==
  /\ pc[s] = "open" /\ cookie[s] \notin names
  /\ names' = names \cup {cookie[s]} /\ Goto(s, "link")
  /\ UNCHANGED <<lock, cookie, tries, errno, disturbed>>

\* EEXIST: once more, and after the last time all the same on to link().
OpenExists(s) ==
  /\ pc[s] = "open" /\ cookie[s] \in names
  /\ tries' = [tries EXCEPT ![s] = @ + 1]
  /\ Goto(s, IF tries'[s] = MaxTries THEN "link" ELSE "open")
  /\ UNCHANGED <<names, lock, cookie, errno, disturbed>>

\* Another error: dot_lock() gives up, and its caller goes on without the lock.
OpenFails(s, unlocked) ==
  /\ pc[s] = "open" /\ Return(s, unlocked)
  /\ disturbed' = disturbed \cup {"open"}
  /\ UNCHANGED <<names, lock>>

Link(s) ==
  /\ pc[s] = "link" /\ cookie[s] \in names /\ lock = NONE
  /\ lock' = cookie[s] /\ Goto(s, "stat")
  /\ UNCHANGED <<names, cookie, tries, errno, disturbed>>

LinkFails(s) ==
  /\ pc[s] = "link" /\ (cookie[s] \in names => lock # NONE)
  /\ Fails(s, IF cookie[s] \notin names THEN "ENOENT" ELSE "EEXIST")
  /\ Goto(s, "unlink")
  /\ UNCHANGED <<names, lock, cookie, tries, disturbed>>

\* Two links are success, one is EEXIST.
Stat(s) ==
  /\ pc[s] = "stat" /\ Goto(s, "unlink")
  /\ Fails(s, IF cookie[s] \notin names THEN "ENOENT"
              ELSE IF lock # cookie[s] THEN "EEXIST" ELSE "0")
  /\ UNCHANGED <<names, lock, cookie, tries, disturbed>>

\* Mutant: any error is one to give up for.
UnlinkGivesUp(s, unlocked) ==
  /\ pc[s] = "unlink"
  /\ names' = names \ {cookie[s]}
  /\ lock' = IF lock = cookie[s] THEN GONE ELSE lock
  /\ Return(s, IF errno[s] = "0" THEN "return" ELSE unlocked)
  /\ UNCHANGED disturbed

\* The unique name is removed; dot_lock() returns, polls again or gives up.
Unlink(s, unlocked) ==
  /\ pc[s] = "unlink"
  /\ names' = names \ {cookie[s]}
  /\ lock' = IF lock = cookie[s] THEN GONE ELSE lock
  /\ Return(s, CASE errno[s] = "0" -> "return"
                 [] errno[s] = "EEXIST" -> "lock"
                 [] OTHER -> unlocked)
  /\ UNCHANGED disturbed

\* Mutant: the unique name is given instead of the name of the lock.
dot_unlockUnique(s) == names' = names \ {cookie[s]} /\ lock' = lock

dot_unlock(s) == lock' = NONE /\ names' = names

CreateExclusive(s, unlocked) ==
  \/ Gettimeofday(s) \/ Open(s) \/ OpenExists(s) \/ OpenFails(s, unlocked)
  \/ Link(s) \/ LinkFails(s) \/ Stat(s) \/ Unlink(s, unlocked)
=============================================================================
