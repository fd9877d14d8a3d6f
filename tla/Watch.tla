---------------------------------- MODULE Watch ----------------------------------
(* Telling of logins and logouts (tc.who.c): before a prompt the shell compares
   the login records of the system with the list of terminals it keeps. *)
EXTENDS Integers

CONSTANTS
  Ttys, Users,
  Watched,   \* the terminals that $watch names
  Interval,  \* time between two checks
  MaxTime    \* bound
WatchAssumption == "" \notin Users /\ Watched \subseteq Ttys /\ Interval \in Nat

VARIABLES
  now,
  utmp,          \* terminals that are in use -> [name, time]
  mtime,         \* of the file of login records
  list,          \* terminals that were ever seen -> [name, new, status, time]
  watch_period,  \* time of the last check
  stlast,        \* mtime of the records at that check
  watch,         \* $watch is set
  told,          \* what the last check printed: <<terminal, in or out, user>>
  known          \* ghost: who was on each terminal when the records were last read
vars == <<now, utmp, mtime, list, watch_period, stlast, watch, told, known>>

Who(t) == IF t \in DOMAIN utmp THEN utmp[t].name ELSE ""
Cleared == {"offline", "cleared"}

(* One record against the entry of its terminal. *)
Update(e, r) ==
  IF r.time < e.time THEN [e EXCEPT !.status = Cleared]
  ELSE IF r.name = e.name THEN [e EXCEPT !.time = r.time, !.status = {"online", "announce"}]
  ELSE [e EXCEPT !.new = r.name, !.time = r.time, !.status = IF e.name = "" THEN {"online"} ELSE {"changed"}]
NewTty(r) == [name |-> "", new |-> r.name, time |-> r.time, status |-> {"online"}]
\* Mutant: nobody is marked as gone before the records are read.
ReadStale ==
  [t \in DOMAIN list \cup DOMAIN utmp |->
     IF t \notin DOMAIN list THEN NewTty(utmp[t]) ELSE IF t \in DOMAIN utmp THEN Update(list[t], utmp[t]) ELSE list[t]]
Read ==
  [t \in DOMAIN list \cup DOMAIN utmp |->
     IF t \notin DOMAIN list THEN NewTty(utmp[t])
     ELSE IF t \in DOMAIN utmp THEN Update(list[t], utmp[t])
     ELSE [list[t] EXCEPT !.status = Cleared]]
Interesting(t, e) == t \in Watched /\ "announce" \notin e.status
(* What is printed of an entry, and the entry after it. *)
Printed(e) == CASE "offline" \in e.status /\ e.name # "" -> {<<"out", e.name>>}
                [] "online" \in e.status -> {<<"in", e.new>>}
                [] "changed" \in e.status -> {<<"in", e.new>>}
                [] OTHER -> {}
Announced(e) ==
  LET c == IF "cleared" \in e.status THEN [e EXCEPT !.time = now, !.status = @ \ {"cleared"}] ELSE e
  IN CASE "offline" \in c.status /\ c.name # "" -> [c EXCEPT !.name = "", !.status = @ \cup {"announce"}]
       [] c.status \cap {"online", "changed"} # {} -> [c EXCEPT !.name = c.new, !.status = @ \cup {"announce"}]
       [] OTHER -> c

initwatch == list = <<>> /\ stlast = -1
resetwatch == watch_period' = -Interval /\ stlast' = -2
Init == /\ now = 0 /\ utmp = <<>> /\ mtime = 0
        /\ initwatch
        /\ watch_period = -Interval
        /\ watch = FALSE
        /\ told = {}
        /\ known = [t \in Ttys |-> ""]
(* The system. *)
Login == \E t \in Ttys \ DOMAIN utmp, u \in Users :
  /\ utmp' = [x \in DOMAIN utmp \cup {t} |-> IF x = t THEN [name |-> u, time |-> now] ELSE utmp[x]]
  /\ mtime' = now
  /\ UNCHANGED <<now, list, watch_period, stlast, watch, told, known>>
Logout == \E t \in DOMAIN utmp :
  /\ utmp' = [x \in DOMAIN utmp \ {t} |-> utmp[x]]
  /\ mtime' = now
  /\ UNCHANGED <<now, list, watch_period, stlast, watch, told, known>>
Tick == now < MaxTime /\ now' = now + 1 /\ UNCHANGED <<utmp, mtime, list, watch_period, stlast, watch, told, known>>
(* The shell. *)
SetWatch == watch' = TRUE /\ resetwatch /\ UNCHANGED <<now, utmp, mtime, list, told, known>>
UnsetWatch == watch /\ watch' = FALSE /\ UNCHANGED <<now, utmp, mtime, list, watch_period, stlast, told, known>>
Forget == list' = [t \in DOMAIN list |-> [list[t] EXCEPT !.name = ""]] /\ resetwatch
dolog == watch /\ Forget /\ known' = [t \in Ttys |-> ""] /\ UNCHANGED <<now, utmp, mtime, watch, told>>
\* watch_login(0), before every prompt.
watch_login ==
  /\ watch /\ now - watch_period >= Interval
  /\ watch_period' = now
  /\ IF stlast = mtime THEN told' = {} /\ UNCHANGED <<list, stlast, known>>
     ELSE LET l == Read IN
       /\ stlast' = mtime
       /\ list' = [t \in DOMAIN l |-> IF Interesting(t, l[t]) THEN Announced(l[t]) ELSE l[t]]
       /\ told' = IF stlast = -1 THEN {}
                  ELSE UNION {{<<t, p[1], p[2]>> : p \in Printed(l[t])} : t \in {x \in DOMAIN l : Interesting(x, l[x])}}
       /\ known' = [t \in Ttys |-> Who(t)]
  /\ UNCHANGED <<now, utmp, mtime, watch>>
Next == Login \/ Logout \/ Tick \/ SetWatch \/ UnsetWatch \/ dolog \/ watch_login
Spec == Init /\ [][Next]_vars

(* A check tells exactly what has changed on the watched terminals since the
   records were last read: each new user once, and a logout unless somebody
   else has taken the terminal since. *)
TellsChanges ==
  watch_login =>
       told' = IF stlast' = stlast THEN {}
               ELSE {<<t, "in", Who(t)>> : t \in {x \in Watched : Who(x) \notin {"", known[x]}}}
                 \cup {<<t, "out", known[t]>> : t \in {x \in Watched : known[x] # "" /\ Who(x) = ""}}
=============================================================================
