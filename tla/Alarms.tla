--------------------------------- MODULE Alarms ---------------------------------
(* One SIGALRM for three purposes: the shell arms it whenever it waits for a
   line, for the next scheduled event (tc.sched.c), for $autologout or for the
   lock of the terminal (setalarm(), tc.func.c), and disarms it while commands
   run.  The handler only sets a flag; alrmcatch() runs when it is looked at. *)
EXTENDS Integers, Sequences, SequencesExt, FiniteSetsExt

CONSTANTS
  Minute,     \* clock ticks in a minute
  Start,      \* minute of the day at which the clock starts
  Schedules,  \* arguments of sched: <<hours, minutes, suffix, relative>>
  Logouts,    \* values of $autologout: sequences of minutes
  MaxTime, MaxEvents  \* bounds
AlarmsAssumption ==
  /\ Minute \in Nat \ {0} /\ Start \in Nat
  /\ \A s \in Schedules : s[1] \in Nat /\ s[2] \in Nat
  /\ \A l \in Logouts : l \in Seq(Nat) /\ Len(l) <= 2

VARIABLES
  now,
  sched,      \* the list of events: [when, id]
  alarmAt,    \* when the alarm goes off, or Never
  alm_fun, alrmcatch_pending, alrmcatch_disabled,
  autologout,
  mode,       \* prompt, reading, lexed, command, fg (an editor in the foreground), locked, gone
  tries,      \* for each auto_lock() on the stack, the passwords that are left
  armed,      \* ghost: when setalarm() was called last
  typed,      \* ghost: when the last key was hit
  ran,        \* ghost: the events that were run, in order
  made        \* ghost: the number of events so far
clock == <<alarmAt, alm_fun, alrmcatch_pending, alrmcatch_disabled, armed>>
vars == <<now, sched, clock, autologout, mode, tries, typed, ran, made>>

Never == -1
tod(t) == (Start + t \div Minute) % 1440

(* dosched(): minutes from the start of this minute to the one asked for. *)
Dif(t, s) ==
  LET hours == s[1] + (IF s[3] = "p" THEN 12 ELSE 0)
      h == hours - (tod(t) \div 60)
      m == s[2] - (tod(t) % 60)
      h1 == IF h < 0 THEN h + 24 ELSE h
      h2 == IF m < 0 THEN h1 - 1 ELSE h1
  IN IF s[4] THEN hours * 60 + s[2]
     ELSE (IF h2 < 0 THEN 23 ELSE h2) * 60 + (IF m < 0 THEN m + 60 ELSE m)
WellFormed(s) == s[1] <= 23 /\ s[2] <= 59 /\ (s[4] => s[3] = "")
insert(l, e) ==
  LET k == Max({n \in 0 .. Len(l) : \A i \in 1 .. n : e.when >= l[i].when}) IN InsertAt(l, k + 1, e)
dosched == \/ \E s \in Schedules : /\ WellFormed(s) /\ made < MaxEvents
                                   /\ sched' = insert(sched, [when |-> now - (now % Minute) + Dif(now, s) * Minute, id |-> made + 1])
                                   /\ made' = made + 1
           \/ \E n \in DOMAIN sched : sched' = RemoveAt(sched, n) /\ UNCHANGED made

(* Ticks until the alarm, 0 for none, and what it is for. *)
\* Mutant: an event that is overdue leaves the alarm off.
setalarmOff(lck, l, q) ==
  LET none == IF Len(l) >= 1 /\ l[1] > 0 THEN <<l[1] * Minute, "logout">> ELSE <<0, alm_fun>>
  IN IF q = <<>> \/ Head(q).when < now THEN none ELSE <<Head(q).when - now + 1, "sched">>
setalarm(lck, l, q) ==
  LET logout == IF Len(l) >= 1 THEN l[1] * Minute ELSE 0
      lock == IF Len(l) = 2 THEN l[2] * Minute ELSE 0
      a == IF lck /\ lock > 0 /\ (logout = 0 \/ lock < logout) THEN <<lock, "lock">>
           ELSE IF ~lck /\ lock > 0 /\ logout > 0 THEN <<logout - lock, "logout">>
           ELSE IF logout > 0 THEN <<logout, "logout">> ELSE <<0, alm_fun>>
      dif == Max({0, Head(q).when - now})
  IN IF q # <<>> /\ (a[1] = 0 \/ dif < a[1]) THEN <<dif + 1, "sched">> ELSE a
Arm(lck, l, q) == LET a == setalarm(lck, l, q) IN
  /\ alarmAt' = IF a[1] = 0 THEN Never ELSE now + a[1]
  /\ alm_fun' = a[2]
  /\ alrmcatch_disabled' = FALSE
  /\ armed' = now
Disarm == alarmAt' = Never /\ alrmcatch_disabled' = TRUE /\ UNCHANGED <<alm_fun, armed>>

(* sched_run(): the events that are due, one after the other; each may change
   the list, and an error in one leaves the others for the next prompt. *)
Due(q) == Max({n \in 0 .. Len(q) : \A i \in 1 .. n : q[i].when < now})
Runs(n) == /\ ran' = ran \o [i \in 1 .. n |-> sched[i]]
           /\ sched' = SubSeq(sched, n + 1, Len(sched))

Init == /\ now = 0 /\ sched = <<>> /\ ran = <<>> /\ made = 0
        /\ alarmAt = Never /\ alm_fun = "none" /\ alrmcatch_pending = FALSE /\ alrmcatch_disabled = FALSE
        /\ armed = 0 /\ typed = 0
        /\ autologout \in Logouts
        /\ mode = "prompt"
        /\ tries = <<>>
(* process(): overdue events are run before the prompt, then the alarm is set. *)
Prompt == /\ mode = "prompt"
          /\ \E n \in {Due(sched), Min({1, Due(sched)})} :
               /\ Runs(n)
               /\ IF n < Due(sched) THEN UNCHANGED <<clock, mode>>
                  ELSE Arm(TRUE, autologout, sched') /\ mode' = "reading" /\ UNCHANGED alrmcatch_pending
          /\ UNCHANGED <<now, autologout, tries, typed, made>>
Key == /\ mode = "reading" /\ ~alrmcatch_pending
       /\ typed' = now
       /\ UNCHANGED <<now, sched, clock, autologout, mode, tries, ran, made>>
Enter == /\ mode = "reading"
         /\ mode' = "lexed" /\ typed' = now
         /\ UNCHANGED <<now, sched, clock, autologout, tries, ran, made>>
LexDone == /\ mode = "lexed"
           /\ Disarm /\ mode' = "command"
           /\ UNCHANGED <<now, sched, alrmcatch_pending, autologout, tries, typed, ran, made>>
\* A line of commands, the last of them done.
Command == /\ mode = "command"
           /\ \/ dosched /\ UNCHANGED autologout
              \/ autologout' \in Logouts /\ UNCHANGED <<sched, made>>
           /\ mode' = "prompt"
           /\ UNCHANGED <<now, clock, tries, typed, ran>>
(* fg_proc_entry(): the editor of run-fg-editor. *)
ForegroundEditor == /\ mode = "reading" /\ ~alrmcatch_pending
                    /\ Disarm /\ mode' = "fg" /\ typed' = now
                    /\ UNCHANGED <<now, sched, alrmcatch_pending, autologout, tries, ran, made>>
EditorDone == /\ mode = "fg"
              /\ Arm(TRUE, autologout, sched) /\ mode' = "reading" /\ typed' = now
              /\ UNCHANGED <<now, sched, alrmcatch_pending, autologout, tries, ran, made>>

(* alrmcatch(): alm_fun, then setalarm(1). *)
Caught == mode \in {"reading", "locked"} /\ ~alrmcatch_disabled /\ alrmcatch_pending
\* An event may itself call sched or set autologout, or fail: back to the prompt.
AlarmEvent == /\ Caught /\ alm_fun = "sched"
              /\ alrmcatch_pending' = FALSE
              /\ LET n == Due(sched) IN
                 \/ Runs(n) /\ Arm(TRUE, autologout, sched') /\ UNCHANGED <<autologout, mode, made, tries>>
                 \/ /\ n > 0 /\ Runs(Min({1, n})) /\ mode' = "prompt" /\ tries' = <<>>
                    /\ UNCHANGED <<autologout, made, alarmAt, alm_fun, alrmcatch_disabled, armed>>
                 \/ \E s \in Schedules :
                      /\ n > 0 /\ WellFormed(s) /\ s[4] /\ Dif(now, s) > 0 /\ made < MaxEvents
                      /\ ran' = ran \o SubSeq(sched, 1, n) /\ made' = made + 1
                      /\ sched' = insert(SubSeq(sched, n + 1, Len(sched)),
                                         [when |-> now - (now % Minute) + Dif(now, s) * Minute, id |-> made + 1])
                      /\ Arm(TRUE, autologout, sched') /\ UNCHANGED <<autologout, mode, tries>>
              /\ UNCHANGED <<now, typed>>
auto_lock == /\ Caught /\ alm_fun = "lock"
             /\ alrmcatch_pending' = FALSE
             /\ Arm(FALSE, autologout, sched)
             /\ mode' = "locked" /\ tries' = Append(tries, 5)
             /\ UNCHANGED <<now, sched, autologout, typed, ran, made>>
auto_logout == /\ Caught /\ alm_fun = "logout"
               /\ alrmcatch_pending' = FALSE
               /\ mode' = "gone"
               /\ UNCHANGED <<now, sched, alarmAt, alm_fun, alrmcatch_disabled, armed, autologout, tries, typed, ran, made>>
Password == /\ mode = "locked" /\ ~alrmcatch_pending
            /\ \/ /\ tries' = Front(tries) /\ mode' = IF Len(tries) = 1 THEN "reading" ELSE "locked"
                  /\ Arm(TRUE, autologout, sched)
               \/ /\ tries' = [tries EXCEPT ![Len(tries)] = @ - 1]
                  /\ mode' = IF Last(tries) = 1 THEN "gone" ELSE "locked"
                  /\ UNCHANGED <<alarmAt, alm_fun, alrmcatch_disabled, armed>>
            /\ typed' = now
            /\ UNCHANGED <<now, sched, alrmcatch_pending, autologout, ran, made>>
(* The clock; the shell looks at a signal at once when it waits. *)
Tick == /\ now < MaxTime /\ ~Caught /\ mode \notin {"prompt", "lexed", "gone"}
        /\ now' = now + 1
        /\ alrmcatch_pending' = (alrmcatch_pending \/ alarmAt = now + 1)
        /\ alarmAt' = IF alarmAt = now + 1 THEN Never ELSE alarmAt
        /\ UNCHANGED <<sched, alm_fun, alrmcatch_disabled, armed, autologout, mode, tries, typed, ran, made>>
\* The alarm goes off between the end of the line and alarm(0).
LateAlarm == /\ mode = "lexed" /\ alarmAt = now + 1 /\ now < MaxTime
             /\ now' = now + 1 /\ alarmAt' = Never /\ alrmcatch_pending' = TRUE
             /\ UNCHANGED <<sched, alm_fun, alrmcatch_disabled, armed, autologout, mode, tries, typed, ran, made>>
Next == \/ Prompt \/ Key \/ Enter \/ LexDone \/ Command \/ ForegroundEditor \/ EditorDone
        \/ AlarmEvent \/ auto_lock \/ auto_logout \/ Password \/ Tick \/ LateAlarm
Spec == Init /\ [][Next]_vars

(* Scheduled events are run when they are due, each once, the earliest first and
   those of one minute in the order they were given. *)
RunsInOrder ==
  \A i \in Len(ran) + 1 .. Len(ran') :
       /\ ran'[i].when < now
       /\ \A j \in DOMAIN sched' : \/ ran'[i].when < sched'[j].when
                                   \/ ran'[i].when = sched'[j].when /\ ran'[i].id < sched'[j].id
       /\ \A j \in 1 .. i - 1 : ran'[j].id # ran'[i].id
(* The shell never waits without a clock: while it reads a line or a password
   the alarm is set for the next event, or there was one, and no wait is longer
   than $autologout allows. *)
WaitsOnTheClock ==
  mode \in {"reading", "locked"} /\ ~alrmcatch_pending =>
    /\ sched # <<>> => alarmAt # Never /\ alarmAt <= Max({Head(sched).when, armed}) + 1
    /\ mode = "reading" /\ autologout # <<>> /\ autologout[1] > 0 => now < armed + autologout[1] * Minute
=============================================================================
