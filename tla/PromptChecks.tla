------------------------------ MODULE PromptChecks ------------------------------
(* What the shell looks after before each prompt besides logins and scheduled
   events: new mail (mailchk(), sh.c) and the alias periodic (period_cmd(),
   tc.func.c). *)
EXTENDS Integers, FiniteSets

CONSTANTS
  Boxes,     \* mail files
  Dirs,      \* those that are directories of messages
  Intvl,     \* seconds between two looks at the mail, at least one
  Tperiods,  \* values of $tperiod: seconds, or Unset, or Bad (not a number)
  MaxTime    \* bound
PromptChecksAssumption == Dirs \subseteq Boxes /\ Intvl \in Nat

VARIABLES
  now,
  box,       \* of each mail file: [size, atime, mtime]
  loginsh, chktim, seconds0,
  told,      \* the mail files named at this prompt
  tperiod, t_period, periodic_active,
  alias,     \* what the alias periodic is: "none", "good", "error" (a command that fails), "syntax"
  ranAt,     \* ghost: when it was run last, or -1
  unseen     \* ghost: the boxes with mail that no look has seen
mail == <<box, loginsh, chktim, seconds0, told, unseen>>
period == <<tperiod, t_period, periodic_active, alias, ranAt>>
vars == <<now, mail, period>>

Unset == -1
Bad == -2
intvl == IF Intvl < 1 THEN 1 ELSE Intvl
isNew(b) == box[b].mtime > seconds0
HasMail(b) ==
  /\ IF b \in Dirs THEN box[b].size > 0 /\ box[b].mtime > chktim + 1
     ELSE box[b].size > 0 /\ box[b].atime < box[b].mtime /\ (box[b].atime > chktim \/ box[b].mtime > chktim)
  /\ ~(loginsh /\ ~isNew(b))

Init == /\ now = 1
        /\ box = [b \in Boxes |-> [size |-> 0, atime |-> 0, mtime |-> 0]]
        /\ loginsh \in BOOLEAN /\ seconds0 = 1
        /\ chktim = IF loginsh THEN 1 ELSE 0
        /\ told = {} /\ unseen = {}
        /\ tperiod \in Tperiods /\ t_period = 1 /\ periodic_active = FALSE
        /\ alias = "none" /\ ranAt = -1
Tick == now < MaxTime /\ now' = now + 1 /\ UNCHANGED <<mail, period>>
Deliver == \E b \in Boxes :
  /\ box[b].size < 2
  /\ box' = [box EXCEPT ![b].size = @ + 1, ![b].mtime = now]
  /\ unseen' = unseen \cup {b}
  /\ UNCHANGED <<now, loginsh, chktim, seconds0, told, period>>
\* The user reads a box and leaves the mail in it; a directory knows no such time.
ReadMail == \E b \in Boxes \ Dirs :
  /\ box[b].size > 0
  /\ box' = [box EXCEPT ![b].atime = now]
  /\ unseen' = unseen \ {b}
  /\ UNCHANGED <<now, loginsh, chktim, seconds0, told, period>>
mailchk == IF chktim + intvl > now THEN told' = {} /\ UNCHANGED <<chktim, unseen>>
           ELSE told' = {b \in Boxes : HasMail(b)} /\ chktim' = now /\ unseen' = {}
(* aliasrun(): an error in a command of the alias is caught there; one in its
   syntax, as one in $tperiod, is not, and leaves periodic_active set. *)
Runs(a) == ranAt' = now /\ periodic_active' = (a = "syntax")
period_cmd ==
  \/ periodic_active /\ alias' = "none" /\ periodic_active' = FALSE /\ UNCHANGED <<t_period, ranAt>>
  \/ ~periodic_active /\ alias = "none" /\ UNCHANGED <<alias, periodic_active, t_period, ranAt>>
  \/ ~periodic_active /\ alias # "none" /\ UNCHANGED alias /\
     CASE tperiod = Unset -> Runs(alias) /\ UNCHANGED t_period
       [] tperiod = Bad -> periodic_active' = TRUE /\ UNCHANGED <<t_period, ranAt>>
       [] OTHER -> IF now - t_period >= tperiod THEN t_period' = now /\ Runs(alias)
                   ELSE UNCHANGED <<t_period, periodic_active, ranAt>>
\* The checks of one prompt; an error ends them and the prompt is tried again.
Prompt == mailchk /\ period_cmd /\ UNCHANGED <<now, box, loginsh, seconds0, tperiod>>
SetPeriodic == /\ alias' \in {"none", "good", "error", "syntax"} /\ tperiod' \in Tperiods
               /\ ~periodic_active
               /\ UNCHANGED <<now, mail, t_period, periodic_active, ranAt>>
Next == Tick \/ Deliver \/ ReadMail \/ Prompt \/ SetPeriodic
Spec == Init /\ [][Next]_vars

(* Mail is told of once: what came since the last look, and only that.  A message
   is missed only when it comes in the second of a look (two seconds for a
   directory) or of the user's reading, or before a login shell was started. *)
TellsOnce ==
  Prompt /\ chktim' # chktim =>
       /\ told' \subseteq unseen
       /\ \A b \in unseen \ told' : \/ box[b].mtime <= chktim + (IF b \in Dirs THEN 1 ELSE 0)
                                    \/ loginsh /\ box[b].mtime <= seconds0
                                    \/ b \notin Dirs /\ box[b].mtime = box[b].atime
=============================================================================
