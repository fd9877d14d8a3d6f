# A TLA+ model of mcsh

`mcsh` (the Modern C Shell) is a fork of tcsh: an interactive C shell in flat C
files, some 60,000 lines with the editor. This directory holds TLA+ modules that
model its state machines, TLC configurations that check them on small instances,
and theorems about them with proofs for TLAPS. Paths below are relative to the
repository (`sh.proc.c:647` is line 647 of `src/sh.proc.c`); PROJECT.json maps
every definition of the modules to the lines it stands for, and lists the
components, the runs, the hazards with the properties that guard against them, the
two findings and the theorems.

Contents: 1 the system, 2 the modules, 3 job control, 4 the history list, 5 the history
file, 6 the parts of the shell, 7 the way of a line, 8 the editor and completion, 9 runs and
bounds, 10 fairness, 11 proofs, 12 where the code differs from what it says, 13 what is not
modelled, 14 what is left to do.

## 1. The system

The shell is one process and one thread. Its concurrency comes from outside:
children change state whenever they like, signals arrive between any two
instructions, other shells share the history file, and the editor, the alarm
clock and the hooks (`precmd`, `jobcmd`, `periodic`...) call back into the command
interpreter from the middle of other routines. Since 6.21 signal handlers only
set a flag (`tc.sig.c:60-105`); the work is done by `handle_pending_signals()`,
which runs before reads and writes and wherever a routine asks for it. So the
interesting interleavings are those between a routine that writes (prints a line,
say) and what a pending signal does in the middle of it.

| Component | State it keeps | Operations | Interacts with | What is hard, and what makes it correct |
|---|---|---|---|---|
| Process table, `sh.proc.c` | `proclist`, rings `p_friends`, `pcurrjob`, `pholdjob`, `pcurrent`, `pprevious`, `pmaxindex`, `neednote` | `palloc`, `pchild`, `pflush`, `pclrcurr`, `pgetcurr`, `pendjob`, `psavejob`, `pstart` | everything that forks | rings without a leader make every walk endless; freed memory; job numbers and `%+`/`%-` that dangle; a job nobody reports |
| Job control, `sh.proc.c`, `tc.sig.c`, `sh.sem.c`, `sh.c` | SIGCHLD blocked/pending/disabled, what the shell waits for, the half-built pipeline | `process`, `execute`, `pfork`, `pjwait`, `dowait`, `fg`, `bg`, `jobs`, `notify`, the alias `jobcmd` | process table, hooks, kernel | orders of stops, ends and reaps; lost wake-ups; `fork()` failing in a pipeline; reused pids; every wait returns, every ended job is reported |
| History, `sh.hist.c` | the doubly linked `Histlist`, its length, `histMerg`, a hash table with tombstones | `enthist`, `savehist`, `rechist`, `loadhist`, `dohist` | dot lock, main loop, other shells | `histdup`, merging of files of several sessions, crash between write and rename |
| Dot lock, `dotlock.c` | the lock file and a unique name linked to it | `dot_lock`, `dot_unlock` | history | two holders, stale locks, an unlock by someone who never held it |
| Scheduler and alarms, `tc.sched.c`, `tc.func.c:500-960` | `sched_ptr` sorted by time, the alarm | `sched`, `sched_run`, `setalarm`, `period_cmd`, `auto_logout` | editor (reads), hooks | commands that schedule commands; missed or double runs; order of equal times |
| Error unwinding, `sh.err.c` | the cleanup stack with marks, `seterr` | `cleanup_push`, `cleanup_until`, `cleanup_push_mark`, `stderror`, `reset` | everything | each resource released exactly once, on the right level |
| Main loop, `sh.c` | nesting of `process()`, input source, `setintr`, `exitset` | `process`, `dosource`, `srcunit`, `pintr` | lexer, history, job control, editor | unwinding to the right loop, exits with stopped jobs |
| Lexer and history substitution, `sh.lex.c` | `Bin` (buffered, seekable input), `peekc`, `alvec`, `lap` | `lex`, `getexcl`, `readc`, `bseek`, `btell` | main loop, loops | seeks over refilled buffers, alias loops |
| Parser, `sh.parse.c` | syntax trees | `syntax`, `alias`, `asyntax`... | aliases, execution | alias loops end, precedence of `;` `&` `&&` and pipes |
| Execution, `sh.sem.c`, `sh.misc.c` | saved descriptors `SHIN`..`OLDSTD`, `didfds` | `execute`, `doio`, `dmove`, `closem` | job control, builtins | builtins with redirections in the shell itself, errors half way |
| Flow control, `sh.func.c` | `whyles` stack, gotos, `wfree` | `dowhile`, `doforeach`, `doend`, `dobreak`, `doagain`, `preread` | lexer | loops nested in sourced files; what is skipped and re-read |
| Expressions, `sh.exp.c` | none | `exp0`...`exp6` | variables | precedence, short circuit, width of integers |
| Variables and aliases, `sh.set.c` | AVL trees | `adrof`, `set1`, `unset`, `balance` | everything | balance, read-only variables |
| Directory stack, `sh.dir.c` | the ring `dhead`, `dcwd` | `dochngd`, `dopushd`, `dopopd`, `dcanon` | prompt | rotation, a directory in use freed, the ring losing its head |
| Command hash, `sh.exec.c` | the bit table `xhash`, `hashwidth` | `dohash`, `execash`, `iscommand` | path variable | stale entries must not hide commands |
| Substitution, `sh.dol.c`, `sh.glob.c`, `glob.c` | `Dcp`, `dolp`, modifiers | `Dfix`, `globall`, `dobackp`, `glob` | lexer, execution | pattern matching, nesting of backquotes |
| Output buffer, `sh.print.c` | `linbuf`, `linp` | `putraw`, `flush` | signals | a flush nested in a flush |
| Editor, `ed.*.c`, `tc.bind.c` | input buffer, cursor, mark, kill ring, undo, key-map trie, displayed lines | about 200 commands | history, completion, signals | buffer bounds, undo of undo, display equal to the buffer |
| Syntax highlighting, `ed.syntax.c` | cache of command lookups | `syntax_*` | editor, path | stale entries |
| Completion, spelling, `tw.*.c` | candidate lists and iterators | `tenematch`, `t_search`, `spell_me` | editor | longest common prefix, duplicates |
| Prompt and git, `tc.prompt.c` | cached git status | `tprintf` | children | cache freshness |
| Watch, `tc.who.c` | the list of sessions | `watch_login` | alarms | log-ins and outs between two readings |

The rest (`sysinfo.c`, `sh.time.c`, `tc.str.c`, `tc.alloc.c`, `tc.os.c`, ...) prints, converts or
adapts to systems. PROJECT.json lists every component with its status.

## 2. The modules

| Modules | Model | Kind |
|---|---|---|
| ProcTable -> JobControl -> MCJobControl | processes, jobs, signals (section 3) | state machine over tables, composed by EXTENDS |
| HistHash -> HistList -> MCHistList | the history list and its hash table (4) | state machine over an open-addressing table |
| DotLock -> HistFile | several shells that save one history file (5) | concurrent protocol with crashes |
| Descriptors -> Interp | process(), files, eval, functions, hooks, errors, interrupts, redirections (6) | call stack machine |
| Loops -> MCLoops | foreach, while, if, switch, goto, break (6) | machine against a definition by nesting |
| DirPaths -> DirStack, refines DirSeq | the directory stack (6) | implementation of an abstract specification |
| VarTree -> Vars | variables, aliases, what follows them (6) | AVL tree and mirrors |
| PathHash, Alarms, Watch, PromptChecks, Exp | commands' hash, SIGALRM, logins, mail and periodic, expressions (6) | one module each |
| HistSubst, Lex, Parse, Dol, Glob | the way of a line (7) | algorithms against reference definitions |
| EdBuffer -> EdHistory -> EdCommands -> Editor | the editor's commands and its input loop (8) | state machine |
| KeyMaps, Complete, CompRules, CmdList | keys, completion, rules of `complete`, list of commands (8) | one module each |
| MCShell, MCLines, MCEditing | values for TLC and the properties of several components each | model-checking modules |
| ProcTableProofs, JobControlProofs, JobSafetyProofs, JobReportProofs, HistProofs, HistFileProofs, InterpProofs, ShellProofs | proofs (11) | TLAPS |

An arrow is EXTENDS. MCShell, MCLines and MCEditing INSTANCE the components: their variable `part` chooses, in the
initial state, which component works in a behaviour, and `s1`, `s2`, ... are that component's variables ("off"
where it has fewer). So each component is checked on its own, with its own constants (the definitions
`...MC`), and a run says which parts it takes. The components that do interact are composed: the table with job control,
the hash with the history list, the lock with the file, descriptors with the interpreter, the tree with the variables, paths
with the directory stack, the buffer with the editor's commands and its loop. CompRules and CmdList give Complete what
it asks for as constants (`rule`, `Commands`).

C code that runs without interference (no signal is handled, no other process looks) is one step; a routine
that only computes is an operator with the routine's name. Loops over data are sets, functions and folds; recursive
operators are only in modules about which nothing is proved.

## 3. Job control: ProcTable, JobControl, MCJobControl

### What stands for what

**ProcTable** is the data: one record `T` of type `Tables` holds the list `proclist` with the
fields of every `struct process` (`p_procid`, `p_jobid`, `p_flags`, `p_index`, the ring `p_friends`) and the
global variables beside it. A struct is a *slot*, a number in `1..MaxProcs`, given out in the
order `palloc()` creates them; `proclist` is searched from the newest on, hence
`Greatest`. A ring is the set of slots with the same `job`, the process that started
it. Freed structs go to `freed`, so that a ring that still has one is a use after free. Every C routine
that changes the table is an operator of the same name from tables to tables
(`palloc`, `pflush`, `pclrcurr`, `pchild`, `pstart`, ...); `LeadersOf` and `WalkEnds` are the walk
`while (pp->p_procid != pp->p_jobid) pp = pp->p_friends` with which almost all of them begin.

**JobControl** is the control: the kernel (`kst`, `news`, `pgrp`: what a pid does, which status is
not collected yet, its group), the signal state of the shell, and `pc`:

| `pc` | the shell is in |
|---|---|
| `top` | `process()` before `pendjob()` and `pnote()` (`sh.c:1946-1966`) |
| `note` | the loop of `pnote()`, which prints |
| `cmd` | between the commands of a line, reading or executing something else |
| `fork` | `execute()`, with `todo` commands of the pipeline still to fork |
| `start` | `pstart()`, after the table and before `killpg()`; `pchild_disabled` is set |
| `wait`, `pre`, `susp` | `pjwait()`/`dowait()`: before the test of `PRUNNING`, after it, in `sigsuspend()` |
| `jobs` | the loop of `dojobs()`, which prints a process per step |
| `hung` | a walk that never ends or reads freed memory |

Actions are named after routines. The handler is three of them: `HandlePending` (only at
the points where the shell does I/O, `SignalPoints`), `Wait3(i)` for each status `wait3()` returns (in any
order, as the kernel gives none), and `PchildReturns`. Between two signal points the C code
runs without interference and is one step. `Fork(i)` includes `setpgid()` and its failure path (the leader is dead
and collected: `sh.proc.c:1899-1908`). `Hook(i)` is the alias `jobcmd` with a command that
forks: `job_cmd()` saves `pcurrjob`, `aliasrun()` runs a `process()` of its own.

**MCJobControl** adds the symmetry of the pids, which only `FairSpec`'s runs may not use.

### Properties

* `NeverHung`: no walk hangs and none reads freed memory. It needs that `pflush()`, which clears `p_procid` of a
  whole ring, and `fg`'s error path, which clears one, agree with all walkers.
* `CurrentPrevious`: `%+` and `%-` are NULL or different jobs, over any history of starts, stops, ends and flushes.
* `RunningExists`: table and kernel agree, in whatever order statuses come and however pids are reused.
* `WaitsForForeground`: `pjwait()` never waits for a process of the background, one of the program's own "BUG:" messages.
* `NeverFlushedTwice`: the message "BUG: process flushed twice" is never printed. It fails with `notify`: that is the finding of the run
  `bug_flushed_twice` (section 9), and where nobody but the walker can flush it says nothing, so no passing run has it.
* `NeverForgotten`: an ended job that nobody waits for is on its way to be reported.
* `WaitReturns`, `EventuallyFlushed` (liveness): no SIGCHLD is lost between the test and `sigsuspend()`; every ended job is
  reported and flushed.
* `JobNumbers`: job numbers identify jobs, also once `BIGINDEX` makes them be reused (proved, section 11).

What is not claimed, because it fails: `pgetcurr()` prefers only jobs whose *leader* is stopped (`sh.proc.c:685-700`), so `%+`
need not be a suspended job although there is one.

### Left out of job control

The owner of the terminal and `tcsetpgrp()`, `$status` and `p_reason`, times, the printing itself, `hup` and `kill` of other
signals (they act through the kernel's actions), the jobs of backquotes (their use of `pholdjob` is that of the hook),
builds with vfork (not the default on Linux or BSD), `^C` while a foreground job is waited for except through the
state `PINTERRUPTED` of the job. After a longjmp to `process()` the signal mask is that of the loop, as
`cleanup_push(&omask, sigprocmask_cleanup)` restores it.

## 4. The history list: HistHash, HistList, MCHistList

### What stands for what

**HistHash** is the hash table alone (`sh.hist.c:628-878`): a table is a function from `0..length-1` to entries, an entry the
number of a `struct Hist`, `EMPTY` (`emptyHTE`) or `DELETED` (`deletedHTE`). `Put`, `remove` (with the emptying of place
holders that nothing is behind), `Search`, `find` (which rebuilds a table with too many place holders), `create`, `insert` and
`Build` (growth while the table is being filled) follow the C functions. A failing `assert()` is the result `ABORT`. The hash function
(`lookup3`) is a parameter of HistList, `HashOf`.

**HistList** composes it with the list. One record `H` holds `Histlist` (as the sequence `list`, newest first, over `hist`),
`histMerg`, the table and `eventno`, so that `enthist`, `discardExcess`, `hremove`, `mergeInsertionPoint` and `bubbleHnumHrefDown` are operators of
the source's names. Actions are what calls them: `Type` (a line at the prompt, `savehist`), `Load` (a line of `history -M` or
`-L` with its time), `Dosub` (the dummy entry that a `:s` modifier leaves while the line is read) and `ThrowAway` (`readc()` at the end of
a substitution), `Refer` (`!n`), `Cleanhist` (after a hook), `Clear` (`history -c`), `Sethistory`, `SetHistdup`. Words are abstract: `heq()` is
equality, and dummies, which lack the newline, equal no line.

### Properties

`TableMatchesList`: the table holds exactly the list, each entry is found, and no assert fails. `NoNewDuplicates`: with `histdup` no
duplicate gets past the table. `EventsInOrder`: the list is sorted by number, numbers are not used twice and none is
out of range. `RecentKept`: the last `history` events and those referred to lately stay. `MergedOnce`: a line that is merged twice is
there once. All five are proved for any size of list and table, with dummies or without as in the runs (section 11).

`EventsInOrder` fails with dummies, also without a merge: with `histdup` `all` or `prev` a dummy that equals an
earlier dummy decrements `eventno`, which was not incremented for it (`sh.hist.c:968`, `973`), so that two events get
one number, though the man page says these options "renumber history events so there are no gaps"; and a merge may give an event
the number of the dummy before it. `hist_events` has no dummies, `hist_table` has. `MergedOnce` leaves out `all` and `prev`, which
change the time of an entry in its place, as the source's comment at `sh.hist.c:1011` says; `RecentKept` leaves out `erase`, which
may merge a line again as an older event.

## 5. The history file: DotLock, HistFile

### What stands for what

**DotLock** is `dotlock.c`, one action per system call of `create_exclusive()`, for any number of shells. The directory is the set `names` of unique names
and `lock`, which refers to the file of the unique name it was linked to, or to `GONE` when that name has been removed: so
`st_nlink` is 2 exactly if `lock` is the shell's cookie. It has the actions and no specification of its own; the last argument says where its caller goes without the lock.

**HistFile** is `rechist()` of shells with `savehist = (n merge lock)`: `Rechist`, the lock (`Dotlock`, `DotlockReturns`), `Loadhist`, `Xcreat`, `Rename`, `Cleanup`.
The file and the lists are sets of lines. `XcreatFails` is an error or ^C while the new file is made; `InterruptedLock` and `InterruptedLoad` are ^C in the
two other places; `Killed` is SIGKILL anywhere, which leaves all files of the shell behind. The ghost `disturbed` records what the lock is not made for: two shells using one unique name
at a time (`pid ^ usec`), `open()` failing for another reason than EEXIST (the shell then saves without the lock), and ^C.

### Properties

`MutualExclusion` holds whatever happens: two shells never have the lock. As long as nothing disturbs the lock (ghost `disturbed`),
`SavedStays` (no line leaves the file once it was saved), `NoStaleLock` (only a killed shell leaves its lock behind) and
`EverySaveEnds` (liveness) hold.

Known from the model: ^C that arrives during `create_exclusive()` is handled before `dot_lock()` returns, when
`dotlock_cleanup` is not yet on the cleanup stack, so the lock stays for ever; two shells with one unique name may do the
same, or save without the lock; ^C while `history -S` reads the file moves the input to its end (`fixerror()`), no error is
seen, and what was read so far replaces the file (`sh.hist.c:1321`; on the real shell a history of 60,000 events was cut to a
tenth). `disturbed` is set by two shells with one unique name, by `open()` failing and by ^C. `rechist()` catches errors of `loadhist()` by `setexit()` without a mark on
the cleanup stack, and aborts (`histfile` a pattern that matches nothing); an error in `dohist()` (`savehist` not
a number) leaves `SHOUT` at the temporary file.


## 6. The parts of the shell: MCShell

| Module | What stands for what | Properties |
|---|---|---|
| Descriptors, Interp | A call stack `C` whose frames are `process()` (P), `execute()` in a builtin (B) and a hook that `aliasrun()` runs (H), with the cleanup stack and its marks beside it. `TypeLine`, `TypeEof` and `Interrupt` come from outside, `Internal` is what the shell does next: read, run, return, `stderror()`, `reset()`. Descriptors has `SHIN`...`OLDSTD`, `didfds` and the copies `doio()` makes | `ErrorsUnwind`: once a command has failed (`failed` of the frame whose line it is on), no further line of the file, function or eval it is of is read, nor of those around, and the shell never aborts (Interp's `ErrorsUnwind` and `NeverAborted`); at the prompt the stack, the cleanups, the input, the descriptors and the interrupt mask are those of the start (its `PromptRestored`). `OutputGoes`: output goes to the redirection of the innermost command around it that has one |
| Loops, MCLoops | `whyles`, `preread()`, `search()`, `bseek()`: a line is a record with its keyword, 2*i* is the seek position at the start of line *i*+1 and 2*i*+1 the one behind its `else` | `RunsAsNested`: the lines executed are those that `Means`, a definition by recursion on the nesting, gives, for all scripts of nested blocks around a jump |
| DirPaths, DirStack, DirSeq | the ring through `dhead`, `dcwd`, `dochngd`, `dopushd`, `dopopd`, `$dirstack`, names with `..` and links | `IsStack`: the ring implements DirSeq, a sequence of names. `StackSound`: `dcwd` names the shell's directory, an entry lives as long as the ring or a job needs it, what `dirs -S` writes `-L` reads back |
| VarTree, Vars | AVL trees as functions from addresses to nodes with parent links, `balance()`, `set`, `unset`, `shift`, `@`, `setenv`, and the C flags and environment variables that follow shell variables | `VarsMatch`: order, balance and back pointers; flags and environment equal what the variables say. `ReadOnlyKept`: only `shift` changes what is read-only |
| PathHash | the table `xhash` with `hashlength` and `hashwidth`, `dohash()` (which returns early without `path`) and the three walks over `$path`: `doexec`, `iscommand`, `find_cmd`; files come and go. A hash value is cut to the length of the table at the time it is computed; what is read beyond a table is any set of places (`junk`) | `WhichRuns`: a fresh table hides no command, nor does `autorehash` as long as the table has the length that `$path` asks for (`Sized`); what `which` says is what is run, and `where` finds it, as long as no bit is read beyond the table (`Within`; with `autorehash` `where` needs no exception, as it rehashes first) |
| Alarms | one SIGALRM for `sched`, `autologout` and the lock of the terminal; `setalarm()` arms it for the earliest while the shell reads | `EventsInOrder` (Alarms'): scheduled commands run once, in order and not before their time, and the shell never waits without the alarm set for the next one |
| Watch, PromptChecks | `watch_login()`, `mailchk()`, `period_cmd()` | `ToldChanges`: log-ins and outs, and mail, are told once |
| Exp | `exp0()`...`exp6()` over tokens, with the `ignore` flags, file tests and integers of `W` bits | `LikeC`: the value and the assignments are C's, where the shell does not document another precedence |

## 7. The way of a line: MCLines

Algorithms on one line; each module has the C routines as operators and a reference definition written
from what the result should be, not from the routine. `vars` is the line at work, an action gives a new line.

| Module | Models | Property |
|---|---|---|
| HistSubst | `getexcl`, `getsel`, `getsub`, `gethent`, the modifiers | `RefersAsManual`: a reference is replaced by the words the selectors and modifiers name |
| Lex | `lex`, `word`, `readc`, comments, quotes, `#+` times | `ReadsBack`: a line cut into words, printed and read again is the same words; a line of a saved history has the time before it, and the time that ends the file goes to the first line typed then and to no other |
| Parse | `alias`, `asyntax`, `syn0`...`syn3` | `ParsesGrammar`: trees are those of the grammar, no word is read beyond its parentheses, alias loops end |
| Dol | `Dgetdol`, modifiers, here documents | `ExpandsAsManual`: values, subscripts and modifiers; here documents |
| Glob | `globall`, `globexpand`, braces, `tilde`, backquotes, `t_pmatch` over a small file system | `FilesFound`: exactly the files that match, braces as products, quoting respected |

## 8. The editor and completion: MCEditing

| Module | Models | Property |
|---|---|---|
| EdBuffer, EdHistory, EdCommands, Editor | the buffer of `INBUFSIZE` characters with `Cursor`, `LastChar`, `Mark`, kill ring, undo, the history under it, each command of the emacs and vi maps that changes the line, and the loop of `Inputl()` | `UndoWorks` (kill and yank, undo), `LineKept` (what was typed comes back, the cursor stays in the line as long as mark and undo are in it) |
| KeyMaps | `AddXkey`, `DeleteXkey`, `TraverseMap`, `bindkey`, macros and their levels | `KeysDo`: a sequence does what it was last bound to, the table and the tree agree, a printed sequence reads back |
| Complete | `tenematch`, `t_search`, `insert_meta`, spelling, scrolling | `Completes`: what is inserted reads back as the common prefix of what may stand there, spelling gives the closest name, scrolling comes round |
| CompRules, CmdList | the rules of `complete`, `tw_cmd_*` and its sorted list, and the directories looked in after it, "." where `path` has no relative one | `FirstRule`: the first rule that fits decides, where `n` and `N` fit the whole of an earlier word, as in the code (section 12 on the manual). `OffersWhatIsThere`: commands, builtins and aliases that exist, once, and what is in the relative directories of `path`, or in "." if there is none |

## 9. Runs and bounds

| Run | Instance | Question |
|---|---|---|
| `jobs_prompt` | 3 processes, 3 pids (symmetric) that are reused, pipelines of 2, `BIGINDEX` 2 | are rings, `%+` and `%-` right and no job forgotten, for `fg`, `bg`, `jobs` and `wait` with reports at the prompt? |
| `jobs_events` | 2 processes, `notify`, failing forks, `jobcmd` before a fork, I/O between forks, signals from outside, all three ends | does the table still agree with the kernel when everything else goes wrong? |
| `jobs_live` | 2 processes, `FairSpec` | does every wait return, is every ended job flushed? |
| `hist_table` | three words, two of one hash and one beside it; list, events and table bounded to 4, dummies, `histdup` off, `erase`, `all` | are list and table one? |
| `hist_events` | two words, two times, typed or merged, all four `histdup`s | are events in order, kept and merged once? |
| `hist_file` | 2 shells, 2 unique names, 2 lines, 2 tries, 2 saves each, `FairSpec` | lock and file, with faults; do saves end? |
| `shell` | 2 levels of input, 2 lines and 2 interrupts; scripts around one jump; expressions of 4 bits; 2 watch rounds and 4 prompts | section 6, what runs |
| `state` | 4 directories, 3 steps of variables, 2 files, a clock of 7 ticks with 2 events | section 6, what is remembered |
| `lines` | the lines of each module's `Lines`, two steps | section 7 |
| `editor` | a buffer of 10, three keys, macros two deep, two operations on the rules, three turns of completion | section 8 |
| `bug_fg_finished` | `fg` of a job that has ended | a walk that never ends (the real shell hangs too) |
| `bug_flushed_twice` | `notify`, a background pipeline of three, a line fits the output buffer (`LongLines` FALSE) | a job is flushed twice by `pchild()` and `jobs` |

Why these bounds are enough. Three processes are the least with which a pipeline of two and a second job meet, so
that `%+`, `%-`, two flushes in one handler and a dead member beside a live one all occur; `BIGINDEX` 2 makes the third job
search for a free number (the code's 9999 would never); `jobs_events` has two, because it varies what costs more
states, and what it leaves open is proved for any number (section 11). `MaxProcs` bounds how many processes are ever created.
Tables of 16 entries grow when a search passes two entries and are rebuilt after two place holders, so three or
four entries of one hash reach both; the code's 32 need seven. Two tries for the lock instead of five only decide how long a shell
spins; two shells meet in every step of the lock. A level of input above another one, an error in either and an
interrupt between them are all there is to unwinding, whose rule does not depend on the depth. The buffer of ten holds two
words, so that it overflows by a yank and by typing.

`CHECK_DEADLOCK` is off in `jobs_events` (the shell may run out of `MaxProcs` in the middle of a hook), `hist_file` (every shell
comes to rest), and the four runs of sections 6 to 8 (every part stops at its bound).

`LongLines` says whether the line of a process may fill the output buffer, so that `pprint()` writes, and handles signals, also between the leader of a job and
the second process of it; without it the first write comes after the flags of two processes have been read. It is TRUE in all passing runs, which
is the larger set of interleavings. In `state`, PathHash has a `char` of 2 bits and 2 rows for each (8 and 512 in the code), so that paths of one to three directories
make tables of two sizes and a foreach that shortens `$path` leaves a table that is too long.

What does not hold, and is not checked where it fails:

* `NeverForgotten` after a failed second `fork()`: the first command of the pipeline stays a foreground job that nobody waits
  for; and when `jobcmd` waits, or a handler runs, while the leader ends, `pfork()` forgets the job instead of flushing
  it (`sh.proc.c:1905`).
* `NeverFlushedTwice` with `notify`: the run `bug_flushed_twice`. Of a background pipeline of three, the first two have ended when `jobs -l` prints it (or `jobs`, if
  their statuses differ). `pprint()` has read the flags of both when it writes the newline of the first; the end of the third is handled there, and
  `pchild()` prints and flushes the job. `pprint()` goes on, sees that all three are over, and `dojobs()` flushes the job again:
  "BUG: process flushed twice" (`sh.proc.c:1333`, `659`). With signals from outside also `NeverHung`: the walk of `pjwait()` never ends.
* `CurrentPrevious` with a handler between two forks and the pid of the collected leader given to the next process, which joins the ring as
  a second leader.
* `WaitReturns` with `HookAt = {"start"}`: `pstart()` calls a `jobcmd` with `pchild_disabled` set, which waits for
  ever (`sh.proc.c:1622`).
* `NeverHung` with `FgFinished`: the run `bug_fg_finished`.

## 10. Fairness

JobControl's `FairSpec`: the shell is scheduled (WF of `Shell`, and of `Reap` while there are statuses), every running child ends (WF of
`ChildExits`: a child that sleeps for ever is rightly waited for), and the user goes on typing lines (SF of `EndLine`, as `fg`, `bg` and
`jobs` disable it for a while). Nothing is assumed of stops, continues, `fg` or the order of statuses; a wait does not wait for
stopped processes.

HistFile's `FairSpec`: each shell that saves is scheduled (WF of its own steps). Nothing is assumed of ^C, SIGKILL, typing or the decision
to save. The lock is no queue; `MaxSaves` is what bounds how often the others overtake.

Interp and Loops state the weak fairness of the machine itself in their specifications; only safety is checked of them.

## 11. Proofs

The instance of a run is small; what follows holds for every value of the constants. Assumed are only the `ASSUME`s of the modules,
which are types of constants, that processes are numbered up to some `MaxProcs`, and for PathHash that
no directory is called like a message of `texec()`, for Watch that what is watched are terminals. Hypotheses of a theorem beyond these are named below.

| Module | Theorem | Hypotheses |
|---|---|---|
| JobControlProofs | `TypeCorrect`: `TypeOK`; `RunningIsThere`: `RunningExists` | none |
| JobSafetyProofs | `NeverHangs`, `CurrentPreviousSound`, `OnlyForegroundWaits`; `NumbersIdentify`: `JobNumbers` | `PlainShell` |
| JobReportProofs | `NoneForgotten`: `NeverForgotten` | `PlainForks` |
| HistProofs | `HistCorrect`, `HistTypes`, `TableTheorem`, `DuplicatesTheorem` | none |
| HistProofs | `OrderTheorem`, `EventsTheorem`, `RecentTheorem` | `MaxDummies = 0` |
| HistProofs | `MergedTheorem` | `Loads \subseteq {"merge"}` |
| HistFileProofs | `TypeCorrect`, `MutexCorrect`, `StaleLockCorrect`, `SavedStaysCorrect` | none (the last two properties say "undisturbed" themselves) |
| InterpProofs | `StacksAgree`: `Sound`; `NeverAborts`, `ErrorsAlwaysUnwind`: `ErrorsUnwind`, `NeverAborted`; `AlwaysRestored`: `Restored` | `NoRepeat` |
| ShellProofs | `TableHidesNothing`, `LoginsTold`, `MailToldOnce`, `AlarmsOnTime` | none |

`PlainShell` is: `notify` neither set nor used, no `fg` of a job that has ended but is not noted, no `jobcmd` that forks, and no reuse of a pid between
two forks of one pipeline (children may be reaped there, or pids be reused, not both). `PlainForks` adds that no fork fails and no
handler runs between two forks. They are what the list of section 9 makes necessary: each one but the hook's, when dropped,
has a counterexample TLC finds. Stops and continues, signals from outside, `fg`, `bg`, `jobs`, `wait`, reused pids, any order of statuses and
pipelines of any length remain. With a hook before the fork and no reuse of pids TLC finds no counterexample to the
invariant in 1.8 million states; that is not proved.

**Types.** `TypeOK` is not inductive: `Fork` needs `tab.n + todo <= MaxProcs` to stay within the slots and `todo > 0` to stay in `Nat`, and
the end of a hook's wait goes back to the `fork` it interrupted. `TypeInv` adds these and says where a hook can be. ProcTableProofs
has a lemma for every operator of ProcTable (`pflushType`, `pchildType`, ...), JobControlProofs one per action. `Leader` is
well defined only where `WalkEnds` holds, so actions that walk test it first; the other case is `hung`.

**The table and the kernel.** `RunningExists` speaks of running processes only. What is inductive, `KernelInv`, is that every running *or stopped* process of the table
is one the kernel has and the last that got its pid, and that the statuses that wait (`NewsFits`) are those of the children that have ended or are there. The
critical step is a pid that is given again: the kernel only gives one it no longer has, so no live process of the table carries it.

**Rings, flags and current jobs.** `JobInv` is `TypeInv`, `WellFormed(tab)` and `WhereInv`. `WellFormed` is `Shape` (every process is in the ring of a
leader, is live as long as the leader is and not freed before, and of the live ones only the leader has the pid `p_jobid`), `FlagsOK` (where flags may be) and `CurrPrev` (`pcurrent` and
`pprevious` are NULL or different leaders that live). `WhereInv` says what the local variables of each `pc` still denote: whom `pjwait()` waits for, where
`pnote()` and `dojobs()` are, what the half-built pipeline is. The theorems follow from it; the proof has one lemma per operator and one
per action. Before the proof TLC checked `JobInv` and `ReportInv` to the end on an instance of 2.9 million states (2 pids, 3 processes, pipelines of
3, reuse, signals from outside), and `JobInv` on the first 3 million states of larger ones with failing forks.

**Reports.** `ReportInv` is `FlagsMean` (only processes of the job the shell waits for or builds are of the foreground, and none is reported that has ended), `AllNoted` (an ended job is noted unless
the shell holds it: waits for, starts, prints or builds it) and `Owed` (what it holds is noted before it lets go).

**Numbers.** `Numbered`: every job has a number from 1 to `pmaxindex`, and two live ones have different ones. `palloc()` takes
`pmaxindex + 1` until `BIGINDEX`, then searches: that a free one exists is the pigeonhole principle (fewer than `MaxProcs + 1` structs are in use), and
`pflush()` recomputes `pmaxindex` as the greatest in use. `JobNumbers` is only proved; no run has it.

**The history.** HistProofs goes from bottom to top.

* *Tables.* `Holds(T, R, hash)`: exactly the entries of `R` are in the table `T`, once each, and each is reached from its own index by `Probe` without an
  `EMPTY` before it. `EmptyHolds`, `PutHolds`, `RemoveHolds`, `BuildHolds`, `InsertHolds` and `FindHolds` say that every operator takes a table that holds a set to one that holds the set it should
  (or to `ABORT`), `SearchFinds` that a search in such a table ends at an entry asked for if there is one. The hard ones are `remove`, which empties place holders behind the entry it deletes (no probe of another
  entry may pass there), and `Build`, in which the table grows while it is being filled.
* *Recursion.* Filling a table and discarding from the list are recursive functions over the numbers up to a bound. The library's theorem that such a function exists takes an
  operator; `Recursion` proves it here for what these need, and `Steps` is the induction up to a bound with the set of good numbers as a constant.
* *Histories.* The set `Histories` is the inductive invariant as a type: `list` repeats nothing and is the domain of `hist`, `histMerg` is NULL, the head or on the list (never a freed
  `struct Hist`), and the table, if there is one, `Holds` the list. What `enthist` does to a member is said by few relations: `Thinned` (entries are
  dropped), `Kept` (none of the last `history`), `Inserted` (one more, the others in their order), `EnteredAs` (their composition with the search for a duplicate).
* *Steps.* `StepIs`: each action is an `EnteredAs`, a `Thinned`, or changes a reference or `histdup` only. The theorems follow from `HistInv` (= `H \in Histories`, and the types of the rest) by these relations and no longer mention the
  code: `Ordered` (numbers fall strictly along the list, none above `eventno` or its own `Href`) is what `bubbleHnumHrefDown` must restore after a merge, `MergedOnce` counts the lines of one time.

TLC checked `Ordered` on the instance of `hist_events` and `Histories` on both before the proof. The two hypotheses are needed. With dummies `EventsInOrder` fails (section 4), and so does `RecentKept`: a
line merged below a dummy gives the dummy the newest number and takes an older one, whose event then counts as too old and is discarded (five steps). `history -L` enters
what the list has already, which is its purpose, so `MergedOnce` is about merging. That old entries are discarded at all is not claimed; and an assert that fails (section 12) ends the shell, so that the
table is only spoken of before that.

**The lock and the file.** `MutualExclusion` is inductive with the types: who passes the test of `st_nlink` finds `lock` linked to its own unique name, and `link()` makes no
second lock. `SavedStaysCorrect` and `StaleLockCorrect` need, undisturbed, `Distinct` (unique names differ), `Linked` (a name is there until it is linked, and then `lock` is it), `Owned` (who writes
keeps the lock will remove it, or died) and `Merged` (who writes has the lock and all lines of the file of now): together `Serial`.

**The interpreter.** `ErrorsUnwind` is about one bit that the code does not have: `cmd_done` of `process()` does not know whether the line it has run failed. It
looks whether the cleanup stack is above the mark (`cleanup_reset()`), that is whether the entry for `paraml` it pushed itself is still there. So the property is as
good as the bookkeeping of everyone who pushes and pops between, and the invariant `Sound` says what that is.

* *The invariant.* `Chain`: there are values `e[1], e[2], ...`, what each frame found when it was entered (height of the cleanup stack, mark, count of `pintr_disabled`, depth of
  functions, kind of input), such that `e[i+1]` is `e[i]` with what frame *i* has `Pushed` at the point it has reached, `e[1]` is the start and the last is the state. `Doomed`: a frame
  whose line has failed has nothing of its own left on the stack. `Handled`: `haderr` is set only where a `setexit()` has just caught it. `Data` are the types, and that what is saved is a state of the input that
  can be restored.
* *The argument.* A call pushes a frame and extends `e`; a return takes both back. `reset()` runs the entries down to the mark and lands in the last frame that catches; `Ready`
  (the mark is that frame's, so what lies above is what its callees pushed) is what every routine that calls `stderror()` shows first, and the lemma about `Unwound`, by induction over the
  height, then gives the environment of that frame back, `st_restore()`, `fn_restore()` and `doeval_cleanup()` included. `Restored` is `Sound` for a stack of one frame.
* *The hypothesis.* `NoRepeat` says what lines and commands are (in `CONSTANTS` of InterpProofs, so any sets of them) and that none is `repeat`. It is needed, and is a finding: on a line like
  `err; repeat 2 echo`, typed or in a file that another sources, the failed builtin has emptied the line's part of the stack, `repeat` pushes `pintr_disabled` and leaves it (`sh.func.c:681`), `cleanup_reset()` is true although the line failed, and
  `cleanup_until(&paraml)` undoes the entries of whoever is below. TLC gives the counterexample.
* *What proving changed.* Where the proof failed TLC found why: `failed` was one flag of the whole shell, which a hook that fails and is
  forgiven would set for the file that is being read; it now belongs to a frame.

`Restored` is less than `PromptRestored`: that `doinp` ended, which hooks are active and the descriptors are left to TLC, and where the shell is at the prompt but below other frames (a
`precmd` that is `exit`, ^C in a `postcmd` in an `eval`) nothing is claimed. `Sound` has a quantifier over functions on `Nat`, which TLC cannot enumerate; the run checks its consequences.

**PathHash, Watch, PromptChecks, Alarms.** `HashInv`: a fresh table has the size that the present `$path` asks for and the bits of every file in its directories.
`TableHidesNothing` holds for any hash function and any `Char` and `Buckets`; its parts about `autorehash` and about `which` and `where` have the conditions `Sized` and `Within` in
them, because without them they are false (section 12): TLC gives the counterexample for each. `WatchInv`: the shell's
records are of the last reading, none is younger than what the system has or than now, and what was told last is what they say. `MailInv`: the times of the last look and of the mail told.
`AlarmInv`: the list is in the order of its times and shares no number with what ran (`Sorts`: `insert()` keeps the order because it goes behind those of the same time, and what is
overdue is a prefix); while the shell reads or is locked, either SIGALRM is pending or the alarm is to come and no later than one second after the first event, and no
later than `autologout` (`OnTime`); and where `alm_fun` is `auto_lock`, the lock comes before the logout (`LockFirst`). The last is the comment "lock_time always < alrm_time" of
`setalarm()` (`tc.func.c:1133`): without it `logout - lock`, which is unsigned, could wrap, and the logout of a locked terminal would never come.

What stays with TLC, and why: `WaitReturns`, `EventuallyFlushed`, `EverySaveEnds` (liveness and ENABLED are out of the prover's reach); everything of CompRules,
Complete, DirPaths, DirStack, Dol, Exp, Glob, HistSubst, KeyMaps, Lex, Loops, Parse, VarTree and Vars, whose operators are RECURSIVE (the prover loses its SMT backend there, and
what a recursion computes for every input needs an induction it cannot instantiate), with the editor and the refinement `IsStack` among them; `PromptRestored` and `OutputGoes` of Interp (sections 11, 14).

## 12. Where the code differs from what it says

The two findings (PROJECT.json quotes the lines): `fg` of a job that has just ended leaves a ring without a leader
(`sh.proc.c:1374`), and with `notify` a job is flushed by `jobs` after `pchild()` has (`sh.proc.c:1333`). Met while modelling, modelled as the code is, and
left out of the properties where a definition says so:

* **Jobs.** Those of section 9; `static int nosigchld` of `execute()` stays 1 over the longjmp of a failed `fork()` (`sh.sem.c:373`).
* **History.** The table grows while it is being filled and an assert aborts (`sh.hist.c:762`, `788`: `set history=100`, one command 30
  times, `set histdup=erase`). A dummy keeps the number `HIST_PURGE` (`sh.hist.c:118`), so that a merging `history -S` writes the dummy and
  loses the line. `histdup` `all` or `prev` decrement `eventno` for dummies (968, 973).
* **Interpreter.** `repeat` of a failing command at a terminal aborts; `repeat` after a failed builtin on one line unwinds what is around that line (section 11); `eval` or `source` that ends by `exit` leaves `didfds`; ^C in a nested `source`
  continues the outer file; loops nested in an `eval` are freed by `wfree()`, a `goto` in one resets the outer position; `repeat 2 eval ... > file` writes only the
  first round; a `postcmd` that sources a file is removed as faulty; `breaksw` out of two loops in a `switch` closes one of them (`sh.func.c:824`).
* **Directories, variables, commands.** `home_dev` is stale after `set home` (`sh.dir.c:1181`); `dgetstack()` starts at `dhead` (1326); `set -r cwd` makes `cd` fail half way;
  `shift` changes read-only variables; `setenv USER` leaves `LOGNAME`; `set x[1]=pattern` without a match frees the word (`sh.set.c:444`); `where` ignores relative
  directories of `$path` (`sh.exec.c:1095`); `autorehash` in `doexec()` rehashes the child. A hash value is computed before the `retry` of `autorehash` (`sh.exec.c:259`, `807`) with the old
  `hashlength`: after `foreach path (...)` has made a path of more than 8 directories short, the retry looks in a wrong row of the new table, or beyond it, and a command that is there is
  not found; `unset path; rehash` clears `hashwidth` and leaves the table (656-658), so that a `foreach path` after it reads longs where there are chars.
* **Alarms and checks.** A SIGALRM that is pending at `alarm(0)` runs the wrong function; each event arms the whole `autologout` again; `sched 12:30pm` is midnight;
  the alarm is only set with a prompt (`sh.c:1988`); mail that comes in the second of the look is missed.
* **Expressions.** `64 >> 2 >> 1` is 1 (`sh.exp.c:399`, right to left); `1 == 1 == 0` is an error; backquotes in an operand that is ignored run; `3 * - 2` is -2.
* **Lines.** `!!:5$z` wraps (`sh.lex.c:1185`); `$a:` at the end of a line swallows the next one; the time of a trailing `#+` line is taken for the next typed
  line (`sh.lex.c:341`; `ReadsBack` says that it is for that one alone); an alias after a leading redirection is not expanded; `:as//y/` loops; `$nope[1]` of an unset environment name leaves `[1]`; a newline in
  a value makes an empty word; `echo ^foo b*` prints `foo`.
* **Editor.** `ResetInLine()` leaves the undo and the mode of the last line; the mark is not adjusted when the history replaces the line; a failing `v_repeat_srch`
  or an aborted `v_search` loses the line; `c`/`d` with `T`/`F` puts the cursor beyond `LastChar`; `c_excl` looks before the buffer; `bindkey -k -s up ls` binds the letter `u`
  (`tc.bind.c:197`); a macro that binds its own key is read after it is freed.
* **Completion.** `spdir` overwrites a better match (`tw.parse.c:1064`); names that start with `~` are inserted unquoted; a quoted `;` moves the
  start of the command (`tw.parse.c:190`); rules `n` and `N` match the whole word (`tw.comp.c:616`) where the manual says its beginning (`tcsh.man.in:4838-4847`), so that `n/ab/f/` says nothing of the word after
  `abc`; files of "." are offered as commands when `path` has no relative directory, or is unset (`tw.init.c:340`, `365-373`), though they would not be found; where spelling leaves a quote open at the end of a word in quotes,
  `insert_meta()` appends the NUL `w` instead of the quote (`tw.parse.c:672`): `'abxd'` with a file `abcd` becomes `'abcd`; ^C in `tw_start_entry()` loses the line; `rehash` with
  `path` unset keeps the old list (`sh.exec.c:652`).

## 13. What is not modelled

Whole components: the listing of completions, the output buffer, the display of the editor (minimal updates depend on terminals' capabilities: data,
not control), highlighting and suggestions, prompt and git status, system information, `time` and `limit`, strings, characters and
`malloc`, adaptation to systems, the completion of builds without the editor. PROJECT.json has the reasons.

Within modelled ones: `dohist()` and the printing of `dirs`, `sched`, `alias` and `set`; startup files and options; incremental search and a foreground editor under the
line editor; correction at newline and autolist; the length of the kill ring; `globone()`, character classes by locale; `:x` and `:q` of a history reference;
formats of `watch`; termcap's own keys. `rehash` with a length and a width given by hand; in CmdList, a `foreach` whose variable is `path` (nothing frees the list then). Strings are sequences of a few characters or model values everywhere; the times of a saved history have two digits instead of ten.

## 14. What is left to do

* The weaker order of events that remains with the dummies of `:s`, and the table sizes for which no assert of the hash table fails.
* That HistFile implements an abstract file to which a save adds its shell's lines in one step.
* `OutputGoes` of Interp, and the descriptors of `PromptRestored`, as theorems.
* `JobInv` with a hook before the fork and no reuse of pids, which TLC confirms.
