------------------------------- MODULE Nstat --------------------------------
(***************************************************************************)
(* nstat(8): runs of the command that share a history file, the daemons    *)
(* ("nstat -d") they may take the counters from, and the kernel's counters.*)
(*                                                                         *)
(* A run locks the history, loads it, fetches the counters, prints the     *)
(* increments and rewrites the history.  Counters that are 0 are neither   *)
(* written nor sent, so 0 stands for "no entry" in every table.            *)
(***************************************************************************)
EXTENDS Naturals, FiniteSets

CONSTANTS
  MaxRuns,      \* runs of the command
  Counters,     \* in the order of the files
  MaxVal,       \* bound on the counters
  MaxInode,     \* bound on the history files (resets)
  Settings      \* the circumstances: the options and patterns a run may be given,
                \* the counters that count, a bound on the reboots, the daemons,
                \* the children a daemon runs at a time (5 in the code), and
                \* whether runs may be killed

\* The runs are numbered in the order in which they start.
Runs == 1..MaxRuns

ASSUME NstatAssumption ==
  /\ Counters \subseteq Nat
  /\ MaxRuns \in Nat /\ MaxVal \in Nat /\ MaxInode \in Nat \ {0}
  /\ \A s \in Settings :
       /\ \A o \in s.options :
            o \in [match : SUBSET Counters, ignore_history : BOOLEAN, no_update : BOOLEAN,
                   no_output : BOOLEAN, reset_history : BOOLEAN]
       /\ s.counting \subseteq Counters
       /\ s.boots \in Nat /\ s.daemons \subseteq {"user", "root"} /\ s.children \in Nat \ {0}
       /\ s.crashes \in BOOLEAN

VARIABLES
  set,       \* the circumstances
  kern,      \* the kernel's counters
  files,     \* the history files; the one named hist_name is path
  path,
  lock,      \* the run that holds the lock of each file, or nobody
  run,       \* the runs
  daemon,    \* the daemons: the user's own and root's
  boots,
  reported   \* what the runs that rewrote each file have reported, per counter

nstatVars == <<set, kern, files, path, lock, run, daemon, boots, reported>>

Zero == [c \in Counters |-> 0]
Nobody == 0

\* src: info_source; old: last written before the machine was booted; torn: a
\* line is cut off.
File(src, vals) == [src |-> src, vals |-> vals, old |-> FALSE, torn |-> FALSE]
EmptyFile == File("", Zero)

Daemons == {"user", "root"}
NoDaemon == [up |-> FALSE, snap |-> Zero, children |-> 0]

NoOptions == [match |-> {}, ignore_history |-> FALSE, no_update |-> FALSE,
              no_output |-> FALSE, reset_history |-> FALSE]
Idle == [pc |-> "idle", opt |-> NoOptions, ino |-> 0, src |-> "", hist |-> Zero,
         db |-> Zero]
Exit(r) == run' = [run EXCEPT ![r] = [Idle EXCEPT !.pc = "exit"]]
Goto(r, pc) == run' = [run EXCEPT ![r].pc = pc]

UsesFile(o) == ~o.ignore_history \/ ~o.no_update

----------------------------------------------------------------------------
(* The kernel, the daemons.                                                *)

Count(c) ==
  /\ c \in set.counting /\ kern[c] < MaxVal
  /\ kern' = [kern EXCEPT ![c] = @ + 1]
  /\ UNCHANGED <<files, path, lock, run, daemon, boots, reported>>

\* The machine is booted while no run is in progress: the counters start again,
\* the daemons are gone, and by its mtime and the uptime the history is old.
Reboot ==
  /\ boots < set.boots
  /\ \A r \in Runs : run[r].pc \in {"idle", "exit"}
  /\ boots' = boots + 1
  /\ kern' = Zero
  /\ files' = [i \in DOMAIN files |-> [files[i] EXCEPT !.old = TRUE]]
  /\ daemon' = [d \in Daemons |-> NoDaemon]
  /\ reported' = [i \in DOMAIN reported |-> Zero]
  /\ UNCHANGED <<path, lock, run>>

\* server_loop up to its first scan.  A daemon's info_source is new, so none of
\* the histories carries it.
DaemonStart(d) ==
  /\ d \in set.daemons /\ ~daemon[d].up
  /\ \A i \in DOMAIN files : files[i].src # d
  /\ \A r \in Runs : run[r].src # d
  /\ daemon' = [daemon EXCEPT ![d] = [up |-> TRUE, snap |-> kern, children |-> 0]]
  /\ UNCHANGED <<kern, files, path, lock, run, boots, reported>>

\* server_loop: update_db.
DaemonScan(d) ==
  /\ daemon[d].up
  /\ daemon' = [daemon EXCEPT ![d].snap = kern]
  /\ UNCHANGED <<kern, files, path, lock, run, boots, reported>>

\* server_loop: waitpid finds a child that has served its client.
DaemonReap(d) ==
  /\ daemon[d].children > 0
  /\ daemon' = [daemon EXCEPT ![d].children = @ - 1]
  /\ UNCHANGED <<kern, files, path, lock, run, boots, reported>>

DaemonKilled(d) ==
  /\ daemon[d].up
  /\ daemon' = [daemon EXCEPT ![d] = NoDaemon]
  /\ UNCHANGED <<kern, files, path, lock, run, boots, reported>>

----------------------------------------------------------------------------
(* A run.                                                                  *)

\* Options; -r unlinks the history; the history is opened, or created.
Start(r, o) ==
  /\ run[r].pc = "idle" /\ \A q \in 1..(r - 1) : run[q].pc # "idle"
  /\ o.reset_history => path < MaxInode
  /\ path' = IF o.reset_history THEN path + 1 ELSE path
  /\ run' = [run EXCEPT ![r] = [Idle EXCEPT !.opt = o, !.ino = path',
                                !.pc = IF UsesFile(o) THEN "flock" ELSE "fetch"]]
  /\ UNCHANGED <<kern, files, lock, daemon, boots, reported>>

LockFreeAlways(r) == TRUE
LockFree(r) == lock[run[r].ino] = Nobody

\* flock, and the fstat after it: a file that has been unlinked in the meantime
\* has no link.
Flock(r) ==
  /\ run[r].pc = "flock"
  /\ LockFree(r)
  /\ IF run[r].ino # path THEN Exit(r) /\ UNCHANGED lock
     ELSE /\ lock' = [lock EXCEPT ![path] = r]
          /\ Goto(r, "load")
  /\ UNCHANGED <<kern, files, path, daemon, boots, reported>>

\* The file is closed.
Release(r) == lock' = [i \in DOMAIN lock |-> IF lock[i] = r THEN Nobody ELSE lock[i]]

\* "history is aged out, resetting"; then load_good_table.
AgedOutNever(r) == FALSE
AgedOut(r) == ~run[r].opt.ignore_history /\ files[run[r].ino].old

Load(r) ==
  /\ run[r].pc = "load"
  /\ LET i == run[r].ino
         f == IF AgedOut(r) THEN EmptyFile ELSE files[i] IN
     /\ files' = [files EXCEPT ![i] = f]
     /\ IF f.torn THEN Exit(r) /\ Release(r)      \* "error parsing history file"
        ELSE /\ run' = [run EXCEPT ![r].pc = "fetch", ![r].src = f.src, ![r].hist = f.vals]
             /\ UNCHANGED lock
  /\ UNCHANGED <<kern, path, daemon, boots, reported>>

\* "history is stale, ignoring it": reporting starts anew.
Anew(r, stale) ==
  reported' = IF stale /\ run[r].ino # 0 THEN [reported EXCEPT ![run[r].ino] = Zero] ELSE reported

\* connect: to the socket of the user's daemon, then to nstat0.
Server(d) == daemon[d].up /\ (d = "root" => ~daemon["user"].up)

\* The counters come from a daemon.  One that has its hands full closes the
\* connection at once, and the run reads an empty table.  The history is stale
\* if it was taken from another source.
StaleNever(r, d) == FALSE
FetchStale(r, d) == run[r].hist # Zero /\ run[r].src # d

Busy(d) == daemon[d].children >= set.children

FetchDaemon(r) ==
  /\ run[r].pc = "fetch"
  /\ \E d \in Daemons :
     /\ Server(d)
     /\ \/ /\ ~Busy(d)
           /\ daemon' = [daemon EXCEPT ![d].children = @ + 1]
           /\ run' = [run EXCEPT ![r].pc = "output", ![r].db = daemon[d].snap,
                                 ![r].src = d,
                                 ![r].hist = IF FetchStale(r, d) THEN Zero ELSE @]
           /\ Anew(r, FetchStale(r, d))
        \/ /\ Busy(d)
           /\ run' = [run EXCEPT ![r].pc = "output", ![r].db = Zero]
           /\ UNCHANGED <<daemon, reported>>
  /\ UNCHANGED <<kern, files, path, lock, boots>>

\* There is no daemon: the counters come from /proc.  The name of the source
\* goes with the stale history only.
KernelStale(r) == run[r].hist # Zero /\ run[r].src \notin {"", "kernel"}

FetchKernel(r) ==
  /\ run[r].pc = "fetch" /\ \A d \in Daemons : ~daemon[d].up
  /\ run' = [run EXCEPT ![r].pc = "output", ![r].db = kern,
                        ![r].hist = IF KernelStale(r) THEN Zero ELSE @,
                        ![r].src = IF KernelStale(r) \/ @ = "" THEN "kernel" ELSE @]
  /\ Anew(r, KernelStale(r))
  /\ UNCHANGED <<kern, files, path, lock, daemon, boots>>

\* dump_incr_db, or dump_kern_db when there is no history: what is printed of c,
\* 0 for a counter that went backwards ("overflow").
Printed(r, c) ==
  LET h == IF run[r].opt.ignore_history THEN 0 ELSE run[r].hist[c] IN
  IF run[r].db[c] < h THEN 0 ELSE run[r].db[c] - h

Overflow(r, c) == run[r].db[c] < run[r].hist[c]

\* What is printed; with -n the increments are noted without being printed, and with -a the
\* absolute value takes the place of what was reported before.
Output(r) ==
  /\ run[r].pc = "output"
  /\ IF run[r].opt.no_update THEN Exit(r) /\ Release(r) /\ UNCHANGED reported
     ELSE /\ Goto(r, "truncate")
          /\ reported' = [reported EXCEPT ![run[r].ino] =
               [c \in Counters |->
                  IF c \notin run[r].opt.match THEN @[c]
                  ELSE Printed(r, c) + IF run[r].opt.ignore_history THEN 0 ELSE @[c]]]
          /\ UNCHANGED lock
  /\ UNCHANGED <<kern, files, path, daemon, boots>>

Truncate(r) ==
  /\ run[r].pc = "truncate"
  /\ files' = [files EXCEPT ![run[r].ino] = EmptyFile]
  /\ Goto(r, "write")
  /\ UNCHANGED <<kern, path, lock, daemon, boots, reported>>

\* dump_kern_db with to_hist: a counter that does not match the patterns keeps
\* the value it has in the history, if it has one.
HistoryValue(r, c) ==
  IF run[r].db[c] # 0 /\ c \notin run[r].opt.match /\ run[r].hist[c] # 0
  THEN run[r].hist[c] ELSE run[r].db[c]

Written(r) == File(run[r].src, [c \in Counters |-> HistoryValue(r, c)])

Write(r) ==
  /\ run[r].pc = "write"
  /\ files' = [files EXCEPT ![run[r].ino] = Written(r)]
  /\ Exit(r)
  /\ Release(r)
  /\ UNCHANGED <<kern, path, daemon, boots, reported>>

\* A run is killed; while it writes, the first lines of the history have reached
\* the file, the last of them perhaps with fewer digits or without its number.
Killed(r) ==
  /\ set.crashes
  /\ run[r].pc \notin {"idle", "exit"}
  /\ Exit(r)
  /\ Release(r)
  /\ IF run[r].pc # "write" THEN UNCHANGED files
     ELSE \E cut \in Counters, torn \in BOOLEAN :
          \E v \in 0..HistoryValue(r, cut) :
            files' = [files EXCEPT ![run[r].ino] =
              [Written(r) EXCEPT !.vals = [c \in Counters |-> IF c < cut THEN @[c]
                                                          ELSE IF c = cut THEN v ELSE 0],
                                 !.torn = torn]]
  /\ UNCHANGED <<kern, path, daemon, boots, reported>>

----------------------------------------------------------------------------

NstatInit ==
  /\ set \in Settings
  /\ kern = Zero
  /\ files = [i \in 1..MaxInode |-> EmptyFile]
  /\ path = 1
  /\ lock = [i \in 1..MaxInode |-> Nobody]
  /\ run = [r \in Runs |-> Idle]
  /\ daemon = [d \in Daemons |-> NoDaemon]
  /\ boots = 0
  /\ reported = [i \in 1..MaxInode |-> Zero]

Step(r) == \/ Flock(r) \/ Load(r) \/ FetchDaemon(r) \/ FetchKernel(r)
           \/ Output(r) \/ Truncate(r) \/ Write(r)

NstatNext ==
  /\ \/ \E r \in Runs : Step(r) \/ Killed(r) \/ \E o \in set.options : Start(r, o)
     \/ \E c \in Counters : Count(c)
     \/ Reboot
     \/ \E d \in Daemons : DaemonStart(d) \/ DaemonScan(d) \/ DaemonReap(d) \/ DaemonKilled(d)
  /\ UNCHANGED set

\* A run goes on, and gets the lock when it stays free.
NstatSpec == NstatInit /\ [][NstatNext]_nstatVars /\ \A r \in Runs : WF_nstatVars(Step(r) /\ UNCHANGED set)

----------------------------------------------------------------------------

\* Only one run is between the lock and its exit for one history file.
Exclusive ==
  \A r, q \in Runs :
    /\ r # q
    /\ run[r].pc \in {"load", "truncate", "write"}
    /\ run[q].pc \in {"load", "truncate", "write"}
    => run[r].ino # run[q].ino

\* Where no crash and no daemon is involved, the increments printed by any number of runs
\* at the same time are never more than what the history holds, so none is reported
\* twice; and without patterns and -a they add up to it, so none is lost.
Conserved ==
  ~set.crashes /\ set.daemons = {} =>
    \A i \in 1..MaxInode : lock[i] = Nobody /\ ~files[i].old =>
      /\ \A c \in Counters : reported[i][c] <= files[i].vals[c]
      /\ (\A o \in set.options : o.match = Counters /\ ~o.ignore_history)
           => files[i].vals = reported[i]

\* The history is never ahead of the counters a run compares it with: a reboot
\* resets it, and so does a change of the source, which may not have scanned for a while.
\* (With -a the age of the history is not looked at; if patterns are given too, what an old
\* history holds of the other counters is written to the new one.)
NoOverflow ==
  (\A o \in set.options : o.ignore_history => o.no_update \/ o.match = Counters) =>
  \A r \in Runs : run[r].pc = "output" /\ ~run[r].opt.ignore_history =>
    \A c \in Counters : run[r].db[c] # 0 => ~Overflow(r, c)

\* By default nstat prints "increments since the previous use": what it has
\* reported of a counter is not more than the counter.
IncrementsOnly ==
  \A i \in 1..MaxInode : \A c \in Counters : reported[i][c] <= kern[c]

=============================================================================
