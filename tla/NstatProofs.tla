---------------------------- MODULE NstatProofs -----------------------------
(***************************************************************************)
(* Proofs about nstat, for every number of runs, counters, files, resets   *)
(* and reboots, all options, and any coming and going of the daemons.      *)
(*                                                                         *)
(* LockInv says who holds the lock of a history, and Exclusive follows.    *)
(* CoverInv says that a table that is in use, in a file or in a run, is    *)
(* nowhere ahead of the source whose name it carries; NoOverflow follows.  *)
(* AccountInv says that what has been reported of a file is at most what   *)
(* the file says, or the run that rewrites it; Conserved follows.          *)
(***************************************************************************)
EXTENDS Nstat, TLAPS

Inodes == 1..MaxInode
Table == [Counters -> Nat]
Sources == {"", "kernel", "user", "root"}
OwnSources == {"", "kernel"}     \* the kernel itself
Pcs == {"idle", "exit", "flock", "load", "fetch", "output", "truncate", "write"}
Options == [match : SUBSET Counters, ignore_history : BOOLEAN, no_update : BOOLEAN,
            no_output : BOOLEAN, reset_history : BOOLEAN]
FileRec == [src : Sources, vals : Table, old : BOOLEAN, torn : BOOLEAN]
DaemonRec == [up : BOOLEAN, snap : Table, children : Nat]
RunRec == [pc : Pcs, opt : Options, ino : Nat, src : Sources, hist : Table, db : Table]

\* The types of the state, and the inode of a run that has opened its file.
TypeInv ==
  /\ set \in Settings
  /\ kern \in Table
  /\ files \in [Inodes -> FileRec]
  /\ path \in Inodes
  /\ lock \in [Inodes -> Nat]
  /\ run \in [Runs -> RunRec]
  /\ daemon \in [Daemons -> DaemonRec]
  /\ \A r \in Runs : run[r].pc \notin {"idle", "exit"} =>
       run[r].ino \in Inodes /\ run[r].opt \in set.options

\* A step of r changes the record of r only.
Changed(r) == run' \in [Runs -> RunRec] /\ \A q \in Runs \ {r} : run'[q] = run[q]

----------------------------------------------------------------------------
(* What the steps do to the records.                                       *)

\* An empty table.
LEMMA ZeroType == Zero \in Table
  BY DEF Zero, Table

\* A run that has not started.
LEMMA IdleType ==
  /\ Idle \in RunRec
  /\ Idle.pc = "idle" /\ Idle.src = "" /\ Idle.hist = Zero /\ Idle.db = Zero
<1>1. NoOptions \in Options
  BY Zenon DEF NoOptions, Options
<1>2. "idle" \in Pcs /\ "" \in Sources /\ 0 \in Nat
  BY DEF Pcs, Sources
<1>3. Idle \in RunRec
  BY <1>1, <1>2, ZeroType, Zenon DEF Idle, RunRec
<1> QED
  BY Zenon, <1>3 DEF Idle

\* An empty history.
LEMMA EmptyType ==
  EmptyFile \in FileRec /\ EmptyFile.vals = Zero /\ ~EmptyFile.old /\ EmptyFile.src = ""
<1>1. "" \in Sources
  BY DEF Sources
<1>2. EmptyFile \in FileRec
  BY <1>1, ZeroType, Zenon DEF EmptyFile, File, FileRec
<1> QED
  BY Zenon, <1>2 DEF EmptyFile, File

\* A new record for one run.
LEMMA PutRun ==
  ASSUME run \in [Runs -> RunRec], NEW r \in Runs, NEW x \in RunRec,
         run' = [run EXCEPT ![r] = x]
  PROVE  Changed(r) /\ run'[r] = x
  BY Zenon DEF Changed

\* A run ends, its record is cleared.
LEMMA ExitFields ==
  ASSUME run \in [Runs -> RunRec], NEW r \in Runs, Exit(r)
  PROVE  Changed(r) /\ run'[r].pc = "exit" /\ run'[r].src = ""
<1> DEFINE x == [Idle EXCEPT !.pc = "exit"]
<1>1. x \in RunRec
  BY IdleType, Zenon DEF RunRec, Pcs
<1>2. x.pc = "exit" /\ x.src = ""
  BY DEF Idle
<1>3. run' = [run EXCEPT ![r] = x]
  BY Zenon DEF Exit
<1> HIDE DEF x
<1> QED
  BY Zenon, <1>1, <1>2, <1>3, PutRun

\* A run goes on to the next step.
LEMMA GotoFields ==
  ASSUME run \in [Runs -> RunRec], NEW r \in Runs, NEW c \in Pcs, Goto(r, c)
  PROVE  /\ Changed(r)
         /\ run'[r].pc = c /\ run'[r].opt = run[r].opt /\ run'[r].ino = run[r].ino
         /\ run'[r].src = run[r].src /\ run'[r].hist = run[r].hist /\ run'[r].db = run[r].db
<1> DEFINE x == [run[r] EXCEPT !.pc = c]
<1>1. run[r] \in RunRec
  OBVIOUS
<1>2. x \in RunRec
  BY <1>1, Zenon DEF RunRec
<1>3. /\ x.pc = c /\ x.opt = run[r].opt /\ x.ino = run[r].ino
      /\ x.src = run[r].src /\ x.hist = run[r].hist /\ x.db = run[r].db
  BY <1>1 DEF RunRec
<1>4. run' = [run EXCEPT ![r] = x]
  BY Zenon DEF Goto
<1> HIDE DEF x
<1> QED
  BY Zenon, <1>2, <1>3, <1>4, PutRun

\* A run starts.
LEMMA StartFields ==
  ASSUME TypeInv, NEW r \in Runs, NEW o \in set.options, Start(r, o)
  PROVE  /\ Changed(r)
         /\ path' \in Inodes
         /\ run[r].pc = "idle"
         /\ run'[r].pc = IF UsesFile(o) THEN "flock" ELSE "fetch"
         /\ run'[r].opt = o /\ run'[r].ino = path' /\ run'[r].src = ""
         /\ run'[r].hist = Zero /\ run'[r].db = Zero
<1> DEFINE c == IF UsesFile(o) THEN "flock" ELSE "fetch"
           x1 == [Idle EXCEPT !.opt = o]
           x2 == [x1 EXCEPT !.ino = path']
           x3 == [x2 EXCEPT !.pc = c]
<1>1. path' \in Inodes
  BY NstatAssumption DEF Start, TypeInv, Inodes
<1>2. o \in Options
  BY NstatAssumption DEF TypeInv, Options
<1>3. x1 \in RunRec
  BY <1>2, IdleType, Zenon DEF RunRec
<1>4. x2 \in RunRec
  <2>1. path' \in Nat
    BY <1>1, NstatAssumption DEF Inodes
  <2> QED
    BY <1>3, <2>1, Zenon DEF RunRec
<1>5. x3 \in RunRec
  <2>1. c \in Pcs
    BY DEF Pcs
  <2> QED
    BY <1>4, <2>1, Zenon DEF RunRec
<1>6. /\ x3.pc = c /\ x3.opt = o /\ x3.ino = path' /\ x3.src = ""
      /\ x3.hist = Zero /\ x3.db = Zero
  BY DEF Idle
<1>7. run' = [run EXCEPT ![r] = x3] /\ run[r].pc = "idle"
  BY Zenon DEF Start
<1> HIDE DEF x3
<1> QED
  BY Zenon, <1>1, <1>5, <1>6, <1>7, PutRun DEF TypeInv

\* A history is loaded, after it has been emptied if it is old, or the run gives up.
LEMMA LoadFields ==
  ASSUME TypeInv, NEW r \in Runs, Load(r)
  PROVE  LET f == IF AgedOut(r) THEN EmptyFile ELSE files[run[r].ino] IN
         /\ Changed(r)
         /\ f \in FileRec
         /\ files' = [files EXCEPT ![run[r].ino] = f]
         /\ run[r].pc = "load"
         /\ \/ run'[r].pc = "exit" /\ run'[r].src = "" /\ Release(r)
            \/ /\ run'[r].pc = "fetch" /\ run'[r].opt = run[r].opt /\ run'[r].ino = run[r].ino
               /\ run'[r].src = f.src /\ run'[r].hist = f.vals
               /\ UNCHANGED lock
<1> DEFINE f == IF AgedOut(r) THEN EmptyFile ELSE files[run[r].ino]
           x1 == [run[r] EXCEPT !.pc = "fetch"]
           x2 == [x1 EXCEPT !.src = f.src]
           x3 == [x2 EXCEPT !.hist = f.vals]
<1>1. run[r] \in RunRec
  BY DEF TypeInv
<1>2. run[r].pc = "load"
  BY DEF Load
<1>3. run[r].ino \in Inodes
  BY <1>2 DEF TypeInv
<1>4. f \in FileRec
  BY Zenon, <1>3, EmptyType DEF TypeInv
<1>5. files' = [files EXCEPT ![run[r].ino] = f]
  BY Zenon DEF Load
<1>6. \/ Exit(r) /\ Release(r)
      \/ /\ run' = [run EXCEPT ![r].pc = "fetch", ![r].src = f.src, ![r].hist = f.vals]
         /\ UNCHANGED lock
  BY Zenon DEF Load
<1> HIDE DEF f
<1>7. CASE Exit(r) /\ Release(r)
  BY Zenon, <1>2, <1>4, <1>5, <1>7, ExitFields DEF TypeInv, f
<1>8. CASE /\ run' = [run EXCEPT ![r].pc = "fetch", ![r].src = f.src, ![r].hist = f.vals]
           /\ UNCHANGED lock
  <2>1. x1 \in RunRec
    BY <1>1, Zenon DEF RunRec, Pcs
  <2>2. f.src \in Sources /\ f.vals \in Table
    BY <1>4, Zenon DEF FileRec
  <2>3. x2 \in RunRec
    BY <2>1, <2>2, Zenon DEF RunRec
  <2>4. x3 \in RunRec
    BY <2>2, <2>3, Zenon DEF RunRec
  <2>5. /\ x3.pc = "fetch" /\ x3.opt = run[r].opt /\ x3.ino = run[r].ino
        /\ x3.src = f.src /\ x3.hist = f.vals
    BY <1>1 DEF RunRec
  <2>6. run' = [run EXCEPT ![r] = x3]
    BY Zenon, <1>1, <1>8 DEF TypeInv, RunRec
  <2> HIDE DEF x3
  <2>7. Changed(r) /\ run'[r] = x3
    BY Zenon, <2>4, <2>6, PutRun DEF TypeInv
  <2> QED
    BY Zenon, <1>2, <1>4, <1>5, <1>8, <2>5, <2>7 DEF f
<1> QED
  BY Zenon, <1>6, <1>7, <1>8

\* The counters come from a daemon d, or a busy daemon gives none.
LEMMA FetchDaemonFields ==
  ASSUME TypeInv, NEW r \in Runs, FetchDaemon(r)
  PROVE  /\ Changed(r)
         /\ run[r].pc = "fetch" /\ run'[r].pc = "output"
         /\ run'[r].opt = run[r].opt /\ run'[r].ino = run[r].ino
         /\ daemon' \in [Daemons -> DaemonRec]
         /\ \A d \in Daemons : daemon'[d].up = daemon[d].up /\ daemon'[d].snap = daemon[d].snap
         /\ \/ \E d \in Daemons :
                 /\ daemon[d].up
                 /\ run'[r].db = daemon[d].snap /\ run'[r].src = d
                 /\ run'[r].hist = IF FetchStale(r, d) THEN Zero ELSE run[r].hist
            \/ run'[r].db = Zero /\ run'[r].src = run[r].src /\ run'[r].hist = run[r].hist
<1>1. run[r] \in RunRec
  BY DEF TypeInv
<1>2. run[r].pc = "fetch"
  BY DEF FetchDaemon
<1>3. run[r].hist \in Table /\ run[r].src \in Sources
  BY <1>1, Zenon DEF RunRec
<1> DEFINE x1 == [run[r] EXCEPT !.pc = "output"]
<1>4. x1 \in RunRec
  BY <1>1, Zenon DEF RunRec, Pcs
<1>5. ASSUME NEW d \in Daemons, daemon[d].up,
             daemon' = [daemon EXCEPT ![d].children = @ + 1],
             run' = [run EXCEPT ![r].pc = "output", ![r].db = daemon[d].snap, ![r].src = d,
                                ![r].hist = IF FetchStale(r, d) THEN Zero ELSE @]
      PROVE  /\ Changed(r)
             /\ run'[r].pc = "output"
             /\ run'[r].opt = run[r].opt /\ run'[r].ino = run[r].ino
             /\ daemon' \in [Daemons -> DaemonRec]
             /\ \A e \in Daemons : daemon'[e].up = daemon[e].up /\ daemon'[e].snap = daemon[e].snap
             /\ run'[r].db = daemon[d].snap /\ run'[r].src = d
             /\ run'[r].hist = IF FetchStale(r, d) THEN Zero ELSE run[r].hist
  <2> DEFINE h == IF FetchStale(r, d) THEN Zero ELSE run[r].hist
             x2 == [x1 EXCEPT !.db = daemon[d].snap]
             x3 == [x2 EXCEPT !.src = d]
             x4 == [x3 EXCEPT !.hist = h]
             y == [daemon[d] EXCEPT !.children = daemon[d].children + 1]
  <2>1. daemon[d] \in DaemonRec
    BY DEF TypeInv
  <2>2. daemon[d].snap \in Table /\ daemon[d].children \in Nat
    BY <2>1, Zenon DEF DaemonRec
  <2>3. h \in Table
    BY <1>3, ZeroType
  <2>4. x2 \in RunRec
    BY <1>4, <2>2, Zenon DEF RunRec
  <2>5. x3 \in RunRec
    <3>1. d \in Sources
      BY Zenon DEF Daemons, Sources
    <3> QED
      BY <2>4, <3>1, Zenon DEF RunRec
  <2> HIDE DEF h
  <2>6. x4 \in RunRec
    BY <2>3, <2>5, Zenon DEF RunRec
  <2>7. /\ x4.pc = "output" /\ x4.opt = run[r].opt /\ x4.ino = run[r].ino
        /\ x4.db = daemon[d].snap /\ x4.src = d /\ x4.hist = h
    BY <1>1 DEF RunRec
  <2>8. run' = [run EXCEPT ![r] = x4]
    BY Zenon, <1>1, <1>5 DEF TypeInv, RunRec, h
  <2>9. y \in DaemonRec
    <3>1. daemon[d].children + 1 \in Nat
      BY <2>2
    <3> QED
      BY <2>1, <3>1, Zenon DEF DaemonRec
  <2>10. y.up = daemon[d].up /\ y.snap = daemon[d].snap
    BY <2>1 DEF DaemonRec
  <2>11. daemon' = [daemon EXCEPT ![d] = y]
    BY <1>5, Zenon
  <2> HIDE DEF x4, y
  <2>12. Changed(r) /\ run'[r] = x4
    BY Zenon, <2>6, <2>8, PutRun DEF TypeInv
  <2>13. /\ daemon' \in [Daemons -> DaemonRec]
         /\ \A e \in Daemons : daemon'[e].up = daemon[e].up /\ daemon'[e].snap = daemon[e].snap
    BY <2>9, <2>10, <2>11, Zenon DEF TypeInv
  <2> QED
    BY <2>7, <2>12, <2>13, Zenon DEF h
<1>6. CASE run' = [run EXCEPT ![r].pc = "output", ![r].db = Zero] /\ daemon' = daemon
  <2> DEFINE x2 == [x1 EXCEPT !.db = Zero]
  <2>1. x2 \in RunRec
    BY <1>4, ZeroType, Zenon DEF RunRec
  <2>2. /\ x2.pc = "output" /\ x2.opt = run[r].opt /\ x2.ino = run[r].ino
        /\ x2.db = Zero /\ x2.src = run[r].src /\ x2.hist = run[r].hist
    BY <1>1 DEF RunRec
  <2>3. run' = [run EXCEPT ![r] = x2]
    BY Zenon, <1>1, <1>6 DEF TypeInv, RunRec
  <2> HIDE DEF x2
  <2>4. Changed(r) /\ run'[r] = x2
    BY Zenon, <2>1, <2>3, PutRun DEF TypeInv
  <2> QED
    BY <1>2, <1>6, <2>2, <2>4, Zenon DEF TypeInv
<1>7. \/ \E d \in Daemons :
           /\ daemon[d].up
           /\ daemon' = [daemon EXCEPT ![d].children = @ + 1]
           /\ run' = [run EXCEPT ![r].pc = "output", ![r].db = daemon[d].snap, ![r].src = d,
                                 ![r].hist = IF FetchStale(r, d) THEN Zero ELSE @]
      \/ run' = [run EXCEPT ![r].pc = "output", ![r].db = Zero] /\ daemon' = daemon
  BY Zenon DEF FetchDaemon, Server
<1> QED
  BY <1>2, <1>5, <1>6, <1>7, Zenon

\* The counters come from the kernel.
LEMMA FetchKernelFields ==
  ASSUME TypeInv, NEW r \in Runs, FetchKernel(r)
  PROVE  /\ Changed(r)
         /\ run[r].pc = "fetch" /\ run'[r].pc = "output"
         /\ run'[r].opt = run[r].opt /\ run'[r].ino = run[r].ino
         /\ \A d \in Daemons : ~daemon[d].up
         /\ run'[r].db = kern
         /\ run'[r].hist \in {Zero, run[r].hist}
         /\ run[r].src \in OwnSources =>
              run'[r].hist = run[r].hist /\ run'[r].src \in OwnSources /\ UNCHANGED reported
<1> DEFINE h == IF KernelStale(r) THEN Zero ELSE run[r].hist
           s == IF KernelStale(r) \/ run[r].src = "" THEN "kernel" ELSE run[r].src
           x1 == [run[r] EXCEPT !.pc = "output"]
           x2 == [x1 EXCEPT !.db = kern]
           x3 == [x2 EXCEPT !.hist = h]
           x4 == [x3 EXCEPT !.src = s]
<1>1. run[r] \in RunRec
  BY DEF TypeInv
<1>2. run[r].hist \in Table /\ run[r].src \in Sources
  BY <1>1, Zenon DEF RunRec
<1>3. h \in Table /\ h \in {Zero, run[r].hist}
  BY <1>2, ZeroType
<1>4. s \in Sources
  BY Zenon, <1>2 DEF Sources
<1>5. run' = [run EXCEPT ![r].pc = "output", ![r].db = kern, ![r].hist = h, ![r].src = s]
  BY Zenon DEF FetchKernel
<1>6. run[r].pc = "fetch" /\ \A d \in Daemons : ~daemon[d].up
  BY Zenon DEF FetchKernel
<1>a. run[r].src \in OwnSources => h = run[r].hist /\ s \in OwnSources /\ UNCHANGED reported
  <2>1. Anew(r, KernelStale(r))
    BY Zenon DEF FetchKernel
  <2> QED
    BY <2>1, Zenon DEF OwnSources, KernelStale, Anew
<1> HIDE DEF h, s
<1>7. x1 \in RunRec
  BY <1>1, Zenon DEF RunRec, Pcs
<1>8. x2 \in RunRec
  BY <1>7, Zenon DEF RunRec, TypeInv
<1>9. x3 \in RunRec
  BY <1>3, <1>8, Zenon DEF RunRec
<1>10. x4 \in RunRec
  BY <1>4, <1>9, Zenon DEF RunRec
<1>11. /\ x4.pc = "output" /\ x4.opt = run[r].opt /\ x4.ino = run[r].ino
       /\ x4.db = kern /\ x4.hist = h /\ x4.src = s
  BY <1>1 DEF RunRec
<1>12. run' = [run EXCEPT ![r] = x4]
  BY Zenon, <1>1, <1>5 DEF TypeInv, RunRec
<1> HIDE DEF x4
<1>13. Changed(r) /\ run'[r] = x4
  BY Zenon, <1>10, <1>12, PutRun DEF TypeInv
<1> QED
  BY <1>3, <1>6, <1>a, <1>11, <1>13, Zenon

\* What a run writes to its history.
LEMMA WrittenType ==
  ASSUME TypeInv, NEW r \in Runs
  PROVE  /\ Written(r) \in FileRec
         /\ Written(r).src = run[r].src /\ ~Written(r).old
         /\ \A c \in Counters : Written(r).vals[c] = HistoryValue(r, c)
<1>1. run[r] \in RunRec
  BY DEF TypeInv
<1>2. run[r].hist \in Table /\ run[r].db \in Table /\ run[r].src \in Sources
  BY <1>1, Zenon DEF RunRec
<1> DEFINE t == [c \in Counters |-> HistoryValue(r, c)]
<1>3. t \in Table
  BY <1>2 DEF Table, HistoryValue
<1>4. \A c \in Counters : t[c] = HistoryValue(r, c)
  OBVIOUS
<1>5. Written(r) = File(run[r].src, t)
  BY DEF Written
<1> HIDE DEF t
<1>6. File(run[r].src, t) \in FileRec
  BY <1>2, <1>3, Zenon DEF File, FileRec
<1>7. /\ File(run[r].src, t).src = run[r].src /\ File(run[r].src, t).vals = t
      /\ File(run[r].src, t).old = FALSE
  BY DEF File
<1> QED
  BY <1>4, <1>5, <1>6, <1>7, Zenon

\* A run that is killed leaves its history as it was, or with the values of some of the
\* counters cut off or made smaller.
LEMMA KilledFields ==
  ASSUME TypeInv, NEW r \in Runs, Killed(r)
  PROVE  /\ Changed(r) /\ run'[r].pc = "exit" /\ run'[r].src = ""
         /\ Release(r)
         /\ run[r].pc \notin {"idle", "exit"}
         /\ \/ files' = files
            \/ /\ run[r].pc = "write"
               /\ \E f \in FileRec :
                    /\ files' = [files EXCEPT ![run[r].ino] = f]
                    /\ f.src = run[r].src
                    /\ \A c \in Counters : f.vals[c] <= HistoryValue(r, c)
<1>1. Exit(r) /\ Release(r) /\ run[r].pc \notin {"idle", "exit"}
  BY Zenon DEF Killed
<1>2. ASSUME NEW cut \in Counters, NEW torn \in BOOLEAN, NEW v \in 0..HistoryValue(r, cut),
             files' = [files EXCEPT ![run[r].ino] =
               [Written(r) EXCEPT !.vals = [c \in Counters |-> IF c < cut THEN @[c]
                                                           ELSE IF c = cut THEN v ELSE 0],
                                  !.torn = torn]]
      PROVE  \E f \in FileRec :
               /\ files' = [files EXCEPT ![run[r].ino] = f]
               /\ f.src = run[r].src
               /\ \A c \in Counters : f.vals[c] <= HistoryValue(r, c)
  <2> DEFINE w == Written(r)
             t == [c \in Counters |-> IF c < cut THEN w.vals[c] ELSE IF c = cut THEN v ELSE 0]
             f1 == [w EXCEPT !.vals = t]
             f2 == [f1 EXCEPT !.torn = torn]
  <2>1. w \in FileRec /\ w.src = run[r].src
    BY WrittenType
  <2>2. w.vals \in Table /\ \A c \in Counters : w.vals[c] = HistoryValue(r, c)
    BY <2>1, WrittenType, Zenon DEF FileRec
  <2>3. files' = [files EXCEPT ![run[r].ino] = f2]
    BY <1>2, Zenon
  <2> HIDE DEF w
  <2>4. v \in Nat /\ v <= HistoryValue(r, cut)
    BY <2>2 DEF Table
  <2>5. t \in Table
    BY <2>2, <2>4 DEF Table
  <2>6. \A c \in Counters : t[c] <= HistoryValue(r, c)
    BY <2>2, <2>4 DEF Table
  <2> HIDE DEF t
  <2>7. f1 \in FileRec
    BY <2>1, <2>5, Zenon DEF FileRec
  <2>8. f2 \in FileRec
    BY <2>7, Zenon DEF FileRec
  <2>9. f2.src = run[r].src /\ f2.vals = t
    BY <2>1 DEF FileRec
  <2> HIDE DEF f2
  <2> QED
    BY <2>3, <2>6, <2>8, <2>9, Zenon
<1>3. \/ files' = files
      \/ /\ run[r].pc = "write"
         /\ \E cut \in Counters, torn \in BOOLEAN : \E v \in 0..HistoryValue(r, cut) :
              files' = [files EXCEPT ![run[r].ino] =
                [Written(r) EXCEPT !.vals = [c \in Counters |-> IF c < cut THEN @[c]
                                                            ELSE IF c = cut THEN v ELSE 0],
                                   !.torn = torn]]
  BY Zenon DEF Killed
<1>4. Changed(r) /\ run'[r].pc = "exit" /\ run'[r].src = ""
  BY Zenon, <1>1, ExitFields DEF TypeInv
<1> QED
  BY <1>1, <1>2, <1>3, <1>4, Zenon

\* The lock is taken, or the file turns out to be unlinked.
LEMMA FlockFields ==
  ASSUME TypeInv, NEW r \in Runs, Flock(r)
  PROVE  /\ Changed(r)
         /\ run[r].pc = "flock" /\ lock[run[r].ino] = Nobody
         /\ \/ run'[r].pc = "exit" /\ run'[r].src = "" /\ UNCHANGED lock
            \/ /\ run[r].ino = path /\ lock' = [lock EXCEPT ![path] = r]
               /\ run'[r].pc = "load" /\ run'[r].opt = run[r].opt /\ run'[r].ino = run[r].ino
               /\ run'[r].src = run[r].src
<1>1. run[r].pc = "flock" /\ lock[run[r].ino] = Nobody
  BY DEF Flock, LockFree
<1>2. CASE Exit(r) /\ UNCHANGED lock
  BY Zenon, <1>1, <1>2, ExitFields DEF TypeInv
<1>3. CASE run[r].ino = path /\ lock' = [lock EXCEPT ![path] = r] /\ Goto(r, "load")
  <2>1. "load" \in Pcs
    BY DEF Pcs
  <2> QED
    BY Zenon, <1>1, <1>3, <2>1, GotoFields DEF TypeInv
<1> QED
  BY <1>2, <1>3, Zenon DEF Flock

\* It prints, and ends if the history is not to be updated.
LEMMA OutputFields ==
  ASSUME TypeInv, NEW r \in Runs, Output(r)
  PROVE  /\ Changed(r)
         /\ run[r].pc = "output"
         /\ \/ run'[r].pc = "exit" /\ run'[r].src = "" /\ Release(r)
            \/ /\ ~run[r].opt.no_update /\ UNCHANGED lock
               /\ run'[r].pc = "truncate" /\ run'[r].opt = run[r].opt /\ run'[r].ino = run[r].ino
               /\ run'[r].src = run[r].src /\ run'[r].hist = run[r].hist
               /\ run'[r].db = run[r].db
<1>1. run[r].pc = "output"
  BY DEF Output
<1>2. CASE Exit(r) /\ Release(r)
  BY Zenon, <1>1, <1>2, ExitFields DEF TypeInv
<1>3. CASE ~run[r].opt.no_update /\ Goto(r, "truncate") /\ UNCHANGED lock
  <2>1. "truncate" \in Pcs
    BY DEF Pcs
  <2> QED
    BY Zenon, <1>1, <1>3, <2>1, GotoFields DEF TypeInv
<1> QED
  BY <1>2, <1>3, Zenon DEF Output

\* The history is emptied.
LEMMA TruncateFields ==
  ASSUME TypeInv, NEW r \in Runs, Truncate(r)
  PROVE  /\ Changed(r)
         /\ run[r].pc = "truncate" /\ run'[r].pc = "write"
         /\ run'[r].opt = run[r].opt /\ run'[r].ino = run[r].ino
         /\ run'[r].src = run[r].src /\ run'[r].hist = run[r].hist /\ run'[r].db = run[r].db
<1>1. run[r].pc = "truncate" /\ Goto(r, "write")
  BY Zenon DEF Truncate
<1>2. "write" \in Pcs
  BY DEF Pcs
<1> QED
  BY <1>1, <1>2, GotoFields DEF TypeInv

\* The history is written, and the run ends.
LEMMA WriteFields ==
  ASSUME TypeInv, NEW r \in Runs, Write(r)
  PROVE  Changed(r) /\ run[r].pc = "write" /\ run'[r].pc = "exit" /\ run'[r].src = ""
<1>1. run[r].pc = "write" /\ Exit(r)
  BY Zenon DEF Write
<1> QED
  BY Zenon, <1>1, ExitFields DEF TypeInv

\* A file is closed: only its own lock goes.
LEMMA ReleaseFields ==
  ASSUME TypeInv, NEW r \in Runs, Release(r)
  PROVE  /\ lock' \in [Inodes -> Nat]
         /\ \A i \in Inodes : lock'[i] = IF lock[i] = r THEN Nobody ELSE lock[i]
  BY DEF Release, TypeInv, Nobody

\* What the daemons do, to themselves only.
DaemonStep == \E d \in Daemons : DaemonStart(d) \/ DaemonScan(d) \/ DaemonReap(d) \/ DaemonKilled(d)

\* A daemon that does not run.
LEMMA NoDaemonType == NoDaemon \in DaemonRec /\ NoDaemon.up = FALSE
<1>1. NoDaemon \in DaemonRec
  BY ZeroType, Zenon DEF NoDaemon, DaemonRec
<1> QED
  BY <1>1 DEF NoDaemon

\* A daemon that runs keeps its snapshot, takes a new one, or has just been started under a
\* name that nobody has used.
LEMMA DaemonFields ==
  ASSUME TypeInv, DaemonStep
  PROVE  /\ daemon' \in [Daemons -> DaemonRec]
         /\ UNCHANGED <<kern, files, path, lock, run>>
         /\ \A e \in Daemons : daemon'[e].up =>
              \/ daemon'[e].snap = kern
              \/ daemon[e].up /\ daemon'[e].snap = daemon[e].snap
         /\ \A e \in Daemons : daemon'[e].up /\ ~daemon[e].up =>
              /\ \A i \in Inodes : files[i].src # e
              /\ \A r \in Runs : run[r].src # e
<1>1. UNCHANGED <<kern, files, path, lock, run>>
  BY DEF DaemonStep, DaemonStart, DaemonScan, DaemonReap, DaemonKilled
<1>2. PICK d \in Daemons : DaemonStart(d) \/ DaemonScan(d) \/ DaemonReap(d) \/ DaemonKilled(d)
  BY DEF DaemonStep
<1>3. daemon[d] \in DaemonRec
  BY DEF TypeInv
<1>4. daemon[d].up \in BOOLEAN /\ daemon[d].snap \in Table /\ daemon[d].children \in Nat
  BY <1>3, Zenon DEF DaemonRec
<1>5. \E y \in DaemonRec :
        /\ daemon' = [daemon EXCEPT ![d] = y]
        /\ y.up => \/ y.snap = kern
                   \/ daemon[d].up /\ y.snap = daemon[d].snap
        /\ y.up /\ ~daemon[d].up => /\ \A i \in Inodes : files[i].src # d
                                    /\ \A r \in Runs : run[r].src # d
  <2>1. CASE DaemonStart(d)
    <3> DEFINE y == [up |-> TRUE, snap |-> kern, children |-> 0]
    <3>1. y \in DaemonRec
      BY Zenon DEF DaemonRec, TypeInv
    <3>2. y.snap = kern
      OBVIOUS
    <3>3. DOMAIN files = Inodes
      BY DEF TypeInv
    <3>4. /\ daemon' = [daemon EXCEPT ![d] = y]
          /\ \A i \in Inodes : files[i].src # d
          /\ \A r \in Runs : run[r].src # d
      BY <2>1, <3>3, Zenon DEF DaemonStart
    <3> HIDE DEF y
    <3> QED
      BY <3>1, <3>2, <3>4, Zenon
  <2>2. CASE DaemonScan(d)
    <3> DEFINE y == [daemon[d] EXCEPT !.snap = kern]
    <3>1. y \in DaemonRec
      BY <1>3, Zenon DEF DaemonRec, TypeInv
    <3>2. y.snap = kern
      BY <1>3 DEF DaemonRec
    <3>3. daemon' = [daemon EXCEPT ![d] = y] /\ daemon[d].up
      BY <2>2, Zenon DEF DaemonScan
    <3> HIDE DEF y
    <3> QED
      BY <3>1, <3>2, <3>3, Zenon
  <2>3. CASE DaemonReap(d)
    <3> DEFINE y == [daemon[d] EXCEPT !.children = daemon[d].children - 1]
    <3>1. daemon[d].children - 1 \in Nat
      BY <1>4, <2>3 DEF DaemonReap
    <3>2. y \in DaemonRec
      BY <1>3, <3>1, Zenon DEF DaemonRec
    <3>3. y.up = daemon[d].up /\ y.snap = daemon[d].snap
      BY <1>3 DEF DaemonRec
    <3>4. daemon' = [daemon EXCEPT ![d] = y]
      BY <2>3, Zenon DEF DaemonReap
    <3> HIDE DEF y
    <3> QED
      BY <3>2, <3>3, <3>4, Zenon
  <2>4. CASE DaemonKilled(d)
    <3>1. daemon' = [daemon EXCEPT ![d] = NoDaemon]
      BY <2>4, Zenon DEF DaemonKilled
    <3> QED
      BY <3>1, NoDaemonType, Zenon
  <2> QED
    BY <1>2, <2>1, <2>2, <2>3, <2>4
<1> QED
  BY <1>1, <1>5, Zenon DEF TypeInv

\* After a reboot every history is old.
LEMMA RebootFields ==
  ASSUME TypeInv, Reboot
  PROVE  /\ UNCHANGED <<path, lock, run>>
         /\ kern' = Zero
         /\ files' \in [Inodes -> FileRec]
         /\ \A i \in Inodes : files'[i].old /\ files'[i].src = files[i].src
         /\ daemon' \in [Daemons -> DaemonRec] /\ \A d \in Daemons : ~daemon'[d].up
         /\ \A r \in Runs : run[r].pc \in {"idle", "exit"}
<1>1. /\ UNCHANGED <<path, lock, run>>
      /\ kern' = Zero
      /\ \A r \in Runs : run[r].pc \in {"idle", "exit"}
      /\ files' = [i \in DOMAIN files |-> [files[i] EXCEPT !.old = TRUE]]
      /\ daemon' = [d \in Daemons |-> NoDaemon]
  BY Zenon DEF Reboot
<1>2. DOMAIN files = Inodes
  BY DEF TypeInv
<1>3. ASSUME NEW i \in Inodes
      PROVE  /\ [files[i] EXCEPT !.old = TRUE] \in FileRec /\ [files[i] EXCEPT !.old = TRUE].old
             /\ [files[i] EXCEPT !.old = TRUE].src = files[i].src
  <2>1. files[i] \in FileRec
    BY DEF TypeInv
  <2>2. [files[i] EXCEPT !.old = TRUE] \in FileRec
    BY <2>1, Zenon DEF FileRec
  <2>3. /\ [files[i] EXCEPT !.old = TRUE].old = TRUE
        /\ [files[i] EXCEPT !.old = TRUE].src = files[i].src
    BY <2>1 DEF FileRec
  <2> QED
    BY <2>2, <2>3
<1>4. /\ files' \in [Inodes -> FileRec]
      /\ \A i \in Inodes : files'[i].old /\ files'[i].src = files[i].src
  BY <1>1, <1>2, <1>3, Zenon
<1>5. daemon' \in [Daemons -> DaemonRec] /\ \A d \in Daemons : ~daemon'[d].up
  BY <1>1, NoDaemonType, Zenon
<1> QED
  BY <1>1, <1>4, <1>5

\* One counter counts.
LEMMA CountFields ==
  ASSUME TypeInv, NEW c \in Counters, Count(c)
  PROVE  /\ UNCHANGED <<files, path, lock, run, daemon>>
         /\ kern' \in Table /\ \A b \in Counters : kern[b] <= kern'[b]
  BY DEF Count, TypeInv, Table

\* The cases of NstatNext.
LEMMA NextCases ==
  ASSUME NstatNext
  PROVE  \/ \E r \in Runs, o \in set.options : Start(r, o)
         \/ \E r \in Runs : Step(r) \/ Killed(r)
         \/ \E c \in Counters : Count(c)
         \/ Reboot
         \/ DaemonStep
  BY Zenon DEF NstatNext, DaemonStep

\* The types of the state hold in every reachable state.
THEOREM NstatTypes == NstatSpec => []TypeInv
<1>1. NstatInit => TypeInv
  <2> SUFFICES ASSUME NstatInit  PROVE TypeInv
    OBVIOUS
  <2>1. set \in Settings /\ kern \in Table /\ lock \in [Inodes -> Nat]
    BY ZeroType DEF NstatInit, Inodes, Nobody
  <2>2. path \in Inodes
    BY NstatAssumption DEF NstatInit, Inodes
  <2>3. files \in [Inodes -> FileRec]
    BY Zenon, EmptyType DEF NstatInit, Inodes
  <2>4. run \in [Runs -> RunRec] /\ \A r \in Runs : run[r].pc = "idle"
    BY Zenon, IdleType DEF NstatInit
  <2>5. daemon \in [Daemons -> DaemonRec]
    BY NoDaemonType DEF NstatInit
  <2> QED
    BY <2>1, <2>2, <2>3, <2>4, <2>5 DEF TypeInv
<1>2. TypeInv /\ [NstatNext]_nstatVars => TypeInv'
  <2> SUFFICES ASSUME TypeInv, [NstatNext]_nstatVars
               PROVE  TypeInv'
    OBVIOUS
  <2>1. CASE UNCHANGED nstatVars
    BY <2>1 DEF TypeInv, nstatVars
  <2>2. CASE NstatNext
    <3>1. set' = set
      BY <2>2 DEF NstatNext
    <3>2. ASSUME NEW r \in Runs, Changed(r),
                 run'[r].pc \notin {"idle", "exit"} =>
                   run'[r].ino \in Inodes /\ run'[r].opt \in set.options,
                 UNCHANGED <<kern>>, files' \in [Inodes -> FileRec], path' \in Inodes,
                 lock' \in [Inodes -> Nat], daemon' \in [Daemons -> DaemonRec]
          PROVE  TypeInv'
      BY <3>1, <3>2 DEF TypeInv, Changed
    <3>3. CASE \E r \in Runs, o \in set.options : Start(r, o)
      <4>1. PICK r \in Runs, o \in set.options : Start(r, o)
        BY <3>3
      <4>2. UNCHANGED <<kern, files, lock, daemon>>
        BY <4>1 DEF Start
      <4> QED
        BY Zenon, <3>2, <4>1, <4>2, StartFields DEF TypeInv
    <3>4. ASSUME NEW r \in Runs, Flock(r)  PROVE TypeInv'
      <4>1. UNCHANGED <<kern, files, path, daemon>>
        BY <3>4 DEF Flock
      <4>2. lock' \in [Inodes -> Nat]
        <5>1. r \in Nat
          BY NstatAssumption DEF Runs
        <5> QED
          BY Zenon, <3>4, <5>1, FlockFields DEF TypeInv
      <4> QED
        BY Zenon, <3>2, <3>4, <4>1, <4>2, FlockFields DEF TypeInv
    <3>5. ASSUME NEW r \in Runs, Load(r)  PROVE TypeInv'
      <4>1. UNCHANGED <<kern, path, daemon>>
        BY <3>5 DEF Load
      <4>2. files' \in [Inodes -> FileRec]
        <5>1. PICK f \in FileRec : files' = [files EXCEPT ![run[r].ino] = f]
          BY Zenon, <3>5, LoadFields
        <5> QED
          BY Zenon, <5>1 DEF TypeInv
      <4>3. lock' \in [Inodes -> Nat]
        BY Zenon, <3>5, LoadFields, ReleaseFields DEF TypeInv
      <4>4. Changed(r) /\ run[r].pc = "load"
            /\ \/ run'[r].pc = "exit"
               \/ run'[r].opt = run[r].opt /\ run'[r].ino = run[r].ino
        BY Zenon, <3>5, LoadFields
      <4> QED
        BY <3>2, <4>1, <4>2, <4>3, <4>4 DEF TypeInv
    <3>6. ASSUME NEW r \in Runs, FetchDaemon(r)  PROVE TypeInv'
      <4>1. UNCHANGED <<kern, files, path, lock>>
        BY <3>6 DEF FetchDaemon
      <4>2. /\ Changed(r) /\ run[r].pc = "fetch" /\ daemon' \in [Daemons -> DaemonRec]
            /\ run'[r].opt = run[r].opt /\ run'[r].ino = run[r].ino
        BY <3>6, FetchDaemonFields
      <4> QED
        BY <3>2, <4>1, <4>2 DEF TypeInv
    <3>7. ASSUME NEW r \in Runs, FetchKernel(r)  PROVE TypeInv'
      <4>1. UNCHANGED <<kern, files, path, lock, daemon>>
        BY Zenon, <3>7 DEF FetchKernel
      <4> QED
        BY <3>2, <3>7, <4>1, FetchKernelFields DEF TypeInv
    <3>8. ASSUME NEW r \in Runs, Output(r)  PROVE TypeInv'
      <4>1. UNCHANGED <<kern, files, path, daemon>>
        BY <3>8 DEF Output
      <4>2. lock' \in [Inodes -> Nat]
        BY Zenon, <3>8, OutputFields, ReleaseFields DEF TypeInv
      <4> QED
        BY Zenon, <3>2, <3>8, <4>1, <4>2, OutputFields DEF TypeInv
    <3>9. ASSUME NEW r \in Runs, Truncate(r)  PROVE TypeInv'
      <4>1. UNCHANGED <<kern, path, lock, daemon>> /\ files' = [files EXCEPT ![run[r].ino] = EmptyFile]
        BY <3>9 DEF Truncate
      <4>2. files' \in [Inodes -> FileRec]
        BY Zenon, <4>1, EmptyType DEF TypeInv
      <4> QED
        BY <3>2, <3>9, <4>1, <4>2, TruncateFields DEF TypeInv
    <3>10. ASSUME NEW r \in Runs, Write(r)  PROVE TypeInv'
      <4>1. /\ UNCHANGED <<kern, path, daemon>> /\ files' = [files EXCEPT ![run[r].ino] = Written(r)]
            /\ Release(r)
        BY <3>10 DEF Write
      <4>2. files' \in [Inodes -> FileRec]
        BY Zenon, <4>1, WrittenType DEF TypeInv
      <4> QED
        BY Zenon, <3>2, <3>10, <4>1, <4>2, WriteFields, ReleaseFields DEF TypeInv
    <3>11. ASSUME NEW r \in Runs, Killed(r)  PROVE TypeInv'
      <4>1. UNCHANGED <<kern, path, daemon>>
        BY Zenon, <3>11 DEF Killed
      <4>2. files' \in [Inodes -> FileRec]
        <5>1. \/ files' = files
              \/ \E f \in FileRec : files' = [files EXCEPT ![run[r].ino] = f]
          BY Zenon, <3>11, KilledFields
        <5> QED
          BY <5>1 DEF TypeInv
      <4>3. Changed(r) /\ run'[r].pc = "exit" /\ Release(r)
        BY Zenon, <3>11, KilledFields
      <4> QED
        BY <3>2, <4>1, <4>2, <4>3, ReleaseFields DEF TypeInv
    <3>12. CASE \E c \in Counters : Count(c)
      BY <3>1, <3>12, CountFields DEF TypeInv
    <3>13. CASE Reboot
      <4>1. kern' \in Table
        BY <3>13, RebootFields, ZeroType
      <4> QED
        BY <3>1, <3>13, <4>1, RebootFields DEF TypeInv
    <3>14. CASE DaemonStep
      BY <3>1, <3>14, DaemonFields DEF TypeInv
    <3> QED
      BY Zenon, <2>2, <3>3, <3>4, <3>5, <3>6, <3>7, <3>8, <3>9, <3>10, <3>11, <3>12, <3>13, <3>14,
         NextCases, Zenon DEF Step
  <2> QED
    BY <2>1, <2>2
<1> QED
  BY <1>1, <1>2, PTL DEF NstatSpec

----------------------------------------------------------------------------
(* The lock.                                                               *)

\* A run has the lock from flock to its exit, unless it never opened the history.
Holds(x) == \/ x.pc \in {"load", "truncate", "write"}
            \/ x.pc \in {"fetch", "output"} /\ UsesFile(x.opt)

LockInv ==
  \A r \in Runs :
    /\ Holds(run[r]) => lock[run[r].ino] = r
    /\ run[r].pc \in {"truncate", "write"} => ~run[r].opt.no_update

\* A step of r that leaves the lock alone, and with which r gets nothing new to hold.
LEMMA LockQuiet ==
  ASSUME LockInv, NEW r \in Runs, Changed(r), UNCHANGED lock,
         Holds(run'[r]) => Holds(run[r]) /\ run'[r].ino = run[r].ino,
         run'[r].pc \in {"truncate", "write"} => ~run'[r].opt.no_update
  PROVE  LockInv'
  BY Zenon DEF LockInv, Changed

\* A step of r with which it ends.
LEMMA LockEnds ==
  ASSUME TypeInv, LockInv, NEW r \in Runs, Changed(r), Release(r), run'[r].pc = "exit"
  PROVE  LockInv'
<1>1. ~Holds(run'[r])
  BY DEF Holds
<1>2. ASSUME NEW q \in Runs \ {r}, Holds(run[q])
      PROVE  lock'[run[q].ino] = q
  <2>1. lock[run[q].ino] = q /\ run[q].ino \in Inodes
    BY <1>2 DEF LockInv, TypeInv, Holds
  <2> QED
    BY <2>1, ReleaseFields
<1> QED
  BY <1>1, <1>2 DEF LockInv, Changed

\* LockInv is inductive.
LEMMA LockStep == TypeInv /\ LockInv /\ [NstatNext]_nstatVars => LockInv'
<1> SUFFICES ASSUME TypeInv, LockInv, [NstatNext]_nstatVars
             PROVE  LockInv'
  OBVIOUS
<1>1. CASE UNCHANGED nstatVars
  BY <1>1 DEF LockInv, nstatVars
<1>2. CASE NstatNext
  <2>1. CASE \E r \in Runs, o \in set.options : Start(r, o)
    <3>1. PICK r \in Runs, o \in set.options : Start(r, o)
      BY <2>1
    <3>2. UNCHANGED lock
      BY <3>1 DEF Start
    <3>3. Changed(r) /\ run'[r].pc = (IF UsesFile(o) THEN "flock" ELSE "fetch") /\ run'[r].opt = o
      BY Zenon, <3>1, StartFields
    <3>4. ~Holds(run'[r])
      BY <3>3 DEF Holds
    <3> QED
      BY <3>2, <3>3, <3>4, LockQuiet
  <2>2. ASSUME NEW r \in Runs, Flock(r)  PROVE LockInv'
    <3>1. CASE run'[r].pc = "exit" /\ UNCHANGED lock
      <4>1. ~Holds(run'[r])
        BY <3>1 DEF Holds
      <4> QED
        BY Zenon, <2>2, <3>1, <4>1, FlockFields, LockQuiet
    <3>2. CASE /\ run[r].ino = path /\ lock' = [lock EXCEPT ![path] = r]
               /\ run'[r].pc = "load" /\ run'[r].ino = run[r].ino
      <4>1. Changed(r) /\ lock[path] = Nobody
        BY Zenon, <2>2, <3>2, FlockFields
      <4>2. ASSUME NEW q \in Runs \ {r}, Holds(run[q])
            PROVE  lock'[run[q].ino] = q
        <5>1. lock[run[q].ino] = q /\ run[q].ino \in Inodes
          BY <4>2 DEF LockInv, TypeInv, Holds
        <5>2. q # Nobody
          BY NstatAssumption DEF Runs, Nobody
        <5> QED
          BY <3>2, <4>1, <5>1, <5>2 DEF TypeInv
      <4>3. lock'[path] = r
        BY <3>2 DEF TypeInv
      <4> QED
        BY <3>2, <4>1, <4>2, <4>3 DEF LockInv, Changed
    <3> QED
      BY Zenon, <2>2, <3>1, <3>2, FlockFields
  <2>3. ASSUME NEW r \in Runs, Load(r)  PROVE LockInv'
    <3>1. Changed(r) /\ run[r].pc = "load"
      BY Zenon, <2>3, LoadFields
    <3>2. CASE run'[r].pc = "exit" /\ Release(r)
      BY <3>1, <3>2, LockEnds
    <3>3. CASE run'[r].pc = "fetch" /\ run'[r].ino = run[r].ino /\ UNCHANGED lock
      <4>1. Holds(run[r])
        BY <3>1 DEF Holds
      <4> QED
        BY <3>1, <3>3, <4>1, LockQuiet
    <3> QED
      BY Zenon, <2>3, <3>2, <3>3, LoadFields
  <2>4. ASSUME NEW r \in Runs, FetchDaemon(r) \/ FetchKernel(r)  PROVE LockInv'
    <3>1. /\ Changed(r) /\ run[r].pc = "fetch" /\ run'[r].pc = "output"
          /\ run'[r].opt = run[r].opt /\ run'[r].ino = run[r].ino
      BY SMTT(20), <2>4, FetchDaemonFields, FetchKernelFields
    <3>2. UNCHANGED lock
      BY Zenon, <2>4 DEF FetchDaemon, FetchKernel
    <3>3. Holds(run'[r]) => Holds(run[r])
      BY <3>1 DEF Holds
    <3> QED
      BY <3>1, <3>2, <3>3, LockQuiet
  <2>5. ASSUME NEW r \in Runs, Output(r)  PROVE LockInv'
    <3>1. Changed(r) /\ run[r].pc = "output"
      BY Zenon, <2>5, OutputFields
    <3>2. CASE run'[r].pc = "exit" /\ Release(r)
      BY <3>1, <3>2, LockEnds
    <3>3. CASE /\ ~run[r].opt.no_update /\ UNCHANGED lock
               /\ run'[r].pc = "truncate" /\ run'[r].opt = run[r].opt /\ run'[r].ino = run[r].ino
      <4>1. Holds(run[r])
        BY <3>1, <3>3 DEF Holds, UsesFile
      <4> QED
        BY <3>1, <3>3, <4>1, LockQuiet
    <3> QED
      BY Zenon, <2>5, <3>2, <3>3, OutputFields
  <2>6. ASSUME NEW r \in Runs, Truncate(r)  PROVE LockInv'
    <3>1. /\ Changed(r) /\ run[r].pc = "truncate" /\ run'[r].pc = "write"
          /\ run'[r].opt = run[r].opt /\ run'[r].ino = run[r].ino
      BY <2>6, TruncateFields
    <3>2. UNCHANGED lock
      BY <2>6 DEF Truncate
    <3>3. Holds(run[r]) /\ ~run'[r].opt.no_update
      BY <3>1 DEF Holds, LockInv
    <3> QED
      BY <3>1, <3>2, <3>3, LockQuiet
  <2>7. ASSUME NEW r \in Runs, Write(r)  PROVE LockInv'
    <3>1. Release(r)
      BY <2>7 DEF Write
    <3> QED
      BY Zenon, <2>7, <3>1, WriteFields, LockEnds
  <2>8. ASSUME NEW r \in Runs, Killed(r)  PROVE LockInv'
    BY Zenon, <2>8, KilledFields, LockEnds
  <2>9. CASE (\E c \in Counters : Count(c)) \/ Reboot \/ DaemonStep
    <3>1. UNCHANGED <<run, lock>>
      BY <2>9, CountFields, RebootFields, DaemonFields
    <3> QED
      BY <3>1 DEF LockInv
  <2> QED
    BY <1>2, <2>1, <2>2, <2>3, <2>4, <2>5, <2>6, <2>7, <2>8, <2>9, NextCases, Zenon DEF Step
<1> QED
  BY <1>1, <1>2

\* Exclusive for every number of runs, resets, reboots and crashes: whoever reads or
\* rewrites a history holds its lock, and keeps it until the file is closed.
THEOREM RunsExcludeEachOther == NstatSpec => []Exclusive
<1>1. NstatInit => LockInv
  <2> SUFFICES ASSUME NstatInit, NEW r \in Runs  PROVE run[r].pc = "idle"
    BY DEF LockInv, Holds
  <2> QED
    BY Zenon, IdleType DEF NstatInit
<1>2. LockInv => Exclusive
  <2> SUFFICES ASSUME LockInv, NEW r \in Runs, NEW q \in Runs, r # q,
                      run[r].pc \in {"load", "truncate", "write"},
                      run[q].pc \in {"load", "truncate", "write"}
               PROVE  run[r].ino # run[q].ino
    BY DEF Exclusive
  <2>1. lock[run[r].ino] = r /\ lock[run[q].ino] = q
    BY DEF LockInv, Holds
  <2> QED
    BY <2>1
<1> QED
  BY <1>1, <1>2, NstatTypes, LockStep, PTL DEF NstatSpec

----------------------------------------------------------------------------
(* The history and the counters it is compared with.                       *)

AtMost(t, u) == \A c \in Counters : t[c] <= u[c]

\* A table with the name of source s is nowhere ahead of the kernel's counters k, nor of the
\* last scan of s if that is one of the daemons dm and running.
Covered(t, s, k, dm) ==
  /\ AtMost(t, k)
  /\ \A d \in Daemons : dm[d].up /\ s = d => AtMost(t, dm[d].snap)

RunCovered(x, k, dm) ==
  /\ x.pc \in {"fetch", "output", "truncate", "write"} /\ ~x.opt.ignore_history =>
       Covered(x.hist, x.src, k, dm)
  /\ x.pc \in {"output", "truncate", "write"} => Covered(x.db, x.src, k, dm)
  /\ x.pc = "output" /\ ~x.opt.ignore_history =>
       \A c \in Counters : x.db[c] # 0 => x.hist[c] <= x.db[c]

CoverInv ==
  /\ \A d \in Daemons : daemon[d].up => AtMost(daemon[d].snap, kern)
  /\ \A i \in Inodes : ~files[i].old => Covered(files[i].vals, files[i].src, kern, daemon)
  /\ \A r \in Runs : RunCovered(run[r], kern, daemon)

\* A run that updates the history without looking at its age replaces all of it.
WholeIfIgnored == \A o \in set.options : o.ignore_history => o.no_update \/ o.match = Counters

\* The order of tables is transitive.
LEMMA AtMostTrans ==
  ASSUME NEW t \in Table, NEW u \in Table, NEW v \in Table, AtMost(t, u), AtMost(u, v)
  PROVE  AtMost(t, v)
  BY DEF AtMost, Table

\* The tables in the state.
LEMMA TablesOf ==
  ASSUME TypeInv
  PROVE  /\ \A r \in Runs : run[r].hist \in Table /\ run[r].db \in Table
         /\ \A i \in Inodes : files[i].vals \in Table
         /\ \A d \in Daemons : daemon[d].snap \in Table
<1>1. \A r \in Runs : run[r] \in RunRec
  BY DEF TypeInv
<1>2. \A i \in Inodes : files[i] \in FileRec
  BY DEF TypeInv
<1>3. \A d \in Daemons : daemon[d] \in DaemonRec
  BY DEF TypeInv
<1>4. \A r \in Runs : run[r].hist \in Table /\ run[r].db \in Table
  BY <1>1, Zenon DEF RunRec
<1>5. \A i \in Inodes : files[i].vals \in Table
  BY <1>2, Zenon DEF FileRec
<1>6. \A d \in Daemons : daemon[d].snap \in Table
  BY <1>3, Zenon DEF DaemonRec
<1> QED
  BY <1>4, <1>5, <1>6

\* An empty table is behind everything.
LEMMA ZeroCovered ==
  ASSUME TypeInv, NEW s
  PROVE  Covered(Zero, s, kern, daemon)
<1>1. \A u \in Table : AtMost(Zero, u)
  BY DEF AtMost, Zero, Table
<1> QED
  BY <1>1, TablesOf, Zenon DEF Covered, TypeInv

\* The kernel and the daemons only go forward, as far as tables with the name s can tell.
Forward(s) ==
  /\ AtMost(kern, kern')
  /\ \A d \in Daemons : daemon'[d].up /\ s = d =>
       daemon[d].up /\ AtMost(daemon[d].snap, daemon'[d].snap)

\* So a table stays covered.
LEMMA CoveredGrows ==
  ASSUME TypeInv, TypeInv', NEW t \in Table, NEW s, Covered(t, s, kern, daemon), Forward(s)
  PROVE  Covered(t, s, kern', daemon')
<1>1. AtMost(t, kern')
  BY AtMostTrans DEF Covered, Forward, TypeInv
<1>2. ASSUME NEW d \in Daemons, daemon'[d].up, s = d
      PROVE  AtMost(t, daemon'[d].snap)
  <2>1. AtMost(t, daemon[d].snap) /\ AtMost(daemon[d].snap, daemon'[d].snap)
    BY <1>2 DEF Covered, Forward
  <2>2. daemon[d].snap \in Table /\ daemon'[d].snap \in Table
    <3>1. daemon[d] \in DaemonRec /\ daemon'[d] \in DaemonRec
      BY DEF TypeInv
    <3> QED
      BY <3>1, Zenon DEF DaemonRec
  <2> QED
    BY <2>1, <2>2, AtMostTrans
<1> QED
  BY <1>1, <1>2 DEF Covered

\* The counters and the daemons' scans stay as they are.
SameSources ==
  /\ kern' = kern
  /\ \A d \in Daemons : daemon'[d].up = daemon[d].up /\ daemon'[d].snap = daemon[d].snap

\* Then the same tables are covered.
LEMMA CoveredSame ==
  ASSUME SameSources
  PROVE  /\ \A t, s : Covered(t, s, kern', daemon') <=> Covered(t, s, kern, daemon)
         /\ \A x : RunCovered(x, kern', daemon') <=> RunCovered(x, kern, daemon)
<1>1. \A t, s : Covered(t, s, kern', daemon') <=> Covered(t, s, kern, daemon)
  BY Zenon DEF Covered, SameSources
<1> QED
  BY <1>1, Zenon DEF RunCovered

\* A step of one run r: what it leaves in its record and in its file has to be covered.
LEMMA CoverRun ==
  ASSUME TypeInv, CoverInv, NEW r \in Runs, Changed(r), SameSources,
         RunCovered(run'[r], kern, daemon),
         \/ files' = files
         \/ /\ run[r].ino \in Inodes
            /\ \E f : /\ files' = [files EXCEPT ![run[r].ino] = f]
                      /\ ~f.old => Covered(f.vals, f.src, kern, daemon)
  PROVE  CoverInv'
<1>1. \A q \in Runs : RunCovered(run'[q], kern', daemon')
  BY CoveredSame, Zenon DEF CoverInv, Changed
<1>2. \A i \in Inodes : ~files'[i].old => Covered(files'[i].vals, files'[i].src, kern, daemon)
  <2>1. CASE files' = files
    BY <2>1, Zenon DEF CoverInv
  <2>2. CASE /\ run[r].ino \in Inodes
             /\ \E f : /\ files' = [files EXCEPT ![run[r].ino] = f]
                       /\ ~f.old => Covered(f.vals, f.src, kern, daemon)
    <3>1. PICK f : /\ files' = [files EXCEPT ![run[r].ino] = f]
                   /\ ~f.old => Covered(f.vals, f.src, kern, daemon)
      BY <2>2, Zenon
    <3>2. \A i \in Inodes : files'[i] = IF i = run[r].ino THEN f ELSE files[i]
      BY <3>1 DEF TypeInv
    <3> QED
      BY <3>1, <3>2, Zenon DEF CoverInv
  <2> QED
    BY <2>1, <2>2, Zenon
<1>3. \A i \in Inodes : ~files'[i].old => Covered(files'[i].vals, files'[i].src, kern', daemon')
  BY <1>2, CoveredSame, Zenon
<1>4. \A d \in Daemons : daemon'[d].up => AtMost(daemon'[d].snap, kern')
  BY Zenon DEF CoverInv, SameSources
<1> QED
  BY <1>1, <1>3, <1>4, Zenon DEF CoverInv

\* What a run writes is covered: of the counters it does not replace it keeps the history,
\* and then it has looked at the history's age.
LEMMA WrittenCovered ==
  ASSUME TypeInv, LockInv, CoverInv, WholeIfIgnored, NEW r \in Runs, run[r].pc = "write",
         NEW t \in Table, \A c \in Counters : t[c] <= HistoryValue(r, c)
  PROVE  Covered(t, run[r].src, kern, daemon)
<1> DEFINE s == run[r].src
           h == run[r].hist
           b == run[r].db
<1>1. h \in Table /\ b \in Table
  BY TablesOf
<1>2. Covered(b, s, kern, daemon) /\ (~run[r].opt.ignore_history => Covered(h, s, kern, daemon))
  BY Zenon DEF CoverInv, RunCovered
<1>3. run[r].opt.ignore_history => run[r].opt.match = Counters
  BY DEF WholeIfIgnored, TypeInv, LockInv
<1>4. ASSUME NEW u \in Table, AtMost(b, u), ~run[r].opt.ignore_history => AtMost(h, u)
      PROVE  AtMost(t, u)
  <2> SUFFICES ASSUME NEW c \in Counters  PROVE t[c] <= u[c]
    BY DEF AtMost
  <2>1. t[c] \in Nat /\ u[c] \in Nat /\ h[c] \in Nat /\ b[c] \in Nat
    BY <1>1 DEF Table
  <2>2. b[c] <= u[c] /\ (~run[r].opt.ignore_history => h[c] <= u[c])
    BY <1>4 DEF AtMost
  <2>3. HistoryValue(r, c) = b[c] \/ (HistoryValue(r, c) = h[c] /\ c \notin run[r].opt.match)
    BY DEF HistoryValue
  <2>4. HistoryValue(r, c) = b[c] \/ (HistoryValue(r, c) = h[c] /\ ~run[r].opt.ignore_history)
    BY <1>3, <2>3, Zenon
  <2>5. HistoryValue(r, c) <= u[c]
    <3>1. CASE HistoryValue(r, c) = b[c]
      BY <2>2, <3>1
    <3>2. CASE HistoryValue(r, c) = h[c] /\ ~run[r].opt.ignore_history
      BY <2>2, <3>2
    <3> QED
      BY <2>4, <3>1, <3>2
  <2>6. HistoryValue(r, c) \in Nat
    BY <2>1, <2>4
  <2>7. t[c] <= HistoryValue(r, c)
    OBVIOUS
  <2> HIDE DEF s, h, b
  <2> QED
    BY <2>1, <2>5, <2>6, <2>7
<1> HIDE DEF s, h, b
<1>5. AtMost(t, kern)
  BY <1>2, <1>4, Zenon DEF Covered, TypeInv
<1>6. ASSUME NEW d \in Daemons, daemon[d].up, s = d
      PROVE  AtMost(t, daemon[d].snap)
  BY <1>2, <1>4, <1>6, TablesOf, Zenon DEF Covered
<1> QED
  BY <1>5, <1>6 DEF Covered, s

\* CoverInv is inductive.
LEMMA CoverStep ==
  TypeInv /\ TypeInv' /\ LockInv /\ WholeIfIgnored /\ CoverInv /\ [NstatNext]_nstatVars => CoverInv'
<1> SUFFICES ASSUME TypeInv, TypeInv', LockInv, WholeIfIgnored, CoverInv, [NstatNext]_nstatVars
             PROVE  CoverInv'
  OBVIOUS
<1>1. CASE UNCHANGED nstatVars
  BY <1>1 DEF CoverInv, nstatVars
<1>2. CASE NstatNext
  <2>1. ASSUME NEW r \in Runs, NEW o \in set.options, Start(r, o)  PROVE CoverInv'
    <3>1. UNCHANGED <<kern, daemon, files>>
      BY <2>1 DEF Start
    <3>2. Changed(r) /\ run'[r].pc \in {"flock", "fetch"} /\ run'[r].hist = Zero
      BY Zenon, <2>1, StartFields
    <3>3. RunCovered(run'[r], kern, daemon)
      BY <3>2, ZeroCovered DEF RunCovered
    <3> QED
      BY <3>1, <3>2, <3>3, CoverRun, Zenon DEF SameSources
  <2>2. ASSUME NEW r \in Runs, Flock(r)  PROVE CoverInv'
    <3>1. UNCHANGED <<kern, daemon, files>>
      BY <2>2 DEF Flock
    <3>2. Changed(r) /\ run'[r].pc \in {"exit", "load"}
      BY Zenon, <2>2, FlockFields
    <3>3. RunCovered(run'[r], kern, daemon)
      BY <3>2 DEF RunCovered
    <3> QED
      BY <3>1, <3>2, <3>3, CoverRun, Zenon DEF SameSources
  <2>3. ASSUME NEW r \in Runs, Load(r)  PROVE CoverInv'
    <3> DEFINE f == IF AgedOut(r) THEN EmptyFile ELSE files[run[r].ino]
    <3>1. UNCHANGED <<kern, daemon>>
      BY <2>3 DEF Load
    <3>2. /\ Changed(r) /\ run[r].pc = "load" /\ files' = [files EXCEPT ![run[r].ino] = f]
          /\ \/ run'[r].pc = "exit"
             \/ /\ run'[r].pc = "fetch" /\ run'[r].opt = run[r].opt
                /\ run'[r].src = f.src /\ run'[r].hist = f.vals
      BY Zenon, <2>3, LoadFields
    <3>3. run[r].ino \in Inodes
      BY <3>2 DEF TypeInv
    <3>4. ~f.old => Covered(f.vals, f.src, kern, daemon)
      <4>1. CASE AgedOut(r)
        BY Zenon, <4>1, EmptyType, ZeroCovered
      <4>2. CASE ~AgedOut(r)
        BY <3>3, <4>2 DEF CoverInv
      <4> QED
        BY <4>1, <4>2
    <3>5. ~run[r].opt.ignore_history => ~f.old
      BY Zenon, EmptyType DEF AgedOut
    <3> HIDE DEF f
    <3>6. RunCovered(run'[r], kern, daemon)
      BY <3>2, <3>4, <3>5 DEF RunCovered
    <3> QED
      BY <3>1, <3>2, <3>3, <3>4, <3>6, CoverRun, Zenon DEF SameSources
  <2>4. ASSUME NEW r \in Runs, FetchDaemon(r)  PROVE CoverInv'
    <3>1. UNCHANGED <<kern, files>>
      BY <2>4 DEF FetchDaemon
    <3>2. /\ Changed(r) /\ run[r].pc = "fetch" /\ run'[r].pc = "output"
          /\ run'[r].opt = run[r].opt
          /\ \A d \in Daemons : daemon'[d].up = daemon[d].up /\ daemon'[d].snap = daemon[d].snap
          /\ \/ \E d \in Daemons :
                  /\ daemon[d].up
                  /\ run'[r].db = daemon[d].snap /\ run'[r].src = d
                  /\ run'[r].hist = IF FetchStale(r, d) THEN Zero ELSE run[r].hist
             \/ run'[r].db = Zero /\ run'[r].src = run[r].src /\ run'[r].hist = run[r].hist
      BY <2>4, FetchDaemonFields
    <3>3. ~run[r].opt.ignore_history => Covered(run[r].hist, run[r].src, kern, daemon)
      BY <3>2, Zenon DEF CoverInv, RunCovered
    <3>4. RunCovered(run'[r], kern, daemon)
      <4>1. CASE run'[r].db = Zero /\ run'[r].src = run[r].src /\ run'[r].hist = run[r].hist
        <5>1. \A c \in Counters : Zero[c] = 0
          BY DEF Zero
        <5>2. Covered(Zero, run[r].src, kern, daemon)
          BY ZeroCovered
        <5> QED
          BY <3>2, <3>3, <4>1, <5>1, <5>2, Zenon DEF RunCovered
      <4>2. ASSUME NEW d \in Daemons, daemon[d].up,
                   run'[r].db = daemon[d].snap, run'[r].src = d,
                   run'[r].hist = IF FetchStale(r, d) THEN Zero ELSE run[r].hist
            PROVE  RunCovered(run'[r], kern, daemon)
        <5>1. daemon[d].snap \in Table
          BY TablesOf
        <5>2. Covered(daemon[d].snap, d, kern, daemon)
          <6>1. AtMost(daemon[d].snap, kern)
            BY <4>2 DEF CoverInv
          <6>2. AtMost(daemon[d].snap, daemon[d].snap)
            BY <5>1 DEF AtMost, Table
          <6> QED
            BY <6>1, <6>2, Zenon DEF Covered
        <5>3. run'[r].hist = Zero \/ (run'[r].hist = run[r].hist /\ run[r].src = d)
          BY <4>2 DEF FetchStale
        <5>4. ~run[r].opt.ignore_history => Covered(run'[r].hist, d, kern, daemon)
          <6>1. CASE run'[r].hist = Zero
            BY <6>1, ZeroCovered
          <6>2. CASE run'[r].hist = run[r].hist /\ run[r].src = d
            BY <3>3, <6>2
          <6> QED
            BY <5>3, <6>1, <6>2
        <5>5. ~run[r].opt.ignore_history => AtMost(run'[r].hist, daemon[d].snap)
          BY <4>2, <5>4, Zenon DEF Covered
        <5> QED
          BY <3>2, <4>2, <5>2, <5>4, <5>5, Zenon DEF RunCovered, AtMost
      <4> QED
        BY <3>2, <4>1, <4>2, Zenon
    <3> QED
      BY <3>1, <3>2, <3>4, CoverRun, Zenon DEF SameSources
  <2>5. ASSUME NEW r \in Runs, FetchKernel(r)  PROVE CoverInv'
    <3>1. UNCHANGED <<kern, daemon, files>>
      BY Zenon, <2>5 DEF FetchKernel
    <3>2. /\ Changed(r) /\ run[r].pc = "fetch" /\ run'[r].pc = "output"
          /\ run'[r].opt = run[r].opt
          /\ \A d \in Daemons : ~daemon[d].up
          /\ run'[r].db = kern
          /\ run'[r].hist \in {Zero, run[r].hist}
      BY <2>5, FetchKernelFields
    <3>3. \A s : Covered(kern, s, kern, daemon)
      <4>1. AtMost(kern, kern)
        BY DEF AtMost, TypeInv, Table
      <4> QED
        BY <3>2, <4>1, Zenon DEF Covered
    <3>4. ~run[r].opt.ignore_history => AtMost(run'[r].hist, kern)
      <4>1. AtMost(Zero, kern)
        BY ZeroCovered, Zenon DEF Covered
      <4>2. ~run[r].opt.ignore_history => AtMost(run[r].hist, kern)
        BY <3>2, Zenon DEF CoverInv, RunCovered, Covered
      <4> QED
        BY <3>2, <4>1, <4>2
    <3>5. ~run[r].opt.ignore_history => \A s : Covered(run'[r].hist, s, kern, daemon)
      BY <3>2, <3>4, Zenon DEF Covered
    <3>6. RunCovered(run'[r], kern, daemon)
      BY <3>2, <3>3, <3>4, <3>5, Zenon DEF RunCovered, AtMost
    <3> QED
      BY <3>1, <3>2, <3>6, CoverRun, Zenon DEF SameSources
  <2>6. ASSUME NEW r \in Runs, Output(r)  PROVE CoverInv'
    <3>1. UNCHANGED <<kern, daemon, files>>
      BY <2>6 DEF Output
    <3>2. /\ Changed(r) /\ run[r].pc = "output"
          /\ \/ run'[r].pc = "exit"
             \/ /\ run'[r].pc = "truncate" /\ run'[r].opt = run[r].opt
                /\ run'[r].src = run[r].src /\ run'[r].hist = run[r].hist
                /\ run'[r].db = run[r].db
      BY Zenon, <2>6, OutputFields
    <3>3. RunCovered(run[r], kern, daemon)
      BY DEF CoverInv
    <3>4. RunCovered(run'[r], kern, daemon)
      BY <3>2, <3>3 DEF RunCovered
    <3> QED
      BY <3>1, <3>2, <3>4, CoverRun, Zenon DEF SameSources
  <2>7. ASSUME NEW r \in Runs, Truncate(r)  PROVE CoverInv'
    <3>1. UNCHANGED <<kern, daemon>> /\ files' = [files EXCEPT ![run[r].ino] = EmptyFile]
      BY <2>7 DEF Truncate
    <3>2. /\ Changed(r) /\ run[r].pc = "truncate" /\ run'[r].pc = "write"
          /\ run'[r].opt = run[r].opt
          /\ run'[r].src = run[r].src /\ run'[r].hist = run[r].hist /\ run'[r].db = run[r].db
      BY <2>7, TruncateFields
    <3>3. run[r].ino \in Inodes
      BY <3>2 DEF TypeInv
    <3>4. RunCovered(run[r], kern, daemon)
      BY DEF CoverInv
    <3>5. RunCovered(run'[r], kern, daemon)
      BY <3>2, <3>4 DEF RunCovered
    <3>6. Covered(EmptyFile.vals, EmptyFile.src, kern, daemon)
      BY Zenon, EmptyType, ZeroCovered
    <3> QED
      BY <3>1, <3>2, <3>3, <3>5, <3>6, CoverRun, Zenon DEF SameSources
  <2>8. ASSUME NEW r \in Runs, Write(r)  PROVE CoverInv'
    <3>1. UNCHANGED <<kern, daemon>> /\ files' = [files EXCEPT ![run[r].ino] = Written(r)]
      BY <2>8 DEF Write
    <3>2. Changed(r) /\ run[r].pc = "write" /\ run'[r].pc = "exit"
      BY Zenon, <2>8, WriteFields
    <3>3. run[r].ino \in Inodes
      BY <3>2 DEF TypeInv
    <3>4. RunCovered(run'[r], kern, daemon)
      BY <3>2 DEF RunCovered
    <3>5. Covered(Written(r).vals, Written(r).src, kern, daemon)
      <4>1. Written(r).vals \in Table
        BY WrittenType, Zenon DEF FileRec
      <4>2. \A c \in Counters : Written(r).vals[c] <= HistoryValue(r, c)
        <5>1. \A c \in Counters : Written(r).vals[c] \in Nat
          BY <4>1 DEF Table
        <5> QED
          BY <5>1, WrittenType
      <4> QED
        BY <3>2, <4>1, <4>2, WrittenCovered, WrittenType
    <3> QED
      BY <3>1, <3>2, <3>3, <3>4, <3>5, CoverRun, Zenon DEF SameSources
  <2>9. ASSUME NEW r \in Runs, Killed(r)  PROVE CoverInv'
    <3>1. UNCHANGED <<kern, daemon>>
      BY Zenon, <2>9 DEF Killed
    <3>2. Changed(r) /\ run[r].pc \notin {"idle", "exit"} /\ run'[r].pc = "exit"
      BY Zenon, <2>9, KilledFields
    <3>3. run[r].ino \in Inodes
      BY <3>2 DEF TypeInv
    <3>4. RunCovered(run'[r], kern, daemon)
      BY <3>2 DEF RunCovered
    <3>5. CASE files' = files
      BY <3>1, <3>2, <3>4, <3>5, CoverRun, Zenon DEF SameSources
    <3>6. ASSUME run[r].pc = "write",
                 NEW f \in FileRec, files' = [files EXCEPT ![run[r].ino] = f],
                 f.src = run[r].src, \A c \in Counters : f.vals[c] <= HistoryValue(r, c)
          PROVE  CoverInv'
      <4>1. f.vals \in Table
        BY <3>6, Zenon DEF FileRec
      <4>2. Covered(f.vals, f.src, kern, daemon)
        BY <3>6, <4>1, WrittenCovered
      <4> QED
        BY <3>1, <3>2, <3>3, <3>4, <3>6, <4>2, CoverRun, Zenon DEF SameSources
    <3> QED
      BY <2>9, <3>5, <3>6, KilledFields, Zenon
  <2>10. ASSUME UNCHANGED <<files, run>>,
                \A d \in Daemons : daemon'[d].up => AtMost(daemon'[d].snap, kern'),
                \A i \in Inodes : Forward(files[i].src), \A r \in Runs : Forward(run[r].src)
         PROVE  CoverInv'
    <3>1. \A i \in Inodes : ~files[i].old => Covered(files[i].vals, files[i].src, kern', daemon')
      BY <2>10, TablesOf, CoveredGrows, Zenon DEF CoverInv
    <3>2. \A r \in Runs : RunCovered(run[r], kern', daemon')
      <4> TAKE r \in Runs
      <4>1. RunCovered(run[r], kern, daemon)
        BY DEF CoverInv
      <4>2. run[r].hist \in Table /\ run[r].db \in Table
        BY TablesOf
      <4>3. /\ Covered(run[r].hist, run[r].src, kern, daemon) =>
                 Covered(run[r].hist, run[r].src, kern', daemon')
            /\ Covered(run[r].db, run[r].src, kern, daemon) =>
                 Covered(run[r].db, run[r].src, kern', daemon')
        BY <2>10, <4>2, CoveredGrows, Zenon
      <4> QED
        BY <4>1, <4>3, Zenon DEF RunCovered
    <3> QED
      BY <2>10, <3>1, <3>2 DEF CoverInv
  <2>11. \A d \in Daemons : daemon[d].up => AtMost(daemon[d].snap, kern)
    BY DEF CoverInv
  <2>12. ASSUME NEW c \in Counters, Count(c)  PROVE CoverInv'
    <3>1. UNCHANGED <<files, run, daemon>> /\ AtMost(kern, kern')
      BY <2>12, CountFields DEF AtMost
    <3>2. \A d \in Daemons : AtMost(daemon[d].snap, daemon[d].snap)
      BY TablesOf DEF AtMost, Table
    <3>3. \A s : Forward(s)
      BY <3>1, <3>2, Zenon DEF Forward
    <3>4. \A d \in Daemons : daemon[d].up => AtMost(daemon[d].snap, kern')
      BY <2>11, <3>1, TablesOf, AtMostTrans DEF TypeInv
    <3> QED
      BY <2>10, <3>1, <3>3, <3>4, Zenon
  <2>13. CASE Reboot
    <3>1. /\ UNCHANGED run
          /\ \A i \in Inodes : files'[i].old
          /\ \A d \in Daemons : ~daemon'[d].up
          /\ \A r \in Runs : run[r].pc \in {"idle", "exit"}
      BY <2>13, RebootFields
    <3>2. \A r \in Runs : RunCovered(run'[r], kern', daemon')
      BY <3>1 DEF RunCovered
    <3> QED
      BY <3>1, <3>2, Zenon DEF CoverInv
  <2>14. CASE DaemonStep
    <3>1. /\ UNCHANGED <<kern, files, run>>
          /\ \A e \in Daemons : daemon'[e].up =>
               \/ daemon'[e].snap = kern
               \/ daemon[e].up /\ daemon'[e].snap = daemon[e].snap
          /\ \A e \in Daemons : daemon'[e].up /\ ~daemon[e].up =>
               /\ \A i \in Inodes : files[i].src # e
               /\ \A r \in Runs : run[r].src # e
      BY <2>14, DaemonFields
    <3>2. /\ AtMost(kern, kern)
          /\ \A d \in Daemons : AtMost(daemon[d].snap, daemon[d].snap)
      BY TablesOf DEF AtMost, Table, TypeInv
    <3>3. \A d \in Daemons : daemon'[d].up => AtMost(daemon'[d].snap, kern')
      BY <2>11, <3>1, <3>2, Zenon
    <3>4. ASSUME NEW s, \A e \in Daemons : daemon'[e].up /\ ~daemon[e].up => s # e
          PROVE  Forward(s)
      BY <2>11, <3>1, <3>2, <3>4, Zenon DEF Forward
    <3>5. (\A i \in Inodes : Forward(files[i].src)) /\ (\A r \in Runs : Forward(run[r].src))
      BY <3>1, <3>4, Zenon
    <3> QED
      BY <2>10, <3>1, <3>3, <3>5, Zenon
  <2> QED
    BY Zenon, <1>2, <2>1, <2>2, <2>3, <2>4, <2>5, <2>6, <2>7, <2>8, <2>9, <2>12, <2>13, <2>14,
       NextCases, Zenon DEF Step
<1> QED
  BY <1>1, <1>2

\* NoOverflow for every number of runs, counters, reboots and daemons: a history that is
\* still compared is never ahead of its source, because an aged one is emptied, one of
\* another source is ignored, and what a killed run leaves is never larger.
THEOREM HistoryNeverAhead == NstatSpec => []NoOverflow
<1> DEFINE Inv == LockInv /\ (WholeIfIgnored => CoverInv)
<1>1. NstatInit => Inv
  <2> SUFFICES ASSUME NstatInit  PROVE Inv
    OBVIOUS
  <2>1. \A r \in Runs : run[r].pc = "idle"
    BY Zenon, IdleType DEF NstatInit
  <2>2. LockInv
    BY <2>1 DEF LockInv, Holds
  <2>3. \A d \in Daemons : ~daemon[d].up
    BY NoDaemonType DEF NstatInit
  <2>4. \A i \in Inodes : files[i].vals = Zero
    BY Zenon, EmptyType DEF NstatInit, Inodes
  <2>5. AtMost(Zero, kern)
    BY DEF NstatInit, AtMost, Zero
  <2>6. \A i \in Inodes : Covered(files[i].vals, files[i].src, kern, daemon)
    BY <2>3, <2>4, <2>5, Zenon DEF Covered
  <2>7. \A r \in Runs : RunCovered(run[r], kern, daemon)
    BY <2>1 DEF RunCovered
  <2> QED
    BY <2>2, <2>3, <2>6, <2>7, Zenon DEF CoverInv
<1>2. TypeInv /\ TypeInv' /\ Inv /\ [NstatNext]_nstatVars => Inv'
  <2> SUFFICES ASSUME TypeInv, TypeInv', Inv, [NstatNext]_nstatVars, WholeIfIgnored'
               PROVE  CoverInv'
    BY LockStep
  <2>1. WholeIfIgnored
    <3>1. set' = set
      BY DEF NstatNext, nstatVars
    <3> QED
      BY <3>1 DEF WholeIfIgnored
  <2> QED
    BY <2>1, CoverStep
<1>3. TypeInv /\ Inv => NoOverflow
  <2> SUFFICES ASSUME TypeInv, WholeIfIgnored, CoverInv, NEW r \in Runs, run[r].pc = "output",
                      ~run[r].opt.ignore_history, NEW c \in Counters, run[r].db[c] # 0
               PROVE  ~Overflow(r, c)
    BY Zenon DEF NoOverflow, WholeIfIgnored
  <2>1. run[r].hist[c] <= run[r].db[c]
    BY DEF CoverInv, RunCovered
  <2>2. run[r].hist[c] \in Nat /\ run[r].db[c] \in Nat
    BY TablesOf DEF Table
  <2> QED
    BY <2>1, <2>2 DEF Overflow
<1> QED
  BY <1>1, <1>2, <1>3, NstatTypes, PTL DEF NstatSpec

----------------------------------------------------------------------------
(* What is reported and what the history holds.                            *)

\* No run is killed and there is no daemon.
Undisturbed == ~set.crashes /\ set.daemons = {}

\* Every run reports, and replaces, the whole table.
WholeTable == \A o \in set.options : o.match = Counters /\ ~o.ignore_history

\* The reports that go with a table are at most what is in it, and all of it if every run
\* reports the whole table.
Accounts(reports, t) == AtMost(reports, t) /\ (WholeTable => t = reports)

\* A file that nobody rewrites.
FileAccounts(f, reports) == IF f.old THEN reports = Zero ELSE Accounts(reports, f.vals)

\* What a run writes: HistoryValue, for a record.
Replaces(x) ==
  [c \in Counters |-> IF x.db[c] # 0 /\ c \notin x.opt.match /\ x.hist[c] # 0 THEN x.hist[c] ELSE x.db[c]]

Rewrites(x, i) == x.pc \in {"truncate", "write"} /\ x.ino = i

\* A run with the reports of its file: nothing is reported beyond what it has read, nor
\* beyond what it is going to write.
RunAccounts(x, reports, k) ==
  /\ x.pc \in {"fetch", "output"} /\ UsesFile(x.opt) => Accounts(reports, x.hist)
  /\ x.pc = "output" => AtMost(x.db, k)
  /\ x.pc = "output" /\ UsesFile(x.opt) => AtMost(reports, x.db)
  /\ x.pc \in {"truncate", "write"} => Accounts(reports, Replaces(x))

AccountInv ==
  /\ reported \in [Inodes -> Table]
  /\ \A d \in Daemons : ~daemon[d].up
  /\ \A i \in Inodes : /\ files[i].src \in OwnSources
                       /\ AtMost(reported[i], kern)
                       /\ (\A r \in Runs : ~Rewrites(run[r], i)) => FileAccounts(files[i], reported[i])
  /\ \A r \in Runs : /\ run[r].src \in OwnSources
                     /\ RunAccounts(run[r], reported[run[r].ino], kern)

\* These depend on the state only by the settings, which never change.
LEMMA SameAccounts ==
  ASSUME set' = set
  PROVE  /\ \A x, t, k : RunAccounts(x, t, k)' <=> RunAccounts(x, t, k)
         /\ \A f, t : FileAccounts(f, t)' <=> FileAccounts(f, t)
<1>1. WholeTable' <=> WholeTable
  BY DEF WholeTable
<1>2. \A t, u : Accounts(t, u)' <=> Accounts(t, u)
  BY <1>1 DEF Accounts, AtMost
<1> QED
  BY <1>2, Zenon DEF RunAccounts, FileAccounts

\* A step of one run r that leaves its file and its reports alone, or has the lock.
LEMMA AccountRun ==
  ASSUME TypeInv, LockInv, AccountInv, NEW r \in Runs, Changed(r), set' = set,
         kern' = kern, daemon' = daemon, run'[r].src \in OwnSources,
         RunAccounts(run'[r], reported'[run'[r].ino], kern),
         \/ reported' = reported /\ files' = files /\ run[r].pc \notin {"truncate", "write"}
         \/ /\ Holds(run[r]) /\ run[r].ino \in Inodes
            /\ \E t \in Table : reported' = [reported EXCEPT ![run[r].ino] = t] /\ AtMost(t, kern)
            /\ \E f : files' = [files EXCEPT ![run[r].ino] = f] /\ f.src \in OwnSources
            /\ \/ Rewrites(run'[r], run[r].ino)
               \/ FileAccounts(files'[run[r].ino], reported'[run[r].ino])
  PROVE  AccountInv'
<1> DEFINE i == run[r].ino
<1>2. /\ reported \in [Inodes -> Table] /\ files \in [Inodes -> FileRec]
      /\ \A j \in Inodes : files[j].src \in OwnSources /\ AtMost(reported[j], kern)
      /\ \A j \in Inodes : (\A q \in Runs : ~Rewrites(run[q], j)) => FileAccounts(files[j], reported[j])
      /\ \A q \in Runs : run[q].src \in OwnSources /\ RunAccounts(run[q], reported[run[q].ino], kern)
  BY Zenon DEF AccountInv, TypeInv
<1>3. /\ \A x, t, k : RunAccounts(x, t, k)' <=> RunAccounts(x, t, k)
      /\ \A f, t : FileAccounts(f, t)' <=> FileAccounts(f, t)
  BY SameAccounts
<1>4. CASE reported' = reported /\ files' = files /\ run[r].pc \notin {"truncate", "write"}
  <2>1. \A q \in Runs : RunAccounts(run'[q], reported'[run'[q].ino], kern)
    BY <1>2, <1>4, Zenon DEF Changed
  <2>2. \A q \in Runs : \A j : Rewrites(run[q], j) => Rewrites(run'[q], j)
    BY <1>4, Zenon DEF Changed, Rewrites
  <2>3. \A j \in Inodes : (\A q \in Runs : ~Rewrites(run'[q], j)) => FileAccounts(files[j], reported[j])
    BY <1>2, <2>2, Zenon
  <2>4. \A q \in Runs : run'[q].src \in OwnSources
    BY <1>2, Zenon DEF Changed
  <2> QED
    BY <1>2, <1>3, <1>4, <2>1, <2>3, <2>4, Zenon DEF AccountInv
<1>5. CASE /\ Holds(run[r]) /\ run[r].ino \in Inodes
           /\ \E t \in Table : reported' = [reported EXCEPT ![run[r].ino] = t] /\ AtMost(t, kern)
           /\ \E f : files' = [files EXCEPT ![run[r].ino] = f] /\ f.src \in OwnSources
           /\ \/ Rewrites(run'[r], run[r].ino)
              \/ FileAccounts(files'[run[r].ino], reported'[run[r].ino])
  <2>1. PICK t \in Table : reported' = [reported EXCEPT ![i] = t] /\ AtMost(t, kern)
    BY Zenon, <1>5
  <2>2. PICK f : files' = [files EXCEPT ![i] = f] /\ f.src \in OwnSources
    BY Zenon, <1>5
  <2>3. i \in Inodes /\ Holds(run[r]) /\ lock[i] = r
    BY <1>5 DEF LockInv
  <2> HIDE DEF i
  <2>4. /\ reported' \in [Inodes -> Table] /\ reported'[i] = t /\ files'[i] = f
        /\ \A j \in Inodes \ {i} : reported'[j] = reported[j] /\ files'[j] = files[j]
    BY <1>2, <2>1, <2>2, <2>3, Zenon
  <2>5. ASSUME NEW q \in Runs \ {r} PROVE RunAccounts(run'[q], reported'[run'[q].ino], kern)
    <3>1. run'[q] = run[q] /\ RunAccounts(run[q], reported[run[q].ino], kern)
      BY <1>2 DEF Changed
    <3>2. CASE Holds(run[q])
      <4>1. lock[run[q].ino] = q /\ run[q].ino \in Inodes
        BY Zenon, <3>2 DEF LockInv, TypeInv, Holds
      <4>2. run[q].ino \in Inodes \ {i}
        BY <2>3, <4>1, Zenon
      <4> QED
        BY <2>4, <3>1, <4>2, Zenon
    <3>3. CASE ~Holds(run[q])
      BY <3>1, <3>3, Zenon DEF Holds, RunAccounts
    <3> QED
      BY SMTT(20), <3>2, <3>3
  <2>6. \A q \in Runs : run'[q].src \in OwnSources /\ RunAccounts(run'[q], reported'[run'[q].ino], kern)
    BY <1>2, <2>5, Zenon DEF Changed
  <2>7. ASSUME NEW j \in Inodes, \A q \in Runs : ~Rewrites(run'[q], j)
        PROVE  FileAccounts(files'[j], reported'[j])
    <3>1. CASE j = i
      BY <1>5, <2>7, <3>1, Zenon DEF i
    <3>2. CASE j # i
      <4>1. \A q \in Runs : ~Rewrites(run[q], j)
        BY <2>7, <3>2, Zenon DEF Changed, Rewrites, i
      <4> QED
        BY <1>2, <2>4, <3>2, <4>1, Zenon
    <3> QED
      BY <3>1, <3>2
  <2>8. \A j \in Inodes : files'[j].src \in OwnSources /\ AtMost(reported'[j], kern)
    BY <1>2, <2>1, <2>2, <2>4, Zenon
  <2> QED
    BY <1>2, <1>3, <2>4, <2>6, <2>7, <2>8, Zenon DEF AccountInv
<1> QED
  BY <1>4, <1>5, Zenon

\* The run that has the lock of a file finds it in order, unless it is rewriting it.
LEMMA OwnFile ==
  ASSUME TypeInv, LockInv, AccountInv, NEW r \in Runs, Holds(run[r]),
         run[r].pc \notin {"truncate", "write"}
  PROVE  /\ run[r].ino \in Inodes
         /\ FileAccounts(files[run[r].ino], reported[run[r].ino])
<1>1. run[r].ino \in Inodes /\ lock[run[r].ino] = r
  BY DEF Holds, TypeInv, LockInv
<1>2. ASSUME NEW q \in Runs, Rewrites(run[q], run[r].ino) PROVE FALSE
  <2>1. q # r /\ Holds(run[q]) /\ run[q].ino = run[r].ino
    BY <1>2, Zenon DEF Rewrites, Holds
  <2>2. lock[run[q].ino] = q
    BY <2>1, Zenon DEF LockInv
  <2> QED
    BY <1>1, <2>1, <2>2, Zenon
<1> QED
  BY <1>1, <1>2, Zenon DEF AccountInv

\* What a run is given beside its record.
LEMMA ReportsOf ==
  ASSUME TypeInv, AccountInv, NEW i \in Inodes
  PROVE  /\ reported[i] \in Table /\ AtMost(reported[i], kern)
         /\ \A t \in Table : reported' = [reported EXCEPT ![i] = t] => reported'[i] = t
BY Zenon DEF AccountInv

\* A history that is read, or given up for its age, accounts for the same reports.
LEMMA AccountLoad ==
  ASSUME TypeInv, LockInv, AccountInv, NEW r \in Runs, Load(r), set' = set
  PROVE  AccountInv'
<1> DEFINE i == run[r].ino
           f == IF AgedOut(r) THEN EmptyFile ELSE files[i]
<1>1. /\ Changed(r) /\ f \in FileRec /\ files' = [files EXCEPT ![i] = f] /\ run[r].pc = "load"
      /\ \/ run'[r].pc = "exit" /\ run'[r].src = ""
         \/ /\ run'[r].pc = "fetch" /\ run'[r].opt = run[r].opt /\ run'[r].ino = i
            /\ run'[r].src = f.src /\ run'[r].hist = f.vals
  BY LoadFields, Zenon
<1>2. kern' = kern /\ daemon' = daemon /\ reported' = reported
  BY DEF Load
<1>3. Holds(run[r])
  BY Zenon, <1>1 DEF Holds
<1>4. i \in Inodes /\ FileAccounts(files[i], reported[i])
  BY Zenon, <1>1, <1>3, OwnFile
<1>5. reported[i] \in Table /\ AtMost(reported[i], kern) /\ reported' = [reported EXCEPT ![i] = reported[i]]
  BY <1>2, <1>4, ReportsOf, Zenon DEF AccountInv
<1>6. AtMost(Zero, Zero) /\ \A t \in Table : AtMost(Zero, t)
  BY SMTT(20) DEF AtMost, Zero, Table
<1>7. run[r].opt \in set.options /\ files[i].vals \in Table
  BY Zenon, <1>1, <1>4, TablesOf DEF TypeInv
<1>8. f.src \in OwnSources /\ FileAccounts(f, reported[i]) /\ Accounts(reported[i], f.vals)
  <2>1. CASE AgedOut(r)
    <3>1. reported[i] = Zero
      BY <1>4, <2>1 DEF AgedOut, FileAccounts
    <3>2. f = EmptyFile /\ f.vals = Zero /\ ~f.old /\ f.src \in OwnSources
      BY <2>1, EmptyType, Zenon DEF OwnSources
    <3> QED
      BY <1>6, <3>1, <3>2, Zenon DEF FileAccounts, Accounts
  <2>2. CASE ~AgedOut(r)
    <3>1. f = files[i] /\ f.src \in OwnSources
      BY <1>4, <2>2, Zenon DEF AccountInv
    <3>2. CASE ~files[i].old
      BY <1>4, <3>1, <3>2, Zenon DEF FileAccounts
    <3>3. CASE files[i].old
      <4>1. run[r].opt.ignore_history /\ reported[i] = Zero
        BY <1>4, <2>2, <3>3, Zenon DEF AgedOut, FileAccounts
      <4>2. ~WholeTable
        BY <1>7, <4>1, Zenon DEF WholeTable
      <4> QED
        BY <1>4, <1>6, <1>7, <3>1, <4>1, <4>2, Zenon DEF Accounts
    <3> QED
      BY <3>2, <3>3
  <2> QED
    BY <2>1, <2>2
<1> HIDE DEF f
<1>9. run'[r].src \in OwnSources
  BY <1>1, <1>8, Zenon DEF OwnSources
<1>10. RunAccounts(run'[r], reported'[run'[r].ino], kern)
  BY <1>1, <1>2, <1>8, Zenon DEF RunAccounts
<1>11. files'[i] = f /\ reported'[i] = reported[i]
  BY <1>1, <1>2, <1>4, Zenon DEF TypeInv
<1>12. /\ \E t \in Table : reported' = [reported EXCEPT ![i] = t] /\ AtMost(t, kern)
       /\ \E g : files' = [files EXCEPT ![i] = g] /\ g.src \in OwnSources
  BY <1>1, <1>5, <1>8, Zenon
<1>13. FileAccounts(files'[i], reported'[i])
  BY <1>8, <1>11, Zenon
<1> QED
  BY <1>1, <1>2, <1>3, <1>4, <1>9, <1>10, <1>12, <1>13, AccountRun, Zenon

\* What a run fetches is no less than its history: the kernel has only counted on.
LEMMA AccountFetch ==
  ASSUME TypeInv, LockInv, AccountInv, NEW r \in Runs, FetchDaemon(r) \/ FetchKernel(r), set' = set
  PROVE  AccountInv'
<1>1. FetchKernel(r)
  <2>1. \A d \in Daemons : ~daemon[d].up
    BY Zenon DEF AccountInv
  <2> QED
    BY <2>1, Zenon DEF FetchDaemon, Server
<1>2. run[r].src \in OwnSources
  BY Zenon DEF AccountInv
<1>3. /\ Changed(r)
      /\ run[r].pc = "fetch" /\ run'[r].pc = "output"
      /\ run'[r].opt = run[r].opt /\ run'[r].ino = run[r].ino
      /\ run'[r].db = kern
      /\ run'[r].hist = run[r].hist /\ run'[r].src \in OwnSources /\ reported' = reported
  BY <1>1, <1>2, FetchKernelFields, Zenon
<1>4. kern' = kern /\ daemon' = daemon /\ files' = files
  BY Zenon, <1>1 DEF FetchKernel
<1>5. AtMost(kern, kern)
  BY DEF AtMost, TypeInv, Table
<1>6. RunAccounts(run[r], reported[run[r].ino], kern) /\ run[r].ino \in Inodes
  BY <1>3, Zenon DEF AccountInv, TypeInv
<1>7. AtMost(reported[run[r].ino], kern)
  BY <1>6, ReportsOf
<1>8. RunAccounts(run'[r], reported'[run'[r].ino], kern)
  BY <1>3, <1>5, <1>6, <1>7, Zenon DEF RunAccounts
<1>9. run[r].pc \notin {"truncate", "write"}
  BY <1>3
<1> QED
  BY <1>3, <1>4, <1>8, <1>9, AccountRun, Zenon

\* What is reported stays within what will be written, and within the kernel's counters.
LEMMA ReportMore ==
  ASSUME NEW x \in RunRec, NEW t \in Table, NEW k \in Table, NEW u \in Table,
         x.pc = "output", UsesFile(x.opt), RunAccounts(x, t, k), x.opt \in set.options,
         \A c \in Counters : u[c] =
           IF c \notin x.opt.match THEN t[c]
           ELSE (LET h == IF x.opt.ignore_history THEN 0 ELSE x.hist[c] IN
                 IF x.db[c] < h THEN 0 ELSE x.db[c] - h) + IF x.opt.ignore_history THEN 0 ELSE t[c]
  PROVE  Accounts(u, Replaces(x)) /\ AtMost(u, k)
<1>1. AtMost(t, x.hist) /\ (WholeTable => x.hist = t) /\ AtMost(x.db, k) /\ AtMost(t, x.db)
  BY DEF RunAccounts, Accounts
<1>2. x.hist \in Table /\ x.db \in Table
  BY Zenon DEF RunRec
<1>3. ASSUME NEW c \in Counters
      PROVE  /\ u[c] <= Replaces(x)[c] /\ u[c] <= k[c]
             /\ WholeTable => u[c] = Replaces(x)[c]
  <2>1. /\ t[c] \in Nat /\ x.hist[c] \in Nat /\ x.db[c] \in Nat /\ k[c] \in Nat
        /\ t[c] <= x.hist[c] /\ x.db[c] <= k[c] /\ t[c] <= x.db[c]
    BY <1>1, <1>2 DEF AtMost, Table
  <2>2. Replaces(x)[c] = IF x.db[c] # 0 /\ c \notin x.opt.match /\ x.hist[c] # 0 THEN x.hist[c] ELSE x.db[c]
    BY DEF Replaces
  <2>3. CASE c \notin x.opt.match
    <3>1. u[c] = t[c]
      BY <2>3
    <3>2. ~WholeTable
      BY <2>3 DEF WholeTable
    <3> QED
      BY <2>1, <2>2, <3>1, <3>2
  <2>4. CASE c \in x.opt.match /\ x.opt.ignore_history
    <3>1. u[c] = x.db[c]
      BY <2>1, <2>4
    <3>2. ~WholeTable
      BY SMTT(20), <2>4 DEF WholeTable
    <3> QED
      BY <2>1, <2>2, <2>4, <3>1, <3>2
  <2>5. CASE c \in x.opt.match /\ ~x.opt.ignore_history
    <3>1. u[c] = (IF x.db[c] < x.hist[c] THEN 0 ELSE x.db[c] - x.hist[c]) + t[c]
      BY <2>5
    <3>2. WholeTable => x.hist[c] = t[c]
      BY <1>1
    <3> QED
      BY <2>1, <2>2, <2>5, <3>1, <3>2
  <2> QED
    BY <2>3, <2>4, <2>5
<1>4. WholeTable => Replaces(x) = u
  <2>1. Replaces(x) \in [Counters -> Nat] /\ u \in [Counters -> Nat]
    BY <1>2 DEF Replaces, Table
  <2> QED
    BY <1>3, <2>1
<1> QED
  BY <1>3, <1>4 DEF Accounts, AtMost

\* What a run prints is the difference, so the new table accounts for all reports.
LEMMA AccountOutput ==
  ASSUME TypeInv, LockInv, AccountInv, NEW r \in Runs, Output(r), set' = set
  PROVE  AccountInv'
<1> DEFINE i == run[r].ino
<1>1. Changed(r) /\ run[r].pc = "output" /\ kern' = kern /\ daemon' = daemon /\ files' = files
  BY OutputFields, Zenon DEF Output
<1>2. CASE run[r].opt.no_update
  <2>1. reported' = reported /\ Exit(r)
    BY <1>2, Zenon DEF Output
  <2>2. run'[r].pc = "exit" /\ run'[r].src \in OwnSources
    BY <2>1, ExitFields, Zenon DEF TypeInv, OwnSources
  <2>3. RunAccounts(run'[r], reported'[run'[r].ino], kern) /\ run[r].pc \notin {"truncate", "write"}
    BY <1>1, <2>2 DEF RunAccounts
  <2> QED
    BY <1>1, <2>1, <2>2, <2>3, AccountRun, Zenon
<1>3. CASE ~run[r].opt.no_update
  <2> DEFINE u == [c \in Counters |->
                    IF c \notin run[r].opt.match THEN reported[i][c]
                    ELSE Printed(r, c) + IF run[r].opt.ignore_history THEN 0 ELSE reported[i][c]]
  <2>1. Goto(r, "truncate")
    BY <1>3, Zenon DEF Output
  <2>2. /\ run'[r].pc = "truncate" /\ run'[r].opt = run[r].opt /\ run'[r].ino = i
        /\ run'[r].src = run[r].src /\ run'[r].hist = run[r].hist /\ run'[r].db = run[r].db
    BY <2>1, GotoFields, Zenon DEF TypeInv, Pcs
  <2>3. UsesFile(run[r].opt) /\ Holds(run[r])
    BY <1>1, <1>3, Zenon DEF UsesFile, Holds
  <2>4. i \in Inodes /\ run[r] \in RunRec /\ run[r].opt \in set.options
    BY SMTT(20), <1>1 DEF TypeInv
  <2>5. reported \in [Inodes -> Table] /\ reported[i] \in Table /\ kern \in Table
    BY <2>4, ReportsOf DEF AccountInv, TypeInv
  <2>6. reported' = [reported EXCEPT ![i] = u]
    BY <1>3, <2>4, <2>5 DEF Output
  <2>7. RunAccounts(run[r], reported[i], kern) /\ run[r].src \in OwnSources
    BY Zenon DEF AccountInv
  <2>8. u \in Table
    <3>1. run[r].hist \in Table /\ run[r].db \in Table
      BY SMTT(20), TablesOf
    <3> QED
      BY SMTT(20), <2>5, <3>1 DEF Table, Printed
  <2>9. Accounts(u, Replaces(run[r])) /\ AtMost(u, kern)
    <3>1. \A c \in Counters : u[c] =
            IF c \notin run[r].opt.match THEN reported[i][c]
            ELSE (LET h == IF run[r].opt.ignore_history THEN 0 ELSE run[r].hist[c] IN
                  IF run[r].db[c] < h THEN 0 ELSE run[r].db[c] - h)
                 + IF run[r].opt.ignore_history THEN 0 ELSE reported[i][c]
      BY DEF Printed
    <3> HIDE DEF u
    <3> QED
      BY SMTT(20), <1>1, <2>3, <2>4, <2>5, <2>7, <2>8, <3>1, ReportMore
  <2> HIDE DEF u
  <2>10. reported'[i] = u
    BY <2>4, <2>5, <2>6, Zenon
  <2>11. Replaces(run'[r]) = Replaces(run[r])
    BY <2>2, Zenon DEF Replaces
  <2>12. RunAccounts(run'[r], reported'[run'[r].ino], kern) /\ Rewrites(run'[r], i)
    BY <2>2, <2>9, <2>10, <2>11, Zenon DEF RunAccounts, Rewrites
  <2>13. \E f : files' = [files EXCEPT ![i] = f] /\ f.src \in OwnSources
    BY <1>1, <2>4, Zenon DEF AccountInv, TypeInv
  <2>14. \E t \in Table : reported' = [reported EXCEPT ![i] = t] /\ AtMost(t, kern)
    BY <2>6, <2>8, <2>9, Zenon
  <2>15. run'[r].src \in OwnSources
    BY <2>2, <2>7
  <2> QED
    BY <1>1, <2>3, <2>4, <2>12, <2>13, <2>14, <2>15, AccountRun, Zenon
<1> QED
  BY <1>2, <1>3

\* While a history is rewritten the table of the run accounts for the reports.
LEMMA AccountRewrite ==
  ASSUME TypeInv, LockInv, AccountInv, NEW r \in Runs, Truncate(r) \/ Write(r), set' = set
  PROVE  AccountInv'
<1> DEFINE i == run[r].ino
<1>1. kern' = kern /\ daemon' = daemon /\ reported' = reported /\ run[r].pc \in {"truncate", "write"}
  BY DEF Truncate, Write
<1>2. Holds(run[r]) /\ i \in Inodes
  BY <1>1 DEF Holds, TypeInv
<1>3. reported[i] \in Table /\ AtMost(reported[i], kern) /\ reported' = [reported EXCEPT ![i] = reported[i]]
  BY <1>1, <1>2, ReportsOf, Zenon DEF AccountInv
<1>4. RunAccounts(run[r], reported[i], kern) /\ run[r].src \in OwnSources
  BY Zenon DEF AccountInv
<1>5. \E t \in Table : reported' = [reported EXCEPT ![i] = t] /\ AtMost(t, kern)
  BY Zenon, <1>3
<1>6. CASE Truncate(r)
  <2>1. /\ Changed(r) /\ run'[r].pc = "write"
        /\ run'[r].opt = run[r].opt /\ run'[r].ino = i
        /\ run'[r].src = run[r].src /\ run'[r].hist = run[r].hist /\ run'[r].db = run[r].db
    BY <1>6, TruncateFields
  <2>2. Replaces(run'[r]) = Replaces(run[r])
    BY <2>1, Zenon DEF Replaces
  <2>3. RunAccounts(run'[r], reported'[run'[r].ino], kern) /\ Rewrites(run'[r], i)
    BY <1>1, <1>4, <2>1, <2>2, Zenon DEF RunAccounts, Rewrites
  <2>4. \E f : files' = [files EXCEPT ![i] = f] /\ f.src \in OwnSources
    BY <1>6, EmptyType, Zenon DEF Truncate, OwnSources
  <2>5. run'[r].src \in OwnSources
    BY <1>4, <2>1
  <2> QED
    BY <1>1, <1>2, <1>5, <2>1, <2>3, <2>4, <2>5, AccountRun, Zenon
<1>7. CASE Write(r)
  <2>1. Changed(r) /\ run'[r].pc = "exit" /\ run'[r].src \in OwnSources
    BY <1>7, WriteFields, Zenon DEF OwnSources
  <2>2. RunAccounts(run'[r], reported'[run'[r].ino], kern)
    BY <2>1 DEF RunAccounts
  <2>3. files' = [files EXCEPT ![i] = Written(r)]
    BY <1>7 DEF Write
  <2>4. files'[i] = Written(r)
    BY <1>2, <2>3, Zenon DEF TypeInv
  <2>5. Written(r).vals = Replaces(run[r]) /\ ~Written(r).old /\ Written(r).src \in OwnSources
    <3>1. Written(r).vals = [c \in Counters |-> HistoryValue(r, c)]
      BY DEF Written, File
    <3>2. Replaces(run[r]) = [c \in Counters |-> HistoryValue(r, c)]
      BY DEF Replaces, HistoryValue
    <3> QED
      BY <1>4, <3>1, <3>2, WrittenType, Zenon
  <2>6. FileAccounts(files'[i], reported'[i])
    BY <1>1, <1>4, <2>4, <2>5, Zenon DEF FileAccounts, RunAccounts
  <2>7. \E f : files' = [files EXCEPT ![i] = f] /\ f.src \in OwnSources
    BY <2>3, <2>5, Zenon
  <2> QED
    BY <1>1, <1>2, <1>5, <2>1, <2>2, <2>6, <2>7, AccountRun, Zenon
<1> QED
  BY <1>6, <1>7

\* A run starts, or gets the lock.
LEMMA AccountStart ==
  ASSUME TypeInv, LockInv, AccountInv, NEW r \in Runs, set' = set,
         Flock(r) \/ \E o \in set.options : Start(r, o)
  PROVE  AccountInv'
<1>1. kern' = kern /\ daemon' = daemon /\ reported' = reported /\ files' = files
  BY Zenon DEF Flock, Start
<1>2. CASE Flock(r)
  <2>1. /\ Changed(r) /\ run[r].pc = "flock" /\ run'[r].pc \in {"exit", "load"}
        /\ run'[r].src = "" \/ run'[r].src = run[r].src
    BY <1>2, FlockFields, Zenon
  <2>2. run'[r].src \in OwnSources
    BY <2>1, Zenon DEF OwnSources, AccountInv
  <2>3. /\ Changed(r) /\ run[r].pc = "flock" /\ run'[r].pc \in {"exit", "load"}
    BY <2>1, Zenon
  <2> HIDE <2>1
  <2>4. RunAccounts(run'[r], reported'[run'[r].ino], kern) /\ run[r].pc \notin {"truncate", "write"}
    BY <2>3 DEF RunAccounts
  <2> QED
    BY <1>1, <2>2, <2>3, <2>4, AccountRun, Zenon
<1>3. ASSUME NEW o \in set.options, Start(r, o) PROVE AccountInv'
  <2>1. /\ Changed(r) /\ run[r].pc = "idle" /\ run'[r].opt = o
        /\ run'[r].pc = "flock" \/ (run'[r].pc = "fetch" /\ ~UsesFile(o))
        /\ run'[r].src \in OwnSources
    BY <1>3, StartFields, Zenon DEF OwnSources
  <2>2. RunAccounts(run'[r], reported'[run'[r].ino], kern) /\ run[r].pc \notin {"truncate", "write"}
    BY <2>1 DEF RunAccounts
  <2> QED
    BY <1>1, <2>1, <2>2, AccountRun, Zenon
<1> QED
  BY <1>2, <1>3

\* The counters go on counting, and a reboot starts everything again.
LEMMA AccountKernel ==
  ASSUME TypeInv, TypeInv', AccountInv, set' = set, Reboot \/ \E c \in Counters : Count(c)
  PROVE  AccountInv'
<1>1. CASE \E c \in Counters : Count(c)
  <2>1. /\ files' = files /\ run' = run /\ daemon' = daemon /\ reported' = reported
        /\ kern \in Table /\ kern' \in Table /\ AtMost(kern, kern')
    <3>1. PICK c \in Counters : Count(c)
      BY <1>1
    <3>2. reported' = reported
      BY SMTT(20), <3>1 DEF Count
    <3> QED
      BY <3>1, <3>2, CountFields DEF AtMost, TypeInv
  <2>2. \A i \in Inodes : AtMost(reported[i], kern')
    BY <2>1, ReportsOf, AtMostTrans
  <2>3. ASSUME NEW r \in Runs PROVE RunAccounts(run[r], reported[run[r].ino], kern)'
    <3>1. RunAccounts(run[r], reported[run[r].ino], kern) /\ run[r].db \in Table
      BY TablesOf, Zenon DEF AccountInv
    <3>2. run[r].pc = "output" => AtMost(run[r].db, kern')
      BY <2>1, <3>1, AtMostTrans DEF RunAccounts
    <3>3. RunAccounts(run[r], reported[run[r].ino], kern')
      BY <3>1, <3>2, Zenon DEF RunAccounts
    <3> QED
      BY <2>1, <3>3, SameAccounts, Zenon
  <2>4. \A f, t : FileAccounts(f, t)' <=> FileAccounts(f, t)
    BY SameAccounts
  <2> QED
    BY <2>1, <2>2, <2>3, <2>4, Zenon DEF AccountInv
<1>2. CASE Reboot
  <2>1. /\ run' = run /\ kern' = Zero
        /\ \A i \in Inodes : files'[i].old /\ files'[i].src = files[i].src
        /\ \A d \in Daemons : ~daemon'[d].up
        /\ \A r \in Runs : run[r].pc \in {"idle", "exit"}
    BY <1>2, RebootFields
  <2>2. reported' = [i \in Inodes |-> Zero]
    BY <1>2, Zenon DEF Reboot, AccountInv
  <2>3. /\ reported' \in [Inodes -> Table] /\ \A i \in Inodes : reported'[i] = Zero
    BY <2>2, ZeroType, Zenon
  <2>4. AtMost(Zero, Zero)
    BY DEF AtMost, Zero
  <2>5. \A i \in Inodes : FileAccounts(files[i], reported[i])' /\ AtMost(reported'[i], kern')
    BY <2>1, <2>3, <2>4, Zenon DEF FileAccounts
  <2>6. \A r \in Runs : RunAccounts(run[r], reported[run[r].ino], kern)'
    BY <2>1 DEF RunAccounts
  <2>7. (\A i \in Inodes : files'[i].src \in OwnSources) /\ \A r \in Runs : run'[r].src \in OwnSources
    BY <2>1, Zenon DEF AccountInv
  <2> QED
    BY <2>1, <2>3, <2>5, <2>6, <2>7, Zenon DEF AccountInv
<1> QED
  BY <1>1, <1>2

\* Without daemons nothing comes of the daemons' steps.
LEMMA AccountDaemons ==
  ASSUME TypeInv, AccountInv, set' = set, set.daemons = {}, DaemonStep
  PROVE  AccountInv'
<1>1. /\ kern' = kern /\ files' = files /\ run' = run /\ reported' = reported
  BY DEF DaemonStep, DaemonStart, DaemonScan, DaemonReap, DaemonKilled
<1>2. PICK d \in Daemons : DaemonReap(d)
  BY Zenon DEF DaemonStep, DaemonStart, DaemonScan, DaemonKilled, AccountInv
<1>3. \A e \in Daemons : daemon'[e].up = daemon[e].up
  <2>1. daemon' = [daemon EXCEPT ![d].children = @ - 1]
    BY <1>2 DEF DaemonReap
  <2>2. daemon \in [Daemons -> DaemonRec]
    BY DEF TypeInv
  <2> QED
    BY <2>1, <2>2 DEF DaemonRec
<1>5. /\ \A f, t : FileAccounts(f, t)' <=> FileAccounts(f, t)
      /\ \A x, t, k : RunAccounts(x, t, k)' <=> RunAccounts(x, t, k)
  BY SameAccounts
<1> QED
  BY <1>1, <1>3, <1>5, Zenon DEF AccountInv

\* At first nothing is reported.
LEMMA AccountInit ==
  ASSUME NstatInit PROVE AccountInv
<1>1. reported \in [Inodes -> Table] /\ \A i \in Inodes : reported[i] = Zero
  BY ZeroType, Zenon DEF NstatInit, Inodes
<1>2. \A d \in Daemons : ~daemon[d].up
  BY NoDaemonType, Zenon DEF NstatInit
<1>3. \A i \in Inodes : files[i].vals = Zero /\ ~files[i].old /\ files[i].src \in OwnSources
  BY EmptyType, Zenon DEF NstatInit, Inodes, OwnSources
<1>4. AtMost(Zero, Zero) /\ kern = Zero
  BY DEF NstatInit, AtMost, Zero
<1>5. \A i \in Inodes : AtMost(reported[i], kern) /\ FileAccounts(files[i], reported[i])
  BY <1>1, <1>3, <1>4, Zenon DEF FileAccounts, Accounts
<1>6. \A r \in Runs : run[r].pc = "idle" /\ run[r].src \in OwnSources
  BY IdleType, Zenon DEF NstatInit, OwnSources
<1>7. \A r \in Runs : RunAccounts(run[r], reported[run[r].ino], kern)
  BY <1>6 DEF RunAccounts
<1> QED
  BY <1>1, <1>2, <1>3, <1>5, <1>6, <1>7, Zenon DEF AccountInv

\* AccountInv is inductive.
LEMMA AccountStep ==
  ASSUME TypeInv, TypeInv', LockInv, AccountInv, Undisturbed, [NstatNext]_nstatVars
  PROVE  AccountInv'
<1>1. set' = set
  BY DEF NstatNext, nstatVars
<1>2. CASE NstatNext
  <2>1. ASSUME NEW r \in Runs, Killed(r) PROVE FALSE
    BY <2>1, Zenon DEF Killed, Undisturbed
  <2>2. ASSUME NEW r \in Runs, Step(r) PROVE AccountInv'
    BY <1>1, <2>2, AccountStart, AccountLoad, AccountFetch, AccountOutput, AccountRewrite, Zenon DEF Step
  <2>3. ASSUME NEW r \in Runs, NEW o \in set.options, Start(r, o) PROVE AccountInv'
    BY <1>1, <2>3, AccountStart
  <2>4. CASE DaemonStep
    BY <1>1, <2>4, AccountDaemons DEF Undisturbed
  <2>5. CASE Reboot \/ \E c \in Counters : Count(c)
    BY <1>1, <2>5, AccountKernel
  <2> QED
    BY <1>2, <2>1, <2>2, <2>3, <2>4, <2>5, NextCases, Zenon
<1>3. CASE UNCHANGED nstatVars
  <2>1. /\ kern' = kern /\ files' = files /\ run' = run /\ reported' = reported /\ daemon' = daemon
    BY <1>3 DEF nstatVars
  <2>3. /\ \A f, t : FileAccounts(f, t)' <=> FileAccounts(f, t)
        /\ \A x, t, k : RunAccounts(x, t, k)' <=> RunAccounts(x, t, k)
    BY <1>1, SameAccounts
  <2> QED
    BY <2>1, <2>3, Zenon DEF AccountInv
<1> QED
  BY <1>2, <1>3

\* Conserved for every number of runs, counters and resets, all options and any reboots:
\* what the runs report is never more than what they leave in the history, and all of it
\* where every run reports the whole table.
THEOREM NothingReportedTwice == NstatSpec => []Conserved
<1> DEFINE Inv == LockInv /\ (Undisturbed => AccountInv)
<1>1. NstatInit => Inv
  <2> SUFFICES ASSUME NstatInit PROVE LockInv
    BY AccountInit
  <2>1. \A r \in Runs : run[r].pc = "idle"
    BY Zenon, IdleType DEF NstatInit
  <2> QED
    BY <2>1 DEF LockInv, Holds
<1>2. TypeInv /\ TypeInv' /\ Inv /\ [NstatNext]_nstatVars => Inv'
  <2> SUFFICES ASSUME TypeInv, TypeInv', Inv, [NstatNext]_nstatVars, Undisturbed'
               PROVE  AccountInv'
    BY LockStep
  <2>1. set' = set
    BY DEF NstatNext, nstatVars
  <2>2. Undisturbed
    BY <2>1 DEF Undisturbed
  <2> QED
    BY <2>2, AccountStep
<1>3. TypeInv /\ Inv => Conserved
  <2> SUFFICES ASSUME TypeInv, LockInv, AccountInv, NEW i \in Inodes, lock[i] = Nobody, ~files[i].old
               PROVE  Accounts(reported[i], files[i].vals)
    BY Zenon DEF Conserved, Undisturbed, Inodes, Accounts, AtMost, WholeTable
  <2>1. ASSUME NEW r \in Runs, Rewrites(run[r], i) PROVE FALSE
    <3>1. Holds(run[r]) /\ run[r].ino = i
      BY <2>1, Zenon DEF Rewrites, Holds
    <3>2. lock[i] = r
      BY <3>1, Zenon DEF LockInv
    <3> QED
      BY <3>2, NstatAssumption DEF Runs, Nobody
  <2> QED
    BY <2>1, Zenon DEF AccountInv, FileAccounts
<1> QED
  BY <1>1, <1>2, <1>3, NstatTypes, PTL DEF NstatSpec

=============================================================================
