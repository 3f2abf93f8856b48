------------------------------- MODULE NsScan -------------------------------
(***************************************************************************)
(* "ip netns pids NAME" and "ip netns identify PID" (ip/ipnetns.c): one    *)
(* namespace is opened, a directory is read entry by entry, and an entry   *)
(* is printed when its device and inode are those of the open namespace.   *)
(* Processes and names come and go meanwhile, and the kernel gives the     *)
(* inode of a namespace that nothing refers to any more to a new one.      *)
(***************************************************************************)
EXTENDS Naturals, FiniteSets

CONSTANTS
  Tasks, BoundNames,
  Inodes,       \* the inodes there are for namespaces
  MaxMoves      \* bound on what happens to processes and names

ASSUME ScanAssumption ==
  /\ Tasks \cap BoundNames = {}
  /\ Inodes \subseteq Nat \ {0}
  /\ MaxMoves \in Nat

VARIABLES
  task,     \* the namespace of each process, or NoNs
  name,     \* the namespace mounted on each name, or NoNs
  gen,      \* how many namespaces have had each inode
  moves,
  scan      \* the command

scanVars == <<task, name, gen, moves, scan>>

\* A namespace: its inode, and which of the namespaces with this inode it is.
NoNs == [ino |-> 0, gen |-> 0]

\* held: the descriptor is open.  key: what fstat said.  stay: the entries that have
\* been in the namespace ever since opendir (see ScanComplete).
NoScan == [pc |-> "start", by |-> "", held |-> FALSE, key |-> NoNs, todo |-> {}, late |-> {},
           found |-> {}, stay |-> {}]

Dentries == Tasks \cup BoundNames
NsOf(e) == IF e \in Tasks THEN task[e] ELSE name[e]

----------------------------------------------------------------------------
(* The kernel, and other programs.                                         *)

Live == {n \in {task[t] : t \in Tasks} \cup {name[n] : n \in BoundNames}
               \cup (IF scan.held THEN {scan.key} ELSE {}) : n # NoNs}
FreshNs == {[ino |-> i, gen |-> gen[i] + 1] :
              i \in {j \in Inodes : \A n \in Live : n.ino # j}}

Moved(e, ns) ==
  /\ moves < MaxMoves /\ moves' = moves + 1
  /\ NsOf(e) # ns
  /\ gen' = IF ns \in FreshNs THEN [gen EXCEPT ![ns.ino] = ns.gen] ELSE gen
  /\ task' = IF e \in Tasks THEN [task EXCEPT ![e] = ns] ELSE task
  /\ name' = IF e \in BoundNames THEN [name EXCEPT ![e] = ns] ELSE name
  /\ scan' = IF ns = scan.key THEN scan ELSE [scan EXCEPT !.stay = @ \ {e}]

\* A process starts, changes its namespace, makes a new one, or ends; a name is
\* made for the namespace of a process, or deleted.
OthersRun ==
  \/ \E t \in Tasks, ns \in Live \cup FreshNs \cup {NoNs} : Moved(t, ns)
  \/ \E n \in BoundNames :
       \/ name[n] = NoNs /\ \E t \in Tasks : task[t] # NoNs /\ Moved(n, task[t])
       \/ name[n] # NoNs /\ Moved(n, NoNs)

----------------------------------------------------------------------------
(* netns_pids, netns_identify_pid.                                         *)

\* open and fstat of the name, or of /proc/PID/ns/net.
OpenNotHeld(e) ==
  /\ scan.pc = "start" /\ NsOf(e) # NoNs
  /\ scan' = [NoScan EXCEPT !.pc = "opendir", !.by = e, !.key = NsOf(e)]
Open(e) ==
  /\ scan.pc = "start" /\ NsOf(e) # NoNs
  /\ scan' = [NoScan EXCEPT !.pc = "opendir", !.by = e, !.key = NsOf(e), !.held = TRUE]

\* netns_pids reads /proc, netns_identify_pid reads NETNS_RUN_DIR.
ReadsFor(e) == IF e \in BoundNames THEN Tasks ELSE BoundNames
ScanOpendir ==
  /\ scan.pc = "opendir"
  /\ LET there == {e \in ReadsFor(scan.by) : NsOf(e) # NoNs} IN
     \E later \in SUBSET (ReadsFor(scan.by) \ there) :
       scan' = [scan EXCEPT !.pc = "readdir", !.todo = there, !.late = later,
                            !.stay = {e \in there : NsOf(e) = scan.key}]

\* stat: an entry that is gone is skipped.
Same(e) == NsOf(e) # NoNs /\ NsOf(e).ino = scan.key.ino

\* netns_pids prints every match, netns_identify_pid keeps the last one.
ScanEntry(e) ==
  /\ scan.pc = "readdir" /\ e \in scan.todo \cup scan.late
  /\ scan' = [scan EXCEPT !.todo = @ \ {e}, !.late = @ \ {e},
                !.found = IF ~Same(e) THEN @
                          ELSE (IF scan.by \in BoundNames THEN @ ELSE {}) \cup {<<e, NsOf(e)>>}]

\* closedir and close.
ScanEnd ==
  /\ scan.pc = "readdir" /\ scan.todo = {}
  /\ scan' = [scan EXCEPT !.pc = "done", !.held = FALSE]

ScanStep ==
  /\ \/ \E e \in Dentries : Open(e) \/ ScanEntry(e)
     \/ ScanOpendir \/ ScanEnd
  /\ UNCHANGED <<task, name, gen, moves>>

ScanInit ==
  /\ \E i \in Inodes :
       /\ gen = [j \in Inodes |-> IF j = i THEN 1 ELSE 0]
       /\ task \in [Tasks -> {NoNs, [ino |-> i, gen |-> 1]}]
  /\ \E t \in Tasks : task[t] # NoNs
  /\ name = [n \in BoundNames |-> NoNs]
  /\ moves = 0
  /\ scan = NoScan

ScanNext == OthersRun \/ ScanStep

ScanSpec == ScanInit /\ [][ScanNext]_scanVars

----------------------------------------------------------------------------
(* Properties.                                                             *)

\* The answer is right although the directory changes under the scan.  What is printed
\* was in the very namespace that was opened, never in a younger one with the same
\* inode: the descriptor that stays open keeps the inode from being given away.  And
\* a process that was in the namespace during the whole scan is printed, a process
\* with a name for its namespace gets a name.
ScanExact ==
  /\ \A f \in scan.found : f[2] = scan.key
  /\ scan.pc = "done" =>
       IF scan.by \in BoundNames THEN scan.stay \subseteq {f[1] : f \in scan.found}
       ELSE scan.stay # {} => scan.found # {}

=============================================================================
