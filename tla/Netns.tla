------------------------------- MODULE Netns --------------------------------
(***************************************************************************)
(* "ip netns add", "attach" and "delete" (ip/ipnetns.c, lib/namespace.c):  *)
(* ip processes that make and remove the names of network namespaces in    *)
(* one directory, NETNS_RUN_DIR.                                           *)
(*                                                                         *)
(* A name is a file with a namespace mounted on it.  Every system call     *)
(* that other processes can see the effect of is a step.  A process may    *)
(* run several commands (ip -batch) and may be killed between any two      *)
(* steps.  All processes share one mount namespace.                        *)
(***************************************************************************)
EXTENDS Naturals, Sequences, FiniteSets

CONSTANTS
  Procs,
  NsNames,
  MaxCmds,    \* commands of one process
  MaxKills,   \* processes killed
  Settings    \* the commands that are given, the processes that are given -all, whether
              \* flock works, and whether open, setns, unshare and mount may fail

ASSUME NetnsAssumption ==
  /\ MaxCmds \in Nat /\ MaxKills \in Nat
  /\ \A s \in Settings :
       /\ s.ops \subseteq {"add", "attach", "delete", "delete all"}
       /\ s.all \subseteq Procs
       /\ s.flocks \in BOOLEAN /\ s.faults \in BOOLEAN

VARIABLES
  set,      \* the circumstances
  mounts,   \* how often the directory is mounted on itself
  group,    \* the peer group of the topmost of these mounts
  file,     \* which names have a file
  bound,    \* the namespaces mounted on each name, the visible one first
  lock,     \* the processes that hold the lock of the directory
  proc,     \* the processes
  kills,
  fin,      \* the command that has just ended
  claim,    \* the namespaces each name was made for since it was last deleted
  raced,    \* the names deleted in the middle of an add of the same name
  abandoned,\* the names whose process was killed or gave up in the middle of the work
  halfway   \* the directory was left mounted and not yet private

netnsVars == <<set, mounts, group, file, bound, lock, proc, kills, fin, claim, raced, abandoned,
               halfway>>

\* Namespaces: the one ip is started in, the one of attach's process, and the one
\* that the k-th command of a process makes.
Home == <<"home", 0>>
Target == <<"target", 0>>
None == <<"none", 0>>

NoFin == [op |-> "none", name |-> "", code |-> "", alone |-> FALSE]

Idle == [pc |-> "idle", op |-> "none", name |-> "", k |-> 0, ns |-> Home, saved |-> None,
         todo |-> {}, late |-> {}, alone |-> FALSE]

Goto(p, pc) == proc' = [proc EXCEPT ![p].pc = pc]
Active(p) == proc[p].pc \notin {"idle", "dead"}

\* The command returns to do_cmd.
CommandReturn(p, r, code) ==
  /\ proc' = [proc EXCEPT ![p] = [Idle EXCEPT !.k = r.k, !.ns = r.ns, !.saved = r.saved]]
  /\ fin' = [op |-> r.op, name |-> r.name, code |-> code, alone |-> r.alone]

\* The file of the name has been made, or is about to be removed.
AtFile == {"unshare", "mount", "umount", "unlink"}

\* ip ends; its lock goes with its descriptors.
Dies(p) ==
  /\ proc' = [proc EXCEPT ![p] = [Idle EXCEPT !.pc = "dead", !.k = proc[p].k]]
  /\ lock' = lock \ {p}
  /\ fin' = NoFin
Abandons(p) ==
  abandoned' = IF proc[p].pc \in AtFile THEN abandoned \cup {proc[p].name} ELSE abandoned

----------------------------------------------------------------------------
(* do_netns: a command is started.                                         *)

First(op) == CASE op \in {"add", "attach"} -> "flock"
               [] op = "delete" -> "umount"
               [] OTHER -> "opendir"

\* netns_add up to create_netns_dir (here the directory exists), netns_delete,
\* which is of every name if ip was given -all.
Start(p) ==
  /\ proc[p].pc = "idle" /\ proc[p].k < MaxCmds
  /\ \E op \in set.ops, n \in NsNames :
       /\ op \in {"delete", "delete all"} => (op = "delete all" <=> p \in set.all)
       /\ proc' = [q \in Procs |->
                     IF q # p THEN [proc[q] EXCEPT !.alone = FALSE]
                     ELSE [proc[p] EXCEPT !.op = op, !.name = IF op = "delete all" THEN "" ELSE n,
                             !.pc = First(op), !.k = @ + 1,
                             !.alone = \A r \in Procs \ {p} : ~Active(r)]]
  /\ fin' = NoFin
  /\ UNCHANGED <<mounts, group, file, bound, lock, kills, claim, raced, abandoned, halfway>>

----------------------------------------------------------------------------
(* netns_add: the directory becomes a shared mount of its own.             *)

LockedAlways(p) == TRUE
Locked(p) == lock = {}

\* The lock, or the warning and no lock.
Flock(p) ==
  /\ proc[p].pc = "flock"
  /\ IF set.flocks THEN Locked(p) /\ lock' = lock \cup {p} ELSE UNCHANGED lock
  /\ Goto(p, "shared")
  /\ fin' = NoFin
  /\ UNCHANGED <<mounts, group, file, bound, kills, claim, raced, abandoned, halfway>>

ReleaseNever(p) == UNCHANGED lock
Release(p) == lock' = lock \ {p}

\* mount(MS_SHARED): EINVAL if the directory is not a mount.  (Nobody unmounts it,
\* so EINVAL does not come a second time; see SetupFails.)
MakeShared(p) ==
  /\ proc[p].pc = "shared"
  /\ IF mounts > 0
     THEN /\ group' = IF group = "private" THEN "own" ELSE group
          /\ Release(p)
          /\ Goto(p, "create")
     ELSE /\ Goto(p, "bind")
          /\ UNCHANGED <<group, lock>>
  /\ fin' = NoFin
  /\ UNCHANGED <<mounts, file, bound, kills, claim, raced, abandoned, halfway>>

\* mount(MS_BIND) of the directory on itself: a copy of the mount it is in,
\* in the same peer group.
BindDir(p) ==
  /\ proc[p].pc = "bind"
  /\ mounts' = mounts + 1
  /\ group' = IF mounts = 0 THEN "parent" ELSE group
  /\ Goto(p, "private")
  /\ fin' = NoFin
  /\ UNCHANGED <<file, bound, lock, kills, claim, raced, abandoned, halfway>>

\* mount(MS_PRIVATE); the loop goes back to MS_SHARED.
MakePrivate(p) ==
  /\ proc[p].pc = "private"
  /\ group' = "private"
  /\ Goto(p, "shared")
  /\ fin' = NoFin
  /\ UNCHANGED <<mounts, file, bound, lock, kills, claim, raced, abandoned, halfway>>

\* One of these mounts fails: unlock, return -1.
SetupFails(p) ==
  /\ set.faults
  /\ proc[p].pc \in {"shared", "bind", "private"}
  /\ Release(p)
  /\ CommandReturn(p, proc[p], "fail")
  /\ halfway' = (halfway \/ proc[p].pc = "private")
  /\ UNCHANGED <<mounts, group, file, bound, kills, claim, raced, abandoned>>

----------------------------------------------------------------------------
(* netns_add: the file, and the namespace on it.                           *)

\* open(O_CREAT|O_EXCL).
CreateFileAnyway(p) ==
  LET r == proc[p] IN
  /\ r.pc = "create"
  /\ file' = file \cup {r.name}
  /\ Goto(p, IF r.op = "add" THEN "unshare" ELSE "mount")
  /\ fin' = NoFin
  /\ UNCHANGED <<mounts, group, bound, lock, kills, claim, raced, abandoned, halfway>>
CreateFile(p) ==
  LET r == proc[p] IN
  /\ r.pc = "create"
  /\ IF r.name \in file
     THEN CommandReturn(p, r, "fail") /\ UNCHANGED file
     ELSE /\ file' = file \cup {r.name}
          /\ Goto(p, IF r.op = "add" THEN "unshare" ELSE "mount")
          /\ fin' = NoFin
  /\ UNCHANGED <<mounts, group, bound, lock, kills, claim, raced, abandoned, halfway>>

\* The cleanup of netns_add calls netns_delete: of its name, or with -all of every
\* name, which may end before it comes to its own.
Cleanup(p, r) ==
  IF p \in set.all
  THEN /\ proc' = [proc EXCEPT ![p] = [r EXCEPT !.op = "cleanup", !.pc = "opendir"]]
       /\ abandoned' = abandoned \cup {r.name}
  ELSE /\ proc' = [proc EXCEPT ![p] = [r EXCEPT !.pc = "umount"]]
       /\ UNCHANGED abandoned

\* netns_save, unshare(CLONE_NEWNET).
Saved(r) == IF r.saved = None THEN r.ns ELSE r.saved
Unshare(p) ==
  LET r == [proc[p] EXCEPT !.saved = Saved(proc[p])] IN
  /\ r.pc = "unshare"
  /\ \/ /\ proc' = [proc EXCEPT ![p] = [r EXCEPT !.ns = <<p, r.k>>, !.pc = "mount"]]
        /\ UNCHANGED abandoned
     \/ set.faults /\ Cleanup(p, r)
  /\ fin' = NoFin
  /\ UNCHANGED <<mounts, group, file, bound, lock, kills, claim, raced, halfway>>

\* netns_restore.
Restored(r) == IF r.saved = None THEN r ELSE [r EXCEPT !.ns = r.saved, !.saved = None]

\* mount(MS_BIND) of /proc/self/ns/net or /proc/PID/ns/net on the file, if there
\* still is one, and netns_restore, which exits if it fails.  "goto out_delete"
\* otherwise.
MountNs(p) ==
  LET r == proc[p]
      ns == IF r.op = "add" THEN r.ns ELSE Target
  IN
  /\ r.pc = "mount"
  /\ r.name \in file
  /\ bound' = [bound EXCEPT ![r.name] = <<ns>> \o @]
  /\ claim' = [claim EXCEPT ![r.name] = @ \cup {ns}]
  /\ \/ CommandReturn(p, Restored(r), "ok") /\ UNCHANGED lock
     \/ set.faults /\ r.saved # None /\ Dies(p)
  /\ UNCHANGED <<mounts, group, file, kills, raced, abandoned, halfway>>

OutDeleteForgotten(p) ==
  LET r == proc[p] IN
  /\ r.pc = "mount"
  /\ r.name \notin file \/ set.faults
  /\ CommandReturn(p, Restored(r), "fail")
  /\ UNCHANGED <<mounts, group, file, bound, lock, kills, claim, raced, abandoned, halfway>>
OutDelete(p) ==
  LET r == proc[p] IN
  /\ r.pc = "mount"
  /\ r.name \notin file \/ set.faults
  /\ IF r.op = "add" THEN Cleanup(p, r) ELSE Goto(p, "unlink") /\ UNCHANGED abandoned
  /\ fin' = NoFin
  /\ UNCHANGED <<mounts, group, file, bound, lock, kills, claim, raced, halfway>>

\* netns_save after the file was made, or netns_restore before the cleanup, fails:
\* exit(1).
GiveUp(p) ==
  /\ set.faults
  /\ \/ proc[p].pc = "unshare" /\ proc[p].saved = None
     \/ proc[p].pc \in {"umount", "opendir"} /\ proc[p].saved # None
  /\ Dies(p) /\ Abandons(p)
  /\ UNCHANGED <<mounts, group, file, bound, kills, claim, raced, halfway>>

----------------------------------------------------------------------------
(* netns_delete, netns_foreach, on_netns_del.                              *)

\* Another process is between creating n and the end of its add.
AddInProgress(p, n) ==
  \E q \in Procs \ {p} :
    /\ proc[q].op \in {"add", "attach"} /\ proc[q].name = n
    /\ proc[q].pc \in AtFile

\* opendir: the names there are; a name that is made later may turn up as well.
\* The cleanup of netns_add first goes back to the namespace ip was started in.
Opendir(p) ==
  LET r == Restored(proc[p]) IN
  /\ r.pc = "opendir"
  /\ \E later \in SUBSET (NsNames \ file) :
       proc' = [proc EXCEPT ![p] = [r EXCEPT !.pc = "readdir", !.todo = file, !.late = later]]
  /\ fin' = NoFin
  /\ UNCHANGED <<mounts, group, file, bound, lock, kills, claim, raced, abandoned, halfway>>

\* readdir: an entry that is gone may be returned or left out.
Readdir(p) ==
  LET r == proc[p] IN
  /\ r.pc = "readdir"
  /\ \/ /\ r.todo \cup (r.late \cap file) = {}
        /\ CommandReturn(p, r, IF r.op = "cleanup" THEN "fail" ELSE "ok")
     \/ /\ \E n \in r.todo \cup (r.late \cap file) :
             proc' = [proc EXCEPT ![p].pc = "umount", ![p].name = n,
                                  ![p].todo = @ \ {n}, ![p].late = @ \ {n}]
        /\ fin' = NoFin
     \/ /\ \E n \in r.todo \ file : proc' = [proc EXCEPT ![p].todo = @ \ {n}]
        /\ fin' = NoFin
  /\ UNCHANGED <<mounts, group, file, bound, lock, kills, claim, raced, abandoned, halfway>>

\* umount2(MNT_DETACH), its error ignored; after the restore in the cleanup of
\* netns_add.
UmountNot(p) ==
  LET r == Restored(proc[p]) IN
  /\ r.pc = "umount"
  /\ proc' = [proc EXCEPT ![p] = [r EXCEPT !.pc = "unlink"]]
  /\ fin' = NoFin
  /\ UNCHANGED <<mounts, group, file, bound, lock, kills, claim, raced, abandoned, halfway>>
Umount(p) ==
  LET r == Restored(proc[p])
      deletes == r.op \notin {"add", "attach"}
  IN
  /\ r.pc = "umount"
  /\ bound' = [bound EXCEPT ![r.name] = IF @ = <<>> THEN @ ELSE Tail(@)]
  /\ claim' = IF deletes THEN [claim EXCEPT ![r.name] = {}] ELSE claim
  /\ raced' = IF deletes /\ AddInProgress(p, r.name) THEN raced \cup {r.name} ELSE raced
  /\ proc' = [proc EXCEPT ![p] = [r EXCEPT !.pc = "unlink"]]
  /\ fin' = NoFin
  /\ UNCHANGED <<mounts, group, file, lock, kills, abandoned, halfway>>

\* unlink: ENOENT, or EBUSY while something is mounted on the file.  In
\* netns_foreach a failure ends the loop, and the loop returns 0 all the same.
Unlink(p) ==
  LET r == Restored(proc[p])
      deletes == r.op \notin {"add", "attach"}
      removes == r.name \in file /\ bound[r.name] = <<>>
  IN
  /\ r.pc = "unlink"
  /\ file' = IF removes THEN file \ {r.name} ELSE file
  /\ raced' = IF deletes /\ AddInProgress(p, r.name) THEN raced \cup {r.name} ELSE raced
  /\ IF r.op \in {"delete all", "cleanup"} /\ removes
     THEN proc' = [proc EXCEPT ![p].pc = "readdir"] /\ fin' = NoFin
     ELSE CommandReturn(p, r, CASE r.op = "delete all" -> "ok"
                         [] r.op = "delete" -> IF removes THEN "ok" ELSE "fail"
                         [] OTHER -> "fail")
  /\ UNCHANGED <<mounts, group, bound, lock, kills, claim, abandoned, halfway>>

----------------------------------------------------------------------------

\* The process is killed.
Kill(p) ==
  /\ Active(p) /\ kills < MaxKills
  /\ kills' = kills + 1
  /\ Dies(p) /\ Abandons(p)
  /\ halfway' = (halfway \/ proc[p].pc = "private")
  /\ UNCHANGED <<mounts, group, file, bound, claim, raced>>

Step(p) ==
  \/ Flock(p) \/ MakeShared(p) \/ BindDir(p) \/ MakePrivate(p) \/ SetupFails(p)
  \/ CreateFile(p) \/ Unshare(p) \/ MountNs(p) \/ OutDelete(p) \/ GiveUp(p)
  \/ Opendir(p) \/ Readdir(p) \/ Umount(p) \/ Unlink(p)

NetnsInit ==
  /\ set \in Settings
  /\ mounts = 0 /\ group = "parent"
  /\ file = {} /\ bound = [n \in NsNames |-> <<>>]
  /\ lock = {}
  /\ proc = [p \in Procs |-> Idle]
  /\ kills = 0 /\ fin = NoFin
  /\ claim = [n \in NsNames |-> {}] /\ raced = {} /\ abandoned = {} /\ halfway = FALSE

NetnsNext == (\E p \in Procs : Start(p) \/ Step(p) \/ Kill(p)) /\ UNCHANGED set

\* A started process runs on, and flock serves whoever waits.
NetnsSpec ==
  /\ NetnsInit /\ [][NetnsNext]_netnsVars
  /\ \A p \in Procs : WF_netnsVars(Step(p) /\ UNCHANGED set)

----------------------------------------------------------------------------
(* Properties.                                                             *)

\* However many processes add their first name at the same time and wherever they are
\* killed, the directory is mounted on itself once, as long as flock works ("if multiple
\* ip processes try to attempt the same operation at the same time, the mountpoints will
\* be recursively created multiple times"), and a process that goes on to make its name
\* finds it in a peer group of its own, unless one was stopped between the two mounts
\* that make it so.
MountedOnce ==
  set.flocks =>
    /\ mounts <= 1
    /\ ~halfway =>
         \A p \in Procs : proc[p].pc \in {"create", "unshare", "mount"} => group = "own"

\* A name that was made stands for that namespace, and for one only, until it is
\* deleted; the cleanup after a failed add never removes a name that another
\* process made, unless ip was given -all.  (A delete in the middle of an add of its
\* name can break both.)
NamesBound ==
  \A n \in NsNames \ raced :
    claim[n] # {} => /\ n \in file /\ Len(bound[n]) = 1
                     /\ claim[n] = {bound[n][1]}

\* Once no process is at work, a name has a file exactly if a namespace is mounted on
\* it.  Left out are the names of the race above, and those in whose add or delete a
\* process was killed, or exited because netns_save or netns_restore failed, or left
\* the cleanup to a delete of every name (-all), which stops at the first error.
NothingHalfMade ==
  (\A p \in Procs : ~Active(p)) =>
    \A n \in NsNames \ (raced \cup abandoned) : n \in file <=> bound[n] # <<>>

\* Between two commands of a batch ip is in the namespace it was started in, on
\* every path through netns_add.
NamespaceRestored ==
  \A p \in Procs : proc[p].pc = "idle" => proc[p].ns = Home /\ proc[p].saved = None

\* "ip netns delete" repairs what a killed add or delete left: if it runs alone
\* the name is gone, and with "-all" every name, also as the cleanup of an add that
\* failed.  (The race above can leave two mounts on a name, of which a delete
\* removes one.)
DeleteRepairs ==
  fin.alone =>
    /\ fin.op = "delete" => fin.name \notin file \/ fin.name \in raced
    /\ fin.op \in {"delete all", "cleanup"} => file = {} \/ raced # {}

\* Every command ends, although a process may be killed while it holds the lock
\* and mounts may fail.
CommandEnds == \A p \in Procs : Active(p) ~> ~Active(p)

=============================================================================
