---------------------------- MODULE NetnsProofs -----------------------------
(***************************************************************************)
(* Proofs about "ip netns", for every number of processes, names, commands *)
(* and kills, whichever mounts fail, and about "ip netns pids" and         *)
(* "ip netns identify", whatever comes and goes during the scan.           *)
(*                                                                         *)
(* Each action changes the record of one process; the lemmas of the first  *)
(* section say what it does to the fields that matter.  Five inductive     *)
(* invariants follow: where a namespace is saved (SavedInv), who may mount *)
(* the directory (LockInv), its peer group (GroupInv), what is on a name   *)
(* and who is at work on it (NameInv), and what a process finds that runs  *)
(* alone (AloneInv).  ScanInv says that the namespace a scan looks for     *)
(* keeps its inode while the scan has it open.                             *)
(***************************************************************************)
EXTENDS Netns, NsScan, TLAPS

Pcs == {"idle", "dead", "flock", "shared", "bind", "private", "create", "unshare", "mount",
        "opendir", "readdir", "umount", "unlink"}
Ops == {"none", "add", "attach", "delete", "delete all", "cleanup"}
Spaces == {Home, Target, None} \cup (Procs \X Nat)
ProcRec == [pc : Pcs, op : Ops, name : NsNames \cup {""}, k : Nat, ns : Spaces, saved : Spaces,
            todo : SUBSET NsNames, late : SUBSET NsNames, alone : BOOLEAN]

\* The places in the code where a process works on one name.
AtName == {"flock", "shared", "bind", "private", "create", "unshare", "mount", "umount", "unlink"}

\* The type invariant.
TypeInv ==
  /\ set \in Settings
  /\ file \subseteq NsNames
  /\ proc \in [Procs -> ProcRec]
  /\ \A p \in Procs : proc[p].pc \in AtName => proc[p].name \in NsNames

\* What the invariants below look at in the record of a process.
Kept(q) == /\ proc'[q].pc = proc[q].pc /\ proc'[q].op = proc[q].op
           /\ proc'[q].name = proc[q].name
           /\ proc'[q].ns = proc[q].ns /\ proc'[q].saved = proc[q].saved
OthersKept(p) == \A q \in Procs \ {p} : Kept(q)
Untouched(p) == \A q \in Procs \ {p} : proc'[q] = proc[q]

----------------------------------------------------------------------------
(* What the steps do to the records.                                       *)

\* A process between two commands has the record ip starts with.
LEMMA IdleType == Idle \in ProcRec
  BY Zenon DEF Idle, ProcRec, Pcs, Ops, Spaces, Home, None

\* A step to another place in the code changes nothing else.
LEMMA GotoFields ==
  ASSUME proc \in [Procs -> ProcRec], NEW p \in Procs, NEW c \in Pcs, Goto(p, c)
  PROVE  /\ proc' \in [Procs -> ProcRec]
         /\ OthersKept(p)
         /\ proc'[p].pc = c /\ proc'[p].op = proc[p].op /\ proc'[p].name = proc[p].name
         /\ proc'[p].ns = proc[p].ns /\ proc'[p].saved = proc[p].saved
<1>1. [proc[p] EXCEPT !.pc = c] \in ProcRec
  BY Zenon DEF ProcRec
<1>2. proc' = [proc EXCEPT ![p] = [proc[p] EXCEPT !.pc = c]]
  BY Zenon DEF Goto
<1> QED
  BY Zenon, <1>1, <1>2 DEF ProcRec, OthersKept, Kept

\* A command that returns leaves the process where the next one begins.
LEMMA ReturnFields ==
  ASSUME proc \in [Procs -> ProcRec], NEW p \in Procs, NEW r \in ProcRec, NEW c,
         CommandReturn(p, r, c)
  PROVE  /\ proc' \in [Procs -> ProcRec]
         /\ OthersKept(p)
         /\ proc'[p].pc = "idle" /\ proc'[p].op = "none"
         /\ proc'[p].ns = r.ns /\ proc'[p].saved = r.saved
         /\ Untouched(p) /\ proc'[p].alone = FALSE
<1> DEFINE d == [Idle EXCEPT !.k = r.k, !.ns = r.ns, !.saved = r.saved]
<1>1. d \in ProcRec
  BY Zenon, IdleType DEF ProcRec
<1>2. d.pc = "idle" /\ d.op = "none" /\ d.ns = r.ns /\ d.saved = r.saved /\ d.alone = FALSE
  BY Zenon, IdleType DEF Idle, ProcRec
<1>3. proc' = [proc EXCEPT ![p] = d]
  BY Zenon DEF CommandReturn
<1> HIDE DEF d
<1> QED
  BY Zenon, <1>1, <1>2, <1>3 DEF OthersKept, Kept, Untouched

\* netns_restore changes the namespace and what was saved of it.
LEMMA RestoredFields ==
  ASSUME NEW r \in ProcRec
  PROVE  /\ Restored(r) \in ProcRec
         /\ Restored(r).pc = r.pc /\ Restored(r).op = r.op /\ Restored(r).name = r.name
         /\ Restored(r).saved = None
         /\ Restored(r).ns = IF r.saved = None THEN r.ns ELSE r.saved
         /\ Restored(r).alone = r.alone
<1>1. CASE r.saved = None
  BY Zenon, <1>1 DEF Restored
<1>2. CASE r.saved # None
  <2>1. [r EXCEPT !.ns = r.saved] \in ProcRec
    BY Zenon DEF ProcRec
  <2>2. Restored(r) = [[r EXCEPT !.ns = r.saved] EXCEPT !.saved = None]
    BY <1>2, Zenon DEF Restored
  <2>3. None \in Spaces
    BY Zenon DEF Spaces
  <2>4. Restored(r) \in ProcRec
    BY <2>1, <2>2, <2>3, Zenon DEF ProcRec
  <2> QED
    BY Zenon, <1>2, <2>2, <2>4 DEF ProcRec
<1> QED
  BY Zenon, <1>1, <1>2

\* A command is started.
LEMMA StartFields ==
  ASSUME TypeInv, NEW p \in Procs, Start(p)
  PROVE  /\ proc' \in [Procs -> ProcRec]
         /\ OthersKept(p)
         /\ proc[p].pc = "idle"
         /\ proc'[p].pc \in {"flock", "umount", "opendir"}
         /\ proc'[p].pc # "opendir" => proc'[p].name \in NsNames
         /\ proc'[p].pc = "flock" => proc'[p].op \in {"add", "attach"}
         /\ proc'[p].pc = "umount" => proc'[p].op = "delete"
         /\ proc'[p].pc = "opendir" => proc'[p].op = "delete all"
         /\ proc'[p].ns = proc[p].ns /\ proc'[p].saved = proc[p].saved
<1> DEFINE one == \A r \in Procs \ {p} : ~Active(r)
<1>1. PICK op \in set.ops, n \in NsNames :
       proc' = [q \in Procs |->
                  IF q # p THEN [proc[q] EXCEPT !.alone = FALSE]
                  ELSE [proc[p] EXCEPT !.op = op, !.name = IF op = "delete all" THEN "" ELSE n,
                          !.pc = First(op), !.k = @ + 1, !.alone = one]]
  BY Zenon DEF Start
<1>2. op \in {"add", "attach", "delete", "delete all"}
  BY Zenon, NetnsAssumption DEF TypeInv
<1> DEFINE called == IF op = "delete all" THEN "" ELSE n
           r1 == [proc[p] EXCEPT !.op = op]
           r2 == [r1 EXCEPT !.name = called]
           r3 == [r2 EXCEPT !.pc = First(op)]
           r4 == [r3 EXCEPT !.k = proc[p].k + 1]
           r5 == [r4 EXCEPT !.alone = one]
<1>3. proc[p] \in ProcRec
  BY Zenon DEF TypeInv
<1>4. r1 \in ProcRec
  BY <1>2, <1>3, Zenon DEF ProcRec, Ops
<1>5. r2 \in ProcRec
  <2>1. called \in NsNames \cup {""}
    BY Zenon
  <2> QED
    BY <1>4, <2>1, Zenon DEF ProcRec
<1>6. First(op) \in {"flock", "umount", "opendir"}
  BY Zenon, <1>2 DEF First
<1>7. r3 \in ProcRec
  <2>1. First(op) \in Pcs
    BY Zenon, <1>6 DEF Pcs
  <2> QED
    BY <1>5, <2>1, Zenon DEF ProcRec
<1>8. r4 \in ProcRec
  <2>1. proc[p].k \in Nat
    BY <1>3, Zenon DEF ProcRec
  <2>2. proc[p].k + 1 \in Nat
    BY <2>1
  <2> QED
    BY <1>7, <2>2, Zenon DEF ProcRec
<1>9. one \in BOOLEAN
  BY Zenon
<1>10. r5 \in ProcRec
  BY <1>8, <1>9, ZenonT(30) DEF ProcRec
<1>11. \A q \in Procs : [proc[q] EXCEPT !.alone = FALSE] \in ProcRec
  BY Zenon DEF ProcRec, TypeInv
<1> HIDE DEF one
<1>12. proc'[p] = r5
  BY Zenon, <1>1, <1>3 DEF ProcRec
<1>13. \A q \in Procs \ {p} : proc'[q] = [proc[q] EXCEPT !.alone = FALSE]
  BY <1>1, Zenon
<1>14. proc' \in [Procs -> ProcRec]
  BY Zenon, <1>1, <1>10, <1>11, <1>12, <1>13
<1>15. OthersKept(p)
  <2> SUFFICES ASSUME NEW q \in Procs \ {p}  PROVE Kept(q)
    BY Zenon DEF OthersKept
  <2>1. proc[q] \in ProcRec
    BY Zenon DEF TypeInv
  <2>2. proc'[q] = [proc[q] EXCEPT !.alone = FALSE]
    BY Zenon, <1>13
  <2> QED
    BY Zenon, <2>1, <2>2 DEF Kept, ProcRec
<1>16. /\ r5.pc = First(op) /\ r5.op = op /\ r5.name = called
       /\ r5.ns = proc[p].ns /\ r5.saved = proc[p].saved
  BY Zenon, <1>3 DEF ProcRec
<1>17. proc[p].pc = "idle"
  BY Zenon DEF Start
<1>18. First(op) # "opendir" => op # "delete all"
  BY Zenon, <1>2 DEF First
<1>19. /\ First(op) = "flock" => op \in {"add", "attach"}
       /\ First(op) = "umount" => op = "delete"
       /\ First(op) = "opendir" => op = "delete all"
  BY Zenon, <1>2 DEF First
<1> QED
  BY Zenon, <1>6, <1>12, <1>14, <1>15, <1>16, <1>17, <1>18, <1>19

\* The cleanup of a failed add: its name or, with -all, every name.
LEMMA CleanupFields ==
  ASSUME TypeInv, NEW p \in Procs, NEW r \in ProcRec, Cleanup(p, r)
  PROVE  /\ proc' \in [Procs -> ProcRec]
         /\ OthersKept(p)
         /\ proc'[p].name = r.name /\ proc'[p].ns = r.ns /\ proc'[p].saved = r.saved
         /\ Untouched(p) /\ proc'[p].alone = r.alone
         /\ \/ proc'[p].pc = "umount" /\ proc'[p].op = r.op /\ abandoned' = abandoned
            \/ /\ proc'[p].pc = "opendir" /\ proc'[p].op = "cleanup"
               /\ abandoned' = abandoned \cup {r.name}
<1> DEFINE r1 == [r EXCEPT !.op = "cleanup"]
           r2 == [r1 EXCEPT !.pc = "opendir"]
           r3 == [r EXCEPT !.pc = "umount"]
<1>1. r1 \in ProcRec
  BY Zenon DEF ProcRec, Ops
<1>2. r2 \in ProcRec /\ r3 \in ProcRec
  <2>1. "opendir" \in Pcs /\ "umount" \in Pcs
    BY Zenon DEF Pcs
  <2> QED
    BY <1>1, <2>1, Zenon DEF ProcRec
<1>3. /\ r2.pc = "opendir" /\ r2.op = "cleanup" /\ r2.name = r.name /\ r2.ns = r.ns
      /\ r2.saved = r.saved /\ r2.alone = r.alone
      /\ r3.pc = "umount" /\ r3.op = r.op /\ r3.name = r.name /\ r3.ns = r.ns
      /\ r3.saved = r.saved /\ r3.alone = r.alone
  BY Zenon DEF ProcRec
<1>4. \/ proc' = [proc EXCEPT ![p] = r2] /\ abandoned' = abandoned \cup {r.name}
      \/ proc' = [proc EXCEPT ![p] = r3] /\ abandoned' = abandoned
  BY Zenon DEF Cleanup
<1> HIDE DEF r2, r3
<1> QED
  BY <1>2, <1>3, <1>4, Zenon DEF OthersKept, Kept, Untouched, TypeInv

\* netns_save and unshare.
LEMMA UnshareFields ==
  ASSUME TypeInv, NEW p \in Procs, Unshare(p)
  PROVE  /\ proc' \in [Procs -> ProcRec]
         /\ OthersKept(p)
         /\ proc[p].pc = "unshare"
         /\ proc'[p].name = proc[p].name
         /\ proc'[p].saved = Saved(proc[p])
         /\ proc'[p].pc # "mount" => proc'[p].ns = proc[p].ns
         /\ Untouched(p) /\ proc'[p].alone = proc[p].alone
         /\ \/ /\ proc'[p].pc \in {"mount", "umount"} /\ proc'[p].op = proc[p].op
               /\ abandoned' = abandoned
            \/ /\ proc'[p].pc = "opendir" /\ proc'[p].op = "cleanup"
               /\ abandoned' = abandoned \cup {proc[p].name}
<1> DEFINE s == Saved(proc[p])
           r1 == [proc[p] EXCEPT !.saved = s]
           r2 == [r1 EXCEPT !.ns = <<p, proc[p].k>>]
           r3 == [r2 EXCEPT !.pc = "mount"]
<1>1. proc[p] \in ProcRec
  BY Zenon DEF TypeInv
<1>2. proc[p].ns \in Spaces /\ proc[p].saved \in Spaces /\ proc[p].k \in Nat
  BY <1>1, Zenon DEF ProcRec
<1>3. s \in Spaces
  BY Zenon, <1>2 DEF Saved
<1>4. r1 \in ProcRec
  BY <1>1, <1>3, Zenon DEF ProcRec
<1>5. <<p, proc[p].k>> \in Spaces
  BY Zenon, <1>2 DEF Spaces
<1>6. r2 \in ProcRec
  BY <1>4, <1>5, Zenon DEF ProcRec
<1>7. r3 \in ProcRec
  <2>1. "mount" \in Pcs
    BY Zenon DEF Pcs
  <2> QED
    BY <1>6, <2>1, Zenon DEF ProcRec
<1>8. /\ r3.pc = "mount" /\ r3.op = proc[p].op /\ r3.name = proc[p].name /\ r3.saved = s
      /\ r3.alone = proc[p].alone
      /\ r1.pc = proc[p].pc /\ r1.op = proc[p].op /\ r1.name = proc[p].name /\ r1.saved = s
      /\ r1.ns = proc[p].ns /\ r1.alone = proc[p].alone /\ r1.k = proc[p].k
  BY Zenon, <1>1 DEF ProcRec
<1>9. r1.pc = "unshare"
  BY Zenon DEF Unshare
<1>10. \/ proc' = [proc EXCEPT ![p] = r3] /\ abandoned' = abandoned
       \/ Cleanup(p, r1)
  BY Zenon, <1>8 DEF Unshare
<1>11. proc \in [Procs -> ProcRec]
  BY Zenon DEF TypeInv
<1> HIDE DEF r1, r3
<1>12. CASE proc' = [proc EXCEPT ![p] = r3] /\ abandoned' = abandoned
  BY <1>7, <1>8, <1>9, <1>11, <1>12, Zenon DEF OthersKept, Kept, Untouched
<1>13. CASE Cleanup(p, r1)
  BY <1>4, <1>8, <1>9, <1>13, CleanupFields, Zenon
<1> QED
  BY <1>10, <1>12, <1>13, Zenon

\* The mount on the name fails, or the name is gone.
LEMMA OutDeleteFields ==
  ASSUME TypeInv, NEW p \in Procs, OutDelete(p)
  PROVE  /\ proc' \in [Procs -> ProcRec]
         /\ OthersKept(p)
         /\ proc[p].pc = "mount"
         /\ proc'[p].name = proc[p].name
         /\ proc'[p].ns = proc[p].ns /\ proc'[p].saved = proc[p].saved
         /\ Untouched(p) /\ proc'[p].alone = proc[p].alone
         /\ \/ /\ proc'[p].pc = IF proc[p].op = "add" THEN "umount" ELSE "unlink"
               /\ proc'[p].op = proc[p].op /\ abandoned' = abandoned
            \/ /\ proc[p].op = "add" /\ proc'[p].pc = "opendir" /\ proc'[p].op = "cleanup"
               /\ abandoned' = abandoned \cup {proc[p].name}
<1>1. proc[p] \in ProcRec /\ proc \in [Procs -> ProcRec] /\ "unlink" \in Pcs
  BY Zenon DEF TypeInv, Pcs
<1>2. proc[p].pc = "mount"
  BY Zenon DEF OutDelete
<1>3. CASE proc[p].op = "add"
  <2>1. Cleanup(p, proc[p])
    BY <1>3, Zenon DEF OutDelete
  <2> QED
    BY <1>1, <1>2, <1>3, <2>1, CleanupFields, Zenon
<1>4. CASE proc[p].op # "add"
  <2>1. Goto(p, "unlink") /\ abandoned' = abandoned
    BY <1>4, Zenon DEF OutDelete
  <2>2. Untouched(p) /\ proc'[p].alone = proc[p].alone
    BY Zenon, <1>1, <2>1 DEF Goto, Untouched, ProcRec
  <2> QED
    BY <1>1, <1>2, <1>4, <2>1, <2>2, GotoFields, Zenon
<1> QED
  BY Zenon, <1>3, <1>4

\* "-all": the names are listed, after the restore of a failed add.
LEMMA OpendirFields ==
  ASSUME TypeInv, NEW p \in Procs, Opendir(p)
  PROVE  /\ proc' \in [Procs -> ProcRec]
         /\ OthersKept(p)
         /\ proc[p].pc = "opendir" /\ proc'[p].pc = "readdir" /\ proc'[p].op = proc[p].op
         /\ proc'[p].ns = Restored(proc[p]).ns /\ proc'[p].saved = None
         /\ Untouched(p) /\ proc'[p].alone = proc[p].alone
         /\ proc'[p].todo = file /\ proc'[p].late \cap file = {}
<1> DEFINE r == Restored(proc[p])
<1>1. PICK later \in SUBSET (NsNames \ file) :
        proc' = [proc EXCEPT ![p] = [r EXCEPT !.pc = "readdir", !.todo = file, !.late = later]]
  BY Zenon DEF Opendir
<1> DEFINE r1 == [r EXCEPT !.pc = "readdir"]
           r2 == [r1 EXCEPT !.todo = file]
           r3 == [r2 EXCEPT !.late = later]
<1>2. proc[p] \in ProcRec
  BY Zenon DEF TypeInv
<1>3. /\ r \in ProcRec /\ r.pc = proc[p].pc /\ r.op = proc[p].op /\ r.saved = None
      /\ r.alone = proc[p].alone
  BY Zenon, <1>2, RestoredFields
<1>4. r.pc = "opendir"
  BY Zenon DEF Opendir
<1>5. proc' = [proc EXCEPT ![p] = r3]
  BY Zenon, <1>1
<1> HIDE DEF r
<1>6. r1 \in ProcRec
  BY <1>3, Zenon DEF ProcRec, Pcs
<1>7. r2 \in ProcRec
  <2>1. file \in SUBSET NsNames
    BY Zenon DEF TypeInv
  <2> QED
    BY <1>6, <2>1, Zenon DEF ProcRec
<1>8. r3 \in ProcRec
  <2>1. later \in SUBSET NsNames
    BY Zenon
  <2> QED
    BY <1>7, <2>1, Zenon DEF ProcRec
<1>9. /\ r3.pc = "readdir" /\ r3.op = r.op
      /\ r3.ns = r.ns /\ r3.saved = r.saved
      /\ r3.alone = r.alone /\ r3.todo = file /\ r3.late = later
  BY Zenon, <1>3 DEF ProcRec
<1> HIDE DEF r3
<1>10. later \cap file = {}
  BY Zenon
<1> QED
  BY <1>3, <1>4, <1>5, <1>8, <1>9, <1>10, Zenon DEF OthersKept, Kept, Untouched, TypeInv, r

\* "-all": the next name, or the end of the loop.
LEMMA ReaddirFields ==
  ASSUME TypeInv, NEW p \in Procs, Readdir(p)
  PROVE  /\ proc' \in [Procs -> ProcRec]
         /\ OthersKept(p)
         /\ proc[p].pc = "readdir"
         /\ \/ /\ proc'[p].pc = "idle" /\ proc'[p].op = "none"
               /\ \E c : CommandReturn(p, proc[p], c)
               /\ proc[p].todo \cup (proc[p].late \cap file) = {}
            \/ /\ proc'[p].pc = "umount" /\ proc'[p].op = proc[p].op
               /\ proc'[p].name \in NsNames
               /\ proc'[p].name \in proc[p].todo \cup (proc[p].late \cap file)
               /\ proc'[p].todo = proc[p].todo \ {proc'[p].name}
               /\ proc'[p].late = proc[p].late \ {proc'[p].name}
               /\ proc'[p].alone = proc[p].alone /\ fin' = NoFin
            \/ /\ proc'[p].pc = "readdir" /\ proc'[p].op = proc[p].op
               /\ \E n \in proc[p].todo \ file : proc'[p].todo = proc[p].todo \ {n}
               /\ proc'[p].late = proc[p].late
               /\ proc'[p].alone = proc[p].alone /\ fin' = NoFin
         /\ Untouched(p)
         /\ proc'[p].ns = proc[p].ns /\ proc'[p].saved = proc[p].saved
<1>1. proc[p] \in ProcRec
  BY Zenon DEF TypeInv
<1>2. proc[p].pc = "readdir"
  BY Zenon DEF Readdir
<1>3. CASE (\E c : CommandReturn(p, proc[p], c)) /\ proc[p].todo \cup (proc[p].late \cap file) = {}
  BY <1>1, <1>2, <1>3, ReturnFields, Zenon DEF TypeInv
<1>4. ASSUME NEW n \in proc[p].todo \cup (proc[p].late \cap file),
             proc' = [proc EXCEPT ![p].pc = "umount", ![p].name = n,
                                  ![p].todo = @ \ {n}, ![p].late = @ \ {n}]
      PROVE  /\ proc' \in [Procs -> ProcRec]
             /\ OthersKept(p)
             /\ proc'[p].pc = "umount" /\ proc'[p].op = proc[p].op /\ proc'[p].name \in NsNames
             /\ proc'[p].ns = proc[p].ns /\ proc'[p].saved = proc[p].saved
             /\ Untouched(p) /\ proc'[p].alone = proc[p].alone /\ proc'[p].name = n
             /\ proc'[p].todo = proc[p].todo \ {n} /\ proc'[p].late = proc[p].late \ {n}
  <2> DEFINE r1 == [proc[p] EXCEPT !.pc = "umount"]
             r2 == [r1 EXCEPT !.name = n]
             r3 == [r2 EXCEPT !.todo = proc[p].todo \ {n}]
             r4 == [r3 EXCEPT !.late = proc[p].late \ {n}]
  <2>1. proc[p].todo \in SUBSET NsNames /\ proc[p].late \in SUBSET NsNames
    BY <1>1, Zenon DEF ProcRec
  <2>2. n \in NsNames
    BY Zenon, <1>4, <2>1
  <2>3. r1 \in ProcRec
    BY <1>1, Zenon DEF ProcRec, Pcs
  <2>4. r2 \in ProcRec
    BY <2>2, <2>3, Zenon DEF ProcRec
  <2>5. proc[p].todo \ {n} \in SUBSET NsNames /\ proc[p].late \ {n} \in SUBSET NsNames
    BY Zenon, <2>1
  <2>6. r3 \in ProcRec
    BY <2>4, <2>5, Zenon DEF ProcRec
  <2>7. r4 \in ProcRec
    BY <2>5, <2>6, Zenon DEF ProcRec
  <2>8. /\ r4.pc = "umount" /\ r4.op = proc[p].op /\ r4.name = n
        /\ r4.ns = proc[p].ns /\ r4.saved = proc[p].saved
        /\ r4.alone = proc[p].alone
        /\ r4.todo = proc[p].todo \ {n} /\ r4.late = proc[p].late \ {n}
    BY Zenon, <1>1 DEF ProcRec
  <2>9. proc' = [proc EXCEPT ![p] = r4]
    BY Zenon, <1>1, <1>4 DEF TypeInv, ProcRec
  <2> HIDE DEF r4
  <2> QED
    BY <2>2, <2>7, <2>8, <2>9, Zenon DEF OthersKept, Kept, Untouched, TypeInv
<1>5. ASSUME NEW n \in proc[p].todo \ file, proc' = [proc EXCEPT ![p].todo = @ \ {n}]
      PROVE  /\ proc' \in [Procs -> ProcRec]
             /\ OthersKept(p)
             /\ proc'[p].pc = proc[p].pc /\ proc'[p].op = proc[p].op
             /\ proc'[p].ns = proc[p].ns /\ proc'[p].saved = proc[p].saved
             /\ Untouched(p) /\ proc'[p].alone = proc[p].alone
             /\ proc'[p].todo = proc[p].todo \ {n} /\ proc'[p].late = proc[p].late
  <2> DEFINE r1 == [proc[p] EXCEPT !.todo = proc[p].todo \ {n}]
  <2>1. proc[p].todo \in SUBSET NsNames
    BY <1>1, Zenon DEF ProcRec
  <2>2. proc[p].todo \ {n} \in SUBSET NsNames
    BY Zenon, <2>1
  <2>3. r1 \in ProcRec
    BY <1>1, <2>2, Zenon DEF ProcRec
  <2>4. /\ r1.pc = proc[p].pc /\ r1.op = proc[p].op
        /\ r1.ns = proc[p].ns /\ r1.saved = proc[p].saved
        /\ r1.alone = proc[p].alone
        /\ r1.todo = proc[p].todo \ {n} /\ r1.late = proc[p].late
    BY Zenon, <1>1 DEF ProcRec
  <2>5. proc' = [proc EXCEPT ![p] = r1]
    BY Zenon, <1>1, <1>5 DEF TypeInv, ProcRec
  <2> HIDE DEF r1
  <2> QED
    BY <2>3, <2>4, <2>5, Zenon DEF OthersKept, Kept, Untouched, TypeInv
<1>6. \/ (\E c : CommandReturn(p, proc[p], c)) /\ proc[p].todo \cup (proc[p].late \cap file) = {}
      \/ /\ \E n \in proc[p].todo \cup (proc[p].late \cap file) :
               proc' = [proc EXCEPT ![p].pc = "umount", ![p].name = n,
                                    ![p].todo = @ \ {n}, ![p].late = @ \ {n}]
         /\ fin' = NoFin
      \/ /\ \E n \in proc[p].todo \ file : proc' = [proc EXCEPT ![p].todo = @ \ {n}]
         /\ fin' = NoFin
  BY Zenon DEF Readdir
<1> QED
  BY <1>2, <1>3, <1>4, <1>5, <1>6, Zenon

\* umount2, after the restore of a failed add.
LEMMA UmountFields ==
  ASSUME TypeInv, NEW p \in Procs, Umount(p)
  PROVE  /\ proc' \in [Procs -> ProcRec]
         /\ OthersKept(p)
         /\ proc[p].pc = "umount"
         /\ proc'[p].pc = "unlink" /\ proc'[p].op = proc[p].op /\ proc'[p].name = proc[p].name
         /\ proc'[p].ns = Restored(proc[p]).ns /\ proc'[p].saved = None
<1> DEFINE r == Restored(proc[p])
           r1 == [r EXCEPT !.pc = "unlink"]
<1>1. proc[p] \in ProcRec
  BY Zenon DEF TypeInv
<1>2. /\ r \in ProcRec /\ r.pc = proc[p].pc /\ r.op = proc[p].op /\ r.name = proc[p].name
      /\ r.saved = None
  BY Zenon, <1>1, RestoredFields
<1>3. r.pc = "umount" /\ proc' = [proc EXCEPT ![p] = r1]
  BY Zenon DEF Umount
<1> HIDE DEF r
<1>4. r1 \in ProcRec
  BY <1>2, Zenon DEF ProcRec, Pcs
<1>5. /\ r1.pc = "unlink" /\ r1.op = r.op /\ r1.name = r.name
      /\ r1.ns = r.ns /\ r1.saved = r.saved
  BY Zenon, <1>2 DEF ProcRec
<1> HIDE DEF r1
<1> QED
  BY <1>2, <1>3, <1>4, <1>5, Zenon DEF OthersKept, Kept, TypeInv, r

\* unlink, and the way back to the loop or out of the command.
LEMMA UnlinkFields ==
  ASSUME TypeInv, NEW p \in Procs, Unlink(p)
  PROVE  /\ proc' \in [Procs -> ProcRec]
         /\ OthersKept(p)
         /\ proc[p].pc = "unlink"
         /\ \/ /\ proc'[p].pc = "readdir" /\ proc[p].op \in {"delete all", "cleanup"}
               /\ proc'[p].op = proc[p].op
               /\ proc'[p].ns = proc[p].ns /\ proc'[p].saved = proc[p].saved
            \/ /\ proc'[p].pc = "idle" /\ proc'[p].op = "none"
               /\ proc'[p].ns = Restored(proc[p]).ns /\ proc'[p].saved = None
<1> DEFINE r == Restored(proc[p])
<1>1. proc[p] \in ProcRec
  BY Zenon DEF TypeInv
<1>2. /\ r \in ProcRec /\ r.pc = proc[p].pc /\ r.op = proc[p].op /\ r.name = proc[p].name
      /\ r.saved = None
  BY Zenon, <1>1, RestoredFields
<1>3. r.pc = "unlink"
  BY Zenon DEF Unlink
<1>4. \/ r.op \in {"delete all", "cleanup"} /\ Goto(p, "readdir")
      \/ \E c : CommandReturn(p, r, c)
  BY Zenon DEF Unlink, Goto
<1> HIDE DEF r
<1>5. CASE r.op \in {"delete all", "cleanup"} /\ Goto(p, "readdir")
  BY Zenon, <1>2, <1>3, <1>5, GotoFields DEF TypeInv, Pcs
<1>6. CASE \E c : CommandReturn(p, r, c)
  <2>1. PICK c : CommandReturn(p, r, c)
    BY Zenon, <1>6
  <2> QED
    BY Zenon, <1>2, <1>3, <2>1, ReturnFields DEF TypeInv, r
<1> QED
  BY Zenon, <1>4, <1>5, <1>6

\* A process that is killed or exits.
LEMMA DiesFields ==
  ASSUME TypeInv, NEW p \in Procs, Dies(p)
  PROVE  /\ proc' \in [Procs -> ProcRec]
         /\ OthersKept(p)
         /\ proc'[p].pc = "dead" /\ proc'[p].op = "none"
         /\ proc'[p].ns = Home /\ proc'[p].saved = None
         /\ Untouched(p) /\ proc'[p].alone = FALSE
<1> DEFINE d == [Idle EXCEPT !.pc = "dead", !.k = proc[p].k]
<1>1. proc[p].k \in Nat
  BY Zenon DEF TypeInv, ProcRec
<1>2. [Idle EXCEPT !.pc = "dead"] \in ProcRec
  BY IdleType, Zenon DEF ProcRec, Pcs
<1>3. d \in ProcRec
  BY <1>1, <1>2, Zenon DEF ProcRec
<1>4. d.pc = "dead" /\ d.op = "none" /\ d.ns = Home /\ d.saved = None /\ d.alone = FALSE
  BY Zenon DEF Idle
<1>5. proc' = [proc EXCEPT ![p] = d]
  BY Zenon DEF Dies
<1> HIDE DEF d
<1> QED
  BY <1>3, <1>4, <1>5, Zenon DEF OthersKept, Kept, Untouched, TypeInv

\* The steps of netns_add that go on to another place in the code, or return.
LEMMA SetupFields ==
  ASSUME TypeInv, NEW p \in Procs,
         Flock(p) \/ MakeShared(p) \/ BindDir(p) \/ MakePrivate(p)
  PROVE  /\ proc' \in [Procs -> ProcRec]
         /\ OthersKept(p)
         /\ proc'[p].op = proc[p].op /\ proc'[p].name = proc[p].name
         /\ proc'[p].ns = proc[p].ns /\ proc'[p].saved = proc[p].saved
         /\ Flock(p) => proc[p].pc = "flock" /\ proc'[p].pc = "shared"
         /\ MakeShared(p) => /\ proc[p].pc = "shared"
                             /\ proc'[p].pc = IF mounts > 0 THEN "create" ELSE "bind"
         /\ BindDir(p) => proc[p].pc = "bind" /\ proc'[p].pc = "private"
         /\ MakePrivate(p) => proc[p].pc = "private" /\ proc'[p].pc = "shared"
<1>1. "shared" \in Pcs /\ "create" \in Pcs /\ "bind" \in Pcs /\ "private" \in Pcs
  BY Zenon DEF Pcs
<1>2. /\ Flock(p) => proc[p].pc = "flock" /\ Goto(p, "shared")
      /\ MakeShared(p) => proc[p].pc = "shared"
      /\ MakeShared(p) /\ mounts > 0 => Goto(p, "create")
      /\ MakeShared(p) /\ ~(mounts > 0) => Goto(p, "bind")
      /\ BindDir(p) => proc[p].pc = "bind" /\ Goto(p, "private")
      /\ MakePrivate(p) => proc[p].pc = "private" /\ Goto(p, "shared")
  BY Zenon DEF Flock, MakeShared, BindDir, MakePrivate
<1>3. proc \in [Procs -> ProcRec]
  BY Zenon DEF TypeInv
<1>4. \A c \in Pcs : Goto(p, c) =>
        /\ proc' \in [Procs -> ProcRec]
        /\ OthersKept(p)
        /\ proc'[p].pc = c /\ proc'[p].op = proc[p].op /\ proc'[p].name = proc[p].name
        /\ proc'[p].ns = proc[p].ns /\ proc'[p].saved = proc[p].saved
  BY <1>3, GotoFields, Zenon
<1>5. \E c \in Pcs : Goto(p, c)
  BY <1>1, <1>2, Zenon
<1>6. /\ proc' \in [Procs -> ProcRec]
      /\ OthersKept(p)
      /\ proc'[p].op = proc[p].op /\ proc'[p].name = proc[p].name
      /\ proc'[p].ns = proc[p].ns /\ proc'[p].saved = proc[p].saved
  BY <1>4, <1>5, Zenon
<1>7. Flock(p) => proc[p].pc = "flock" /\ proc'[p].pc = "shared"
  BY <1>1, <1>2, <1>4, Zenon
<1>8. MakeShared(p) => /\ proc[p].pc = "shared"
                       /\ proc'[p].pc = IF mounts > 0 THEN "create" ELSE "bind"
  BY <1>1, <1>2, <1>4, Zenon
<1>9. BindDir(p) => proc[p].pc = "bind" /\ proc'[p].pc = "private"
  BY <1>1, <1>2, <1>4, Zenon
<1>10. MakePrivate(p) => proc[p].pc = "private" /\ proc'[p].pc = "shared"
  BY <1>1, <1>2, <1>4, Zenon
<1> QED
  BY <1>6, <1>7, <1>8, <1>9, <1>10, Zenon

\* A mount of the directory fails.
LEMMA SetupFailsFields ==
  ASSUME TypeInv, NEW p \in Procs, SetupFails(p)
  PROVE  /\ proc' \in [Procs -> ProcRec]
         /\ OthersKept(p)
         /\ proc[p].pc \in {"shared", "bind", "private"}
         /\ proc'[p].pc = "idle" /\ proc'[p].op = "none"
         /\ proc'[p].ns = proc[p].ns /\ proc'[p].saved = proc[p].saved
<1>1. proc[p] \in ProcRec /\ proc \in [Procs -> ProcRec]
  BY Zenon DEF TypeInv
<1>2. CommandReturn(p, proc[p], "fail") /\ proc[p].pc \in {"shared", "bind", "private"}
  BY Zenon DEF SetupFails
<1> QED
  BY <1>1, <1>2, ReturnFields, Zenon

\* The file is made, or it was there.
LEMMA CreateFileFields ==
  ASSUME TypeInv, NEW p \in Procs, CreateFile(p)
  PROVE  /\ proc' \in [Procs -> ProcRec]
         /\ OthersKept(p)
         /\ proc[p].pc = "create"
         /\ proc'[p].ns = proc[p].ns /\ proc'[p].saved = proc[p].saved
         /\ \/ proc'[p].pc = "idle" /\ proc'[p].op = "none" /\ file' = file
            \/ /\ proc[p].name \notin file /\ file' = file \cup {proc[p].name}
               /\ proc'[p].op = proc[p].op /\ proc'[p].name = proc[p].name
               /\ proc'[p].pc = IF proc[p].op = "add" THEN "unshare" ELSE "mount"
<1>1. proc[p] \in ProcRec /\ proc \in [Procs -> ProcRec]
  BY Zenon DEF TypeInv
<1>2. proc[p].pc = "create"
  BY Zenon DEF CreateFile
<1>3. CASE proc[p].name \in file
  <2>1. CommandReturn(p, proc[p], "fail") /\ file' = file
    BY <1>3, Zenon DEF CreateFile
  <2> QED
    BY <1>1, <1>2, <2>1, ReturnFields, Zenon
<1>4. CASE proc[p].name \notin file
  <2> DEFINE c == IF proc[p].op = "add" THEN "unshare" ELSE "mount"
  <2>1. Goto(p, c) /\ file' = file \cup {proc[p].name}
    BY <1>4, Zenon DEF CreateFile
  <2>2. c \in Pcs
    BY Zenon DEF Pcs
  <2> HIDE DEF c
  <2>3. /\ proc' \in [Procs -> ProcRec]
        /\ OthersKept(p)
        /\ proc'[p].pc = c /\ proc'[p].op = proc[p].op /\ proc'[p].name = proc[p].name
        /\ proc'[p].ns = proc[p].ns /\ proc'[p].saved = proc[p].saved
    BY <1>1, <2>1, <2>2, GotoFields, Zenon
  <2> QED
    BY <1>2, <1>4, <2>1, <2>3, Zenon DEF c
<1> QED
  BY <1>3, <1>4, Zenon

\* The namespace is mounted, and the command returns, or exits.
LEMMA MountNsFields ==
  ASSUME TypeInv, NEW p \in Procs, MountNs(p)
  PROVE  /\ proc' \in [Procs -> ProcRec]
         /\ OthersKept(p)
         /\ proc[p].pc = "mount"
         /\ proc'[p].pc \in {"idle", "dead"} /\ proc'[p].op = "none"
         /\ proc'[p].ns \in {Restored(proc[p]).ns, Home} /\ proc'[p].saved = None
         /\ lock' \in {lock, lock \ {p}}
         /\ Untouched(p) /\ proc'[p].alone = FALSE
<1> DEFINE r == Restored(proc[p])
<1>1. proc[p] \in ProcRec /\ proc \in [Procs -> ProcRec]
  BY Zenon DEF TypeInv
<1>2. r \in ProcRec /\ r.saved = None
  BY Zenon, <1>1, RestoredFields
<1>3. /\ proc[p].pc = "mount"
      /\ (CommandReturn(p, r, "ok") /\ lock' = lock) \/ Dies(p)
  BY Zenon DEF MountNs
<1>4. CASE Dies(p)
  <2>1. lock' = lock \ {p}
    BY Zenon, <1>4 DEF Dies
  <2> QED
    BY <1>3, <1>4, <2>1, DiesFields, Zenon
<1> HIDE DEF r
<1>5. CASE CommandReturn(p, r, "ok") /\ lock' = lock
  <2>1. /\ proc' \in [Procs -> ProcRec]
        /\ OthersKept(p)
        /\ proc'[p].pc = "idle" /\ proc'[p].op = "none"
        /\ proc'[p].ns = r.ns /\ proc'[p].saved = r.saved
        /\ Untouched(p) /\ proc'[p].alone = FALSE
    BY <1>1, <1>2, <1>5, ReturnFields, Zenon
  <2> QED
    BY <1>2, <1>3, <1>5, <2>1, Zenon DEF r
<1> QED
  BY <1>3, <1>4, <1>5, Zenon

----------------------------------------------------------------------------
(* The types.                                                              *)

\* The types of the state hold in every reachable state.
THEOREM NetnsTypes == NetnsSpec => []TypeInv
<1>1. NetnsInit => TypeInv
  <2>1. Idle.pc \notin AtName
    BY Zenon DEF Idle, AtName
  <2> QED
    BY Zenon, <2>1, IdleType DEF NetnsInit, TypeInv
<1>2. TypeInv /\ [NetnsNext]_netnsVars => TypeInv'
  <2> SUFFICES ASSUME TypeInv, [NetnsNext]_netnsVars
               PROVE  TypeInv'
    BY Zenon
  <2>1. CASE UNCHANGED netnsVars
    BY Zenon, <2>1 DEF TypeInv, netnsVars
  <2>2. CASE NetnsNext
    <3>1. PICK p \in Procs : Start(p) \/ Step(p) \/ Kill(p)
      BY Zenon, <2>2 DEF NetnsNext
    <3>2. set' \in Settings
      BY Zenon, <2>2 DEF NetnsNext, TypeInv
    <3> SUFFICES /\ file' \subseteq NsNames
                 /\ proc' \in [Procs -> ProcRec]
                 /\ OthersKept(p)
                 /\ proc'[p].pc \in AtName => proc'[p].name \in NsNames
      BY <3>2, Zenon DEF TypeInv, OthersKept, Kept
    <3>3. CASE Start(p)
      BY Zenon, <3>3, StartFields DEF Start, TypeInv, AtName
    <3>4. CASE Flock(p) \/ MakeShared(p) \/ BindDir(p) \/ MakePrivate(p)
      <4>1. file' = file
        BY Zenon, <3>4 DEF Flock, MakeShared, BindDir, MakePrivate
      <4> QED
        BY Zenon, <3>4, <4>1, SetupFields DEF TypeInv, AtName
    <3>5. CASE SetupFails(p)
      BY Zenon, <3>5, SetupFailsFields DEF SetupFails, TypeInv, AtName
    <3>6. CASE CreateFile(p)
      BY SMTT(20), <3>6, CreateFileFields DEF TypeInv, AtName
    <3>7. CASE Unshare(p)
      BY Zenon, <3>7, UnshareFields DEF Unshare, TypeInv, AtName
    <3>8. CASE MountNs(p)
      BY Zenon, <3>8, MountNsFields DEF MountNs, TypeInv, AtName
    <3>9. CASE Opendir(p)
      BY Zenon, <3>9, OpendirFields DEF Opendir, TypeInv, AtName
    <3>10. CASE Readdir(p)
      BY Zenon, <3>10, ReaddirFields DEF Readdir, TypeInv, AtName
    <3>11. CASE Umount(p)
      BY Zenon, <3>11, UmountFields DEF Umount, TypeInv, AtName
    <3>12. CASE Unlink(p)
      <4>1. file' \subseteq NsNames
        BY Zenon, <3>12 DEF Unlink, TypeInv
      <4> QED
        BY Zenon, <3>12, <4>1, UnlinkFields DEF AtName
    <3>13. CASE Kill(p) \/ GiveUp(p)
      <4>1. Dies(p) /\ file' = file
        BY Zenon, <3>13 DEF Kill, GiveUp
      <4> QED
        BY Zenon, <4>1, DiesFields DEF TypeInv, AtName
    <3>14. CASE OutDelete(p)
      BY Zenon, <3>14, OutDeleteFields DEF OutDelete, TypeInv, AtName
    <3> QED
      BY <3>1, <3>3, <3>4, <3>5, <3>6, <3>7, <3>8, <3>9, <3>10, <3>11, <3>12, <3>13, <3>14, Zenon
         DEF Step
  <2> QED
    BY Zenon, <2>1, <2>2
<1> QED
  BY <1>1, <1>2, PTL DEF NetnsSpec

----------------------------------------------------------------------------
(* Between two commands ip is in the namespace it was started in.          *)

\* Which command a process is in, by its place in the code.
OpInv ==
  \A p \in Procs :
    /\ proc[p].pc \in {"flock", "shared", "bind", "private", "create", "mount"}
         => proc[p].op \in {"add", "attach"}
    /\ proc[p].pc = "unshare" => proc[p].op = "add"
    /\ proc[p].pc \in {"opendir", "readdir"} => proc[p].op \in {"delete all", "cleanup"}

\* What netns_save has saved is the namespace ip was started in, and something is saved only
\* from unshare to the restore that follows it; otherwise that is the namespace ip is in.
SavedInv ==
  \A p \in Procs :
    /\ proc[p].saved \in {None, Home}
    /\ proc[p].saved = None => proc[p].ns = Home
    /\ proc[p].saved # None => \/ proc[p].pc \in {"mount", "umount"} /\ proc[p].op = "add"
                               \/ proc[p].pc = "opendir" /\ proc[p].op = "cleanup"

\* OpInv is inductive.
LEMMA OpStep == TypeInv /\ OpInv /\ [NetnsNext]_netnsVars => OpInv'
<1> SUFFICES ASSUME TypeInv, OpInv, [NetnsNext]_netnsVars
             PROVE  OpInv'
  BY Zenon
<1>1. CASE UNCHANGED netnsVars
  BY Zenon, <1>1 DEF OpInv, netnsVars
<1>2. CASE NetnsNext
  <2>1. PICK p \in Procs : Start(p) \/ Step(p) \/ Kill(p)
    BY Zenon, <1>2 DEF NetnsNext
  <2> SUFFICES /\ OthersKept(p)
               /\ proc'[p].pc \in {"flock", "shared", "bind", "private", "create", "mount"}
                    => proc'[p].op \in {"add", "attach"}
               /\ proc'[p].pc = "unshare" => proc'[p].op = "add"
               /\ proc'[p].pc \in {"opendir", "readdir"} =>
                    proc'[p].op \in {"delete all", "cleanup"}
    BY Zenon DEF OpInv, OthersKept, Kept
  <2>2. CASE Start(p)
    BY Zenon, <2>2, StartFields
  <2>3. CASE Flock(p) \/ MakeShared(p) \/ BindDir(p) \/ MakePrivate(p)
    BY Zenon, <2>3, SetupFields DEF OpInv
  <2>4. CASE SetupFails(p)
    BY Zenon, <2>4, SetupFailsFields
  <2>5. CASE CreateFile(p)
    BY Zenon, <2>5, CreateFileFields DEF OpInv
  <2>6. CASE Unshare(p)
    BY Zenon, <2>6, UnshareFields DEF OpInv
  <2>7. CASE MountNs(p)
    BY Zenon, <2>7, MountNsFields
  <2>8. CASE Opendir(p)
    BY Zenon, <2>8, OpendirFields DEF OpInv
  <2>9. CASE Readdir(p)
    BY Zenon, <2>9, ReaddirFields DEF OpInv
  <2>10. CASE Umount(p)
    BY Zenon, <2>10, UmountFields
  <2>11. CASE Unlink(p)
    BY Zenon, <2>11, UnlinkFields
  <2>12. CASE Kill(p) \/ GiveUp(p)
    BY Zenon, <2>12, DiesFields DEF Kill, GiveUp
  <2>13. CASE OutDelete(p)
    BY Zenon, <2>13, OutDeleteFields DEF OpInv
  <2> QED
    BY <2>1, <2>2, <2>3, <2>4, <2>5, <2>6, <2>7, <2>8, <2>9, <2>10, <2>11, <2>12, <2>13, Zenon
       DEF Step
<1> QED
  BY Zenon, <1>1, <1>2

\* The restore of netns_add gets back to the namespace ip was started in.
LEMMA RestoredHome ==
  ASSUME TypeInv, SavedInv, NEW p \in Procs
  PROVE  Restored(proc[p]).ns = Home
<1>1. proc[p] \in ProcRec
  BY Zenon DEF TypeInv
<1>2. Restored(proc[p]).ns = IF proc[p].saved = None THEN proc[p].ns ELSE proc[p].saved
  BY Zenon, <1>1, RestoredFields
<1> QED
  BY Zenon, <1>2 DEF SavedInv

\* SavedInv is inductive: netns_save and netns_restore.
LEMMA SavedStep == TypeInv /\ OpInv /\ SavedInv /\ [NetnsNext]_netnsVars => SavedInv'
<1> SUFFICES ASSUME TypeInv, OpInv, SavedInv, [NetnsNext]_netnsVars
             PROVE  SavedInv'
  BY Zenon
<1>1. CASE UNCHANGED netnsVars
  BY Zenon, <1>1 DEF SavedInv, netnsVars
<1>2. CASE NetnsNext
  <2>1. PICK p \in Procs : Start(p) \/ Step(p) \/ Kill(p)
    BY Zenon, <1>2 DEF NetnsNext
  <2>2. Home # None
    BY Zenon DEF Home, None
  <2>3. /\ proc[p].saved \in {None, Home}
        /\ proc[p].saved = None => proc[p].ns = Home
        /\ proc[p].saved # None => \/ proc[p].pc \in {"mount", "umount"} /\ proc[p].op = "add"
                                   \/ proc[p].pc = "opendir" /\ proc[p].op = "cleanup"
    BY Zenon DEF SavedInv
  <2> SUFFICES /\ OthersKept(p)
               /\ proc'[p].saved \in {None, Home}
               /\ proc'[p].saved = None => proc'[p].ns = Home
               /\ proc'[p].saved # None =>
                    \/ proc'[p].pc \in {"mount", "umount"} /\ proc'[p].op = "add"
                    \/ proc'[p].pc = "opendir" /\ proc'[p].op = "cleanup"
    BY ZenonT(30) DEF SavedInv, OthersKept, Kept
  <2>4. CASE Start(p)
    BY Zenon, <2>3, <2>4, StartFields
  <2>5. CASE Flock(p) \/ MakeShared(p) \/ BindDir(p) \/ MakePrivate(p)
    BY Zenon, <2>3, <2>5, SetupFields
  <2>6. CASE SetupFails(p)
    BY Zenon, <2>3, <2>6, SetupFailsFields
  <2>7. CASE CreateFile(p)
    BY Zenon, <2>3, <2>7, CreateFileFields
  <2>8. CASE Unshare(p)
    BY Zenon, <2>2, <2>3, <2>8, UnshareFields DEF Saved, OpInv
  <2>9. CASE MountNs(p)
    BY Zenon, <2>9, MountNsFields, RestoredHome
  <2>10. CASE OutDelete(p)
    <3>1. CASE proc[p].op = "add"
      BY Zenon, <2>3, <2>10, <3>1, OutDeleteFields
    <3>2. CASE proc[p].op # "add"
      BY Zenon, <2>3, <2>10, <3>2, OutDeleteFields
    <3> QED
      BY Zenon, <3>1, <3>2
  <2>11. CASE Opendir(p)
    BY Zenon, <2>11, OpendirFields, RestoredHome
  <2>12. CASE Readdir(p)
    BY Zenon, <2>3, <2>12, ReaddirFields
  <2>13. CASE Umount(p)
    BY Zenon, <2>13, UmountFields, RestoredHome
  <2>14. CASE Unlink(p)
    BY Zenon, <2>3, <2>14, UnlinkFields, RestoredHome
  <2>15. CASE Kill(p) \/ GiveUp(p)
    BY Zenon, <2>15, DiesFields DEF Kill, GiveUp
  <2> QED
    BY <2>1, <2>4, <2>5, <2>6, <2>7, <2>8, <2>9, <2>10, <2>11, <2>12, <2>13, <2>14, <2>15, Zenon
       DEF Step
<1> QED
  BY Zenon, <1>1, <1>2

\* NamespaceRestored for every number of processes, names and commands and whatever fails:
\* on every path through netns_add ip is back in its own namespace when the command ends.
THEOREM NamespaceIsRestored == NetnsSpec => []NamespaceRestored
<1>1. NetnsInit => OpInv /\ SavedInv
  <2>1. Idle.pc = "idle" /\ Idle.saved = None /\ Idle.ns = Home
    BY Zenon DEF Idle
  <2> QED
    BY Zenon, <2>1 DEF NetnsInit, OpInv, SavedInv
<1>2. SavedInv => NamespaceRestored
  BY Zenon DEF SavedInv, NamespaceRestored
<1> QED
  BY <1>1, <1>2, NetnsTypes, OpStep, SavedStep, PTL DEF NetnsSpec

----------------------------------------------------------------------------
(* The mounts of the directory.                                            *)

\* Where netns_add works on the mounts of the directory.
AtMounts == {"shared", "bind", "private"}

\* Where flock works, one process at a time is there; it binds the directory on itself only if
\* nobody has done so.
LockInv ==
  /\ set.flocks =>
       /\ \A p, q \in lock : p = q
       /\ \A p \in Procs : proc[p].pc \in AtMounts => p \in lock
       /\ \A p \in Procs : proc[p].pc = "bind" => mounts = 0
       /\ mounts <= 1
  /\ mounts \in Nat
  /\ \A p \in Procs : proc[p].pc = "private" => mounts > 0

\* The peer group of the mount as a process that holds the lock changes it: the one of the
\* parent when it is made, private until the next mount(MS_SHARED), its own from then on.
GroupInv ==
  /\ halfway \in BOOLEAN
  /\ group \in {"parent", "private", "own"}
  /\ set.flocks /\ ~halfway =>
       /\ \A p \in Procs : proc[p].pc \in {"bind", "private"} => group = "parent"
       /\ \A p \in Procs : proc[p].pc \in {"create", "unshare", "mount"} =>
            mounts > 0 /\ group = "own"
       /\ mounts = 0 => group = "parent"
       /\ mounts > 0 /\ group = "parent" => \E p \in Procs : proc[p].pc = "private"

\* A step that does not touch the mounts, of a process that is elsewhere afterwards and at most
\* gives up the lock.
LEMMA LockQuiet ==
  ASSUME LockInv, NEW p \in Procs, OthersKept(p), UNCHANGED <<set, mounts>>,
         lock' \in {lock, lock \ {p}}, proc'[p].pc \notin AtMounts
  PROVE  LockInv'
<1>1. \A q \in Procs : proc'[q].pc \in AtMounts => proc'[q].pc = proc[q].pc
  BY Zenon DEF OthersKept, Kept
<1>2. "bind" \in AtMounts
  BY Zenon DEF AtMounts
<1>3. "private" \in AtMounts
  BY Zenon DEF AtMounts
<1> QED
  BY Zenon, <1>1, <1>2, <1>3 DEF LockInv

\* LockInv is inductive: what happens under the flock of the directory.
LEMMA LockStep == TypeInv /\ LockInv /\ [NetnsNext]_netnsVars => LockInv'
<1> SUFFICES ASSUME TypeInv, LockInv, [NetnsNext]_netnsVars
             PROVE  LockInv'
  BY Zenon
<1>1. CASE UNCHANGED netnsVars
  BY Zenon, <1>1 DEF LockInv, netnsVars
<1>2. CASE NetnsNext
  <2>1. PICK p \in Procs : Start(p) \/ Step(p) \/ Kill(p)
    BY Zenon, <1>2 DEF NetnsNext
  <2>2. set' = set
    BY SMTT(20), <1>2 DEF NetnsNext
  <2>3. CASE Start(p)
    BY Zenon, <2>2, <2>3, StartFields, LockQuiet DEF Start, AtMounts
  <2>4. CASE Flock(p)
    <3>1. UNCHANGED mounts /\ (set.flocks => lock = {} /\ lock' = {p})
      BY Zenon, <2>4 DEF Flock, Locked
    <3>2. OthersKept(p) /\ proc[p].pc = "flock" /\ proc'[p].pc = "shared"
      BY Zenon, <2>4, SetupFields
    <3> QED
      BY Zenon, <2>2, <3>1, <3>2 DEF LockInv, OthersKept, Kept, AtMounts
  <2>5. CASE MakeShared(p)
    <3>1. UNCHANGED mounts /\ (mounts > 0 => lock' = lock \ {p}) /\ (~(mounts > 0) => lock' = lock)
      BY Zenon, <2>5 DEF MakeShared, Release
    <3>2. /\ OthersKept(p) /\ proc[p].pc = "shared"
          /\ proc'[p].pc = IF mounts > 0 THEN "create" ELSE "bind"
      BY Zenon, <2>5, SetupFields
    <3> QED
      BY <2>2, <3>1, <3>2 DEF LockInv, OthersKept, Kept, AtMounts
  <2>6. CASE BindDir(p)
    <3>1. mounts' = mounts + 1 /\ UNCHANGED lock
      BY Zenon, <2>6 DEF BindDir
    <3>2. OthersKept(p) /\ proc[p].pc = "bind" /\ proc'[p].pc = "private"
      BY Zenon, <2>6, SetupFields
    <3> QED
      BY <2>2, <3>1, <3>2 DEF LockInv, OthersKept, Kept, AtMounts
  <2>7. CASE MakePrivate(p)
    <3>1. UNCHANGED <<mounts, lock>>
      BY Zenon, <2>7 DEF MakePrivate
    <3>2. OthersKept(p) /\ proc[p].pc = "private" /\ proc'[p].pc = "shared"
      BY Zenon, <2>7, SetupFields
    <3> QED
      BY Zenon, <2>2, <3>1, <3>2 DEF LockInv, OthersKept, Kept, AtMounts
  <2>8. CASE SetupFails(p)
    <3>1. UNCHANGED mounts /\ lock' = lock \ {p}
      BY Zenon, <2>8 DEF SetupFails, Release
    <3>2. OthersKept(p) /\ proc'[p].pc = "idle"
      BY Zenon, <2>8, SetupFailsFields
    <3> QED
      BY Zenon, <2>2, <3>1, <3>2 DEF LockInv, OthersKept, Kept, AtMounts
  <2>9. CASE CreateFile(p)
    BY SMTT(20), <2>2, <2>9, CreateFileFields, LockQuiet DEF CreateFile, AtMounts
  <2>10. CASE Unshare(p)
    BY Zenon, <2>2, <2>10, UnshareFields, LockQuiet DEF Unshare, AtMounts
  <2>11. CASE MountNs(p)
    BY Zenon, <2>2, <2>11, MountNsFields, LockQuiet DEF MountNs, AtMounts
  <2>12. CASE OutDelete(p)
    BY Zenon, <2>2, <2>12, OutDeleteFields, LockQuiet DEF OutDelete, AtMounts
  <2>13. CASE Opendir(p)
    BY Zenon, <2>2, <2>13, OpendirFields, LockQuiet DEF Opendir, AtMounts
  <2>14. CASE Readdir(p)
    BY Zenon, <2>2, <2>14, ReaddirFields, LockQuiet DEF Readdir, AtMounts
  <2>15. CASE Umount(p)
    BY Zenon, <2>2, <2>15, UmountFields, LockQuiet DEF Umount, AtMounts
  <2>16. CASE Unlink(p)
    BY Zenon, <2>2, <2>16, UnlinkFields, LockQuiet DEF Unlink, AtMounts
  <2>17. CASE Kill(p) \/ GiveUp(p)
    <3>1. Dies(p) /\ UNCHANGED mounts /\ lock' = lock \ {p}
      BY Zenon, <2>17 DEF Kill, GiveUp, Dies
    <3>2. OthersKept(p) /\ proc'[p].pc = "dead"
      BY Zenon, <3>1, DiesFields
    <3> QED
      BY Zenon, <2>2, <3>1, <3>2, LockQuiet DEF AtMounts
  <2> QED
    BY Zenon, <2>1, <2>3, <2>4, <2>5, <2>6, <2>7, <2>8, <2>9, <2>10, <2>11, <2>12, <2>13, <2>14, <2>15,
       <2>16, <2>17, Zenon DEF Step
<1> QED
  BY Zenon, <1>1, <1>2

\* A step of a process that is neither at the mounts nor past them.
LEMMA GroupQuiet ==
  ASSUME GroupInv, NEW p \in Procs, OthersKept(p), UNCHANGED <<set, mounts, group, halfway>>,
         proc[p].pc # "private",
         \/ proc'[p].pc \notin {"bind", "private", "create", "unshare", "mount"}
         \/ /\ proc[p].pc \in {"create", "unshare", "mount"}
            /\ proc'[p].pc \in {"unshare", "mount"}
  PROVE  GroupInv'
<1>1. ASSUME set.flocks, ~halfway, mounts > 0, group = "parent"
      PROVE  \E q \in Procs : proc'[q].pc = "private"
  <2>1. PICK q \in Procs : proc[q].pc = "private"
    BY Zenon, <1>1 DEF GroupInv
  <2> QED
    BY Zenon, <2>1 DEF OthersKept, Kept
<1> QED
  BY Zenon, <1>1 DEF GroupInv, OthersKept, Kept

\* A process that stops, by an error or killed.
LEMMA GroupStops ==
  ASSUME GroupInv, NEW p \in Procs, OthersKept(p), UNCHANGED <<set, mounts, group>>,
         halfway' = (halfway \/ proc[p].pc = "private"),
         proc'[p].pc \in {"idle", "dead"}
  PROVE  GroupInv'
<1>1. halfway' \in BOOLEAN
  BY Zenon
<1>2. CASE proc[p].pc = "private"
  BY Zenon, <1>1, <1>2 DEF GroupInv
<1>3. CASE proc[p].pc # "private"
  BY Zenon, <1>3, GroupQuiet DEF GroupInv
<1> QED
  BY Zenon, <1>2, <1>3

\* GroupInv is inductive: the order of MS_BIND, MS_PRIVATE and MS_SHARED.
LEMMA GroupStep == TypeInv /\ LockInv /\ GroupInv /\ [NetnsNext]_netnsVars => GroupInv'
<1> SUFFICES ASSUME TypeInv, LockInv, GroupInv, [NetnsNext]_netnsVars
             PROVE  GroupInv'
  BY Zenon
<1>1. CASE UNCHANGED netnsVars
  BY Zenon, <1>1 DEF GroupInv, netnsVars
<1>2. CASE NetnsNext
  <2>1. PICK p \in Procs : Start(p) \/ Step(p) \/ Kill(p)
    BY Zenon, <1>2 DEF NetnsNext
  <2>2. set' = set
    BY Zenon, <1>2 DEF NetnsNext
  <2>3. set.flocks /\ proc[p].pc \in AtMounts =>
          \A q \in Procs \ {p} : proc[q].pc \notin AtMounts
    BY Zenon DEF LockInv
  <2>4. CASE Start(p)
    BY Zenon, <2>2, <2>4, StartFields, GroupQuiet DEF Start
  <2>5. CASE Flock(p)
    BY Zenon, <2>2, <2>5, SetupFields, GroupQuiet DEF Flock
  <2>6. CASE MakeShared(p)
    <3>1. /\ UNCHANGED <<mounts, halfway>>
          /\ mounts > 0 => group' = IF group = "private" THEN "own" ELSE group
          /\ ~(mounts > 0) => group' = group
      BY Zenon, <2>6 DEF MakeShared
    <3>2. /\ OthersKept(p) /\ proc[p].pc = "shared"
          /\ proc'[p].pc = IF mounts > 0 THEN "create" ELSE "bind"
      BY Zenon, <2>6, SetupFields
    <3>3. set.flocks => \A q \in Procs : proc[q].pc \notin {"bind", "private"}
      BY Zenon, <2>3, <3>2 DEF AtMounts
    <3>4. set.flocks => \A q \in Procs \ {p} : proc'[q].pc \notin {"bind", "private"}
      BY Zenon, <3>2, <3>3 DEF OthersKept, Kept
    <3>5. mounts \in Nat
      BY Zenon DEF LockInv
    <3>6. set.flocks /\ ~halfway /\ mounts > 0 => group' = "own"
      BY Zenon, <3>1, <3>3 DEF GroupInv
    <3>7. set.flocks /\ ~halfway /\ ~(mounts > 0) => mounts = 0 /\ group' = "parent"
      BY <3>1, <3>5 DEF GroupInv
    <3>8. \A q \in Procs \ {p} : proc'[q].pc = proc[q].pc
      BY Zenon, <3>2 DEF OthersKept, Kept
    <3>9. halfway' \in BOOLEAN /\ group' \in {"parent", "private", "own"}
      BY Zenon, <3>1 DEF GroupInv
    <3>10. CASE mounts > 0
      BY Zenon, <2>2, <3>1, <3>2, <3>4, <3>5, <3>6, <3>8, <3>9, <3>10 DEF GroupInv
    <3>11. CASE ~(mounts > 0)
      BY Zenon, <2>2, <3>1, <3>2, <3>4, <3>5, <3>7, <3>8, <3>9, <3>11 DEF GroupInv
    <3> QED
      BY Zenon, <3>10, <3>11
  <2>7. CASE BindDir(p)
    <3>1. mounts' = mounts + 1 /\ group' = (IF mounts = 0 THEN "parent" ELSE group)
          /\ UNCHANGED halfway
      BY Zenon, <2>7 DEF BindDir
    <3>2. OthersKept(p) /\ proc[p].pc = "bind" /\ proc'[p].pc = "private"
      BY Zenon, <2>7, SetupFields
    <3>3. set.flocks => mounts = 0
      BY Zenon, <3>2 DEF LockInv
    <3>4. \A q \in Procs \ {p} : proc'[q].pc = proc[q].pc
      BY Zenon, <3>2 DEF OthersKept, Kept
    <3>5. mounts \in Nat
      BY Zenon DEF LockInv
    <3> QED
      BY Zenon, <2>2, <3>1, <3>2, <3>3, <3>4, <3>5 DEF GroupInv
  <2>8. CASE MakePrivate(p)
    <3>1. UNCHANGED <<mounts, halfway>> /\ group' = "private"
      BY Zenon, <2>8 DEF MakePrivate
    <3>2. OthersKept(p) /\ proc[p].pc = "private" /\ proc'[p].pc = "shared"
      BY Zenon, <2>8, SetupFields
    <3>3. \A q \in Procs \ {p} : proc'[q].pc = proc[q].pc
      BY Zenon, <3>2 DEF OthersKept, Kept
    <3>4. set.flocks => \A q \in Procs \ {p} : proc[q].pc \notin {"bind", "private"}
      BY Zenon, <2>3, <3>2 DEF AtMounts
    <3>5. set.flocks /\ ~halfway =>
            group = "parent" /\ \A q \in Procs : proc[q].pc \notin {"create", "unshare", "mount"}
      BY Zenon, <3>2 DEF GroupInv
    <3>6. set.flocks /\ ~halfway => mounts > 0
      BY Zenon, <3>2 DEF LockInv
    <3>7. mounts \in Nat
      BY Zenon DEF LockInv
    <3> QED
      BY <2>2, <3>1, <3>2, <3>3, <3>4, <3>5, <3>6, <3>7 DEF GroupInv
  <2>9. CASE SetupFails(p)
    <3>1. UNCHANGED <<mounts, group>> /\ halfway' = (halfway \/ proc[p].pc = "private")
      BY Zenon, <2>9 DEF SetupFails
    <3>2. OthersKept(p) /\ proc'[p].pc = "idle"
      BY Zenon, <2>9, SetupFailsFields
    <3> QED
      BY Zenon, <2>2, <3>1, <3>2, GroupStops
  <2>10. CASE CreateFile(p)
    BY SMTT(20), <2>2, <2>10, CreateFileFields, GroupQuiet DEF CreateFile
  <2>11. CASE Unshare(p)
    BY Zenon, <2>2, <2>11, UnshareFields, GroupQuiet DEF Unshare
  <2>12. CASE MountNs(p)
    BY Zenon, <2>2, <2>12, MountNsFields, GroupQuiet DEF MountNs
  <2>13. CASE OutDelete(p)
    BY Zenon, <2>2, <2>13, OutDeleteFields, GroupQuiet DEF OutDelete
  <2>14. CASE Opendir(p)
    BY Zenon, <2>2, <2>14, OpendirFields, GroupQuiet DEF Opendir
  <2>15. CASE Readdir(p)
    BY Zenon, <2>2, <2>15, ReaddirFields, GroupQuiet DEF Readdir
  <2>16. CASE Umount(p)
    BY Zenon, <2>2, <2>16, UmountFields, GroupQuiet DEF Umount
  <2>17. CASE Unlink(p)
    BY Zenon, <2>2, <2>17, UnlinkFields, GroupQuiet DEF Unlink
  <2>18. CASE Kill(p)
    <3>1. UNCHANGED <<mounts, group>> /\ halfway' = (halfway \/ proc[p].pc = "private")
      BY Zenon, <2>18 DEF Kill
    <3>2. OthersKept(p) /\ proc'[p].pc = "dead"
      BY Zenon, <2>18, DiesFields DEF Kill
    <3> QED
      BY Zenon, <2>2, <3>1, <3>2, GroupStops
  <2>19. CASE GiveUp(p)
    <3>1. UNCHANGED <<mounts, group, halfway>> /\ proc[p].pc # "private" /\ Dies(p)
      BY Zenon, <2>19 DEF GiveUp
    <3>2. OthersKept(p) /\ proc'[p].pc = "dead"
      BY Zenon, <3>1, DiesFields
    <3> QED
      BY Zenon, <2>2, <3>1, <3>2, GroupQuiet
  <2> QED
    BY Zenon, <2>1, <2>4, <2>5, <2>6, <2>7, <2>8, <2>9, <2>10, <2>11, <2>12, <2>13, <2>14, <2>15,
       <2>16, <2>17, <2>18, <2>19, Zenon DEF Step
<1> QED
  BY Zenon, <1>1, <1>2

\* MountedOnce for every number of processes, names, commands and kills.
THEOREM MountsAreMadeOnce == NetnsSpec => []MountedOnce
<1>1. NetnsInit => LockInv /\ GroupInv
  <2>1. Idle.pc = "idle"
    BY Zenon DEF Idle
  <2>2. NetnsInit => \A p \in Procs : proc[p].pc = "idle"
    BY Zenon, <2>1 DEF NetnsInit
  <2>3. NetnsInit => LockInv
    BY <2>2 DEF NetnsInit, LockInv, AtMounts
  <2>4. NetnsInit => GroupInv
    <3> SUFFICES ASSUME NetnsInit  PROVE GroupInv
      BY Zenon
    <3>1. ~(mounts > 0)
      BY DEF NetnsInit
    <3>2. halfway = FALSE /\ group = "parent"
      BY Zenon DEF NetnsInit
    <3> QED
      BY Zenon, <2>2, <3>1, <3>2 DEF GroupInv
  <2> QED
    BY Zenon, <2>3, <2>4
<1>2. LockInv /\ GroupInv => MountedOnce
  BY Zenon DEF LockInv, GroupInv, MountedOnce
<1> QED
  BY <1>1, <1>2, NetnsTypes, LockStep, GroupStep, PTL DEF NetnsSpec

----------------------------------------------------------------------------
(* The names.                                                              *)

\* p has made the file of n and its add has not ended; p has unmounted n and is about to
\* unlink it.
Making(p, n) ==
  /\ proc[p].op \in {"add", "attach"} /\ proc[p].name = n
  /\ proc[p].pc \in AtFile
Deleting(p, n) ==
  proc[p].op \notin {"add", "attach"} /\ proc[p].name = n /\ proc[p].pc = "unlink"

\* A name stands for nothing, or for the one namespace it was reported to stand for.
Slot(n) ==
  \/ bound[n] = <<>> /\ claim[n] = {}
  \/ \E ns : bound[n] = <<ns>> /\ claim[n] = {ns} /\ n \in file

\* What is true of a name that no delete has removed in the middle of its add: O_EXCL gives
\* it to one process, and until that has mounted its namespace nothing is mounted there.
NameOK(n) ==
  /\ Slot(n)
  /\ \A p \in Procs : Making(p, n) => n \in file /\ bound[n] = <<>>
  /\ \A p, q \in Procs : Making(p, n) /\ Making(q, n) => p = q
  /\ n \notin abandoned /\ n \in file /\ bound[n] = <<>> =>
       \E p \in Procs : Making(p, n) \/ Deleting(p, n)

NameInv ==
  /\ bound = [n \in NsNames |-> bound[n]] /\ claim = [n \in NsNames |-> claim[n]]
  /\ \A n \in NsNames \ raced : NameOK(n)

\* A step that changes nothing of n and of the processes that work on it.
LEMMA NameQuiet ==
  ASSUME NEW n, NameOK(n), NEW p \in Procs, OthersKept(p), abandoned' = abandoned,
         bound'[n] = bound[n], claim'[n] = claim[n], n \in file' <=> n \in file,
         Making(p, n)' <=> Making(p, n), Deleting(p, n)' <=> Deleting(p, n)
  PROVE  NameOK(n)'
<1>1. \A q \in Procs : (Making(q, n)' <=> Making(q, n)) /\ (Deleting(q, n)' <=> Deleting(q, n))
  BY Zenon DEF OthersKept, Kept, Making, Deleting
<1>2. Slot(n)'
  BY Zenon DEF NameOK, Slot
<1> HIDE DEF Making, Deleting
<1> QED
  BY <1>1, <1>2, Zenon DEF NameOK

\* A step of a process that was not at work on a name and is not afterwards, or that goes on
\* with its add.
LEMMA NamesQuiet ==
  ASSUME NameInv, NEW p \in Procs, OthersKept(p), UNCHANGED <<file, bound, claim, raced, abandoned>>,
         \/ /\ proc[p].pc \notin AtFile
            /\ proc'[p].pc \notin {"unshare", "mount", "unlink"}
            /\ proc'[p].pc = "umount" => proc'[p].op \notin {"add", "attach"}
         \/ /\ proc[p].pc \in AtFile /\ proc'[p].pc \in AtFile
            /\ proc[p].op \in {"add", "attach"}
            /\ proc'[p].op = proc[p].op /\ proc'[p].name = proc[p].name
  PROVE  NameInv'
<1>1. \A n : (Making(p, n)' <=> Making(p, n)) /\ (Deleting(p, n)' <=> Deleting(p, n))
  BY Zenon DEF Making, Deleting, AtFile
<1>2. \A n \in NsNames \ raced' : NameOK(n)'
  BY <1>1, NameQuiet, Zenon DEF NameInv
<1>3. /\ bound' = [n \in NsNames |-> bound'[n]] /\ claim' = [n \in NsNames |-> claim'[n]]
  BY Zenon DEF NameInv
<1> QED
  BY <1>2, <1>3, Zenon DEF NameInv

\* A process stops working on its name, which is abandoned.
LEMMA NamesAbandoned ==
  ASSUME NameInv, NEW p \in Procs, OthersKept(p), UNCHANGED <<file, bound, claim, raced>>,
         abandoned \subseteq abandoned', proc[p].pc \in AtFile => proc[p].name \in abandoned',
         proc'[p].pc \in {"dead", "opendir"}
  PROVE  NameInv'
<1>1. \A n : \A q \in Procs :
        /\ Making(q, n)' => Making(q, n)
        /\ q # p /\ Making(q, n) => Making(q, n)'
        /\ q # p /\ Deleting(q, n) => Deleting(q, n)'
  BY Zenon DEF Making, Deleting, OthersKept, Kept, AtFile
<1>2. \A n : Making(p, n) \/ Deleting(p, n) => n \in abandoned'
  BY Zenon DEF Making, Deleting, AtFile
<1>3. ASSUME NEW n \in NsNames \ raced  PROVE NameOK(n)'
  <2>1. NameOK(n)
    BY Zenon DEF NameInv
  <2>2. Slot(n)'
    BY <2>1, Zenon DEF NameOK, Slot
  <2>3. ASSUME n \notin abandoned', n \in file', bound'[n] = <<>>
        PROVE  \E q \in Procs : Making(q, n)' \/ Deleting(q, n)'
    <3>1. PICK q \in Procs : Making(q, n) \/ Deleting(q, n)
      BY <2>1, <2>3, Zenon DEF NameOK
    <3> QED
      BY <1>1, <1>2, <2>3, <3>1, Zenon
  <2> QED
    BY <1>1, <2>1, <2>2, <2>3, Zenon DEF NameOK
<1>4. bound' = [n \in NsNames |-> bound'[n]] /\ claim' = [n \in NsNames |-> claim'[n]]
  BY Zenon DEF NameInv
<1> QED
  BY <1>3, <1>4, Zenon DEF NameInv

\* open(O_CREAT|O_EXCL).
LEMMA NamesCreate ==
  ASSUME TypeInv, OpInv, NameInv, NEW p \in Procs, CreateFile(p)
  PROVE  NameInv'
<1>1. UNCHANGED <<bound, claim, raced, abandoned>>
  BY Zenon DEF CreateFile
<1>2. OthersKept(p) /\ proc[p].pc = "create" /\ proc[p].op \in {"add", "attach"}
  BY Zenon, CreateFileFields DEF OpInv
<1>3. CASE proc'[p].pc = "idle" /\ proc'[p].op = "none" /\ file' = file
  BY Zenon, <1>1, <1>2, <1>3, NamesQuiet DEF AtFile
<1>4. CASE /\ proc[p].name \notin file /\ file' = file \cup {proc[p].name}
           /\ proc'[p].op = proc[p].op /\ proc'[p].name = proc[p].name
           /\ proc'[p].pc = IF proc[p].op = "add" THEN "unshare" ELSE "mount"
  <2>1. proc'[p].pc \in {"unshare", "mount"}
    BY Zenon, <1>4
  <2>2. \A n : ~Making(p, n) /\ ~Deleting(p, n)
    BY Zenon, <1>2 DEF Making, Deleting, AtFile
  <2>3. Making(p, proc[p].name)' /\ \A n : n # proc[p].name => ~Making(p, n)' /\ ~Deleting(p, n)'
    BY Zenon, <1>2, <1>4, <2>1 DEF Making, Deleting, AtFile
  <2>4. ASSUME NEW n \in NsNames \ raced
        PROVE  NameOK(n)'
    <3>1. NameOK(n)
      BY Zenon DEF NameInv
    <3>2. CASE n # proc[p].name
      <4>1. n \in file' <=> n \in file
        BY Zenon, <1>4, <3>2
      <4> QED
        BY <1>1, <1>2, <2>2, <2>3, <3>1, <3>2, <4>1, NameQuiet, Zenon
    <3>3. CASE n = proc[p].name
      <4>1. n \notin file /\ n \in file' /\ Making(p, n)'
        BY Zenon, <1>4, <2>3, <3>3
      <4>2. bound[n] = <<>> /\ claim[n] = {}
        BY <3>1, <4>1, Zenon DEF NameOK, Slot
      <4>3. \A q \in Procs \ {p} : ~Making(q, n)'
        <5>1. \A q \in Procs : ~Making(q, n)
          BY <3>1, <4>1, Zenon DEF NameOK
        <5> QED
          BY <1>2, <5>1, Zenon DEF OthersKept, Kept, Making
      <4>4. Slot(n)'
        BY <1>1, <4>2, Zenon DEF Slot
      <4>5. bound'[n] = <<>>
        BY Zenon, <1>1, <4>2
      <4> QED
        BY <4>1, <4>3, <4>4, <4>5, Zenon DEF NameOK
    <3> QED
      BY Zenon, <3>2, <3>3
  <2> QED
    BY <1>1, <2>4, Zenon DEF NameInv
<1> QED
  BY <1>3, <1>4, CreateFileFields, Zenon

\* The namespace is mounted on the file, and the name is reported made.
LEMMA NamesMount ==
  ASSUME TypeInv, OpInv, NameInv, NEW p \in Procs, MountNs(p)
  PROVE  NameInv'
<1> DEFINE m == proc[p].name
           ns == IF proc[p].op = "add" THEN proc[p].ns ELSE Target
<1>1. /\ UNCHANGED <<file, raced, abandoned>>
      /\ m \in file
      /\ bound' = [bound EXCEPT ![m] = <<ns>> \o @]
      /\ claim' = [claim EXCEPT ![m] = @ \cup {ns}]
  BY Zenon DEF MountNs
<1>2. OthersKept(p) /\ proc[p].pc = "mount" /\ proc'[p].pc \in {"idle", "dead"}
  BY Zenon, MountNsFields
<1>3. proc[p].op \in {"add", "attach"} /\ m \in NsNames
  BY Zenon, <1>2 DEF OpInv, TypeInv, AtName
<1>4. Making(p, m)
  BY Zenon, <1>2, <1>3 DEF Making, AtFile
<1>5. \A n : ~Making(p, n)' /\ ~Deleting(p, n)'
  BY Zenon, <1>2 DEF Making, Deleting, AtFile
<1> HIDE DEF m, ns
<1>6. /\ bound' = [n \in NsNames |-> bound'[n]] /\ claim' = [n \in NsNames |-> claim'[n]]
      /\ bound'[m] = <<ns>> \o bound[m] /\ claim'[m] = claim[m] \cup {ns}
      /\ \A n \in NsNames : n # m => bound'[n] = bound[n] /\ claim'[n] = claim[n]
  <2>1. bound = [n \in NsNames |-> bound[n]] /\ claim = [n \in NsNames |-> claim[n]]
    BY Zenon DEF NameInv
  <2> QED
    BY Zenon, <1>1, <1>3, <2>1
<1>7. ASSUME NEW n \in NsNames \ raced
      PROVE  NameOK(n)'
  <2>1. NameOK(n)
    BY Zenon DEF NameInv
  <2>2. CASE n # m
    <3>1. ~Making(p, n) /\ ~Deleting(p, n)
      BY Zenon, <1>2, <2>2 DEF Making, Deleting, AtFile, m
    <3> QED
      BY <1>1, <1>2, <1>5, <1>6, <2>1, <2>2, <3>1, NameQuiet, Zenon
  <2>3. CASE n = m
    <3>1. bound[n] = <<>> /\ claim[n] = {}
      BY <1>4, <2>1, <2>3 DEF NameOK, Slot
    <3>2. bound'[n] = <<ns>> /\ claim'[n] = {ns}
      BY <1>6, <2>3, <3>1
    <3>3. n \in file'
      BY Zenon, <1>1, <2>3
    <3>4. \A q \in Procs : ~Making(q, n)'
      <4>1. \A q \in Procs \ {p} : ~Making(q, n)
        BY <1>4, <2>1, <2>3, Zenon DEF NameOK
      <4> QED
        BY <1>2, <1>5, <4>1, Zenon DEF OthersKept, Kept, Making
    <3>5. Slot(n)'
      BY <3>2, <3>3, Zenon DEF Slot
    <3>6. bound'[n] # <<>>
      BY <3>2
    <3> QED
      BY <3>4, <3>5, <3>6, Zenon DEF NameOK
  <2> QED
    BY Zenon, <2>2, <2>3
<1>8. raced' = raced
  BY Zenon, <1>1
<1> QED
  BY <1>6, <1>7, <1>8, Zenon DEF NameInv

\* umount2: of a delete it takes the namespace off the name; of the cleanup of an add it
\* finds nothing there.
LEMMA NamesUmount ==
  ASSUME TypeInv, NameInv, NEW p \in Procs, Umount(p)
  PROVE  NameInv'
<1> DEFINE m == proc[p].name
           deletes == proc[p].op \notin {"add", "attach"}
<1>1. /\ OthersKept(p) /\ proc[p].pc = "umount" /\ proc'[p].pc = "unlink"
      /\ proc'[p].op = proc[p].op /\ proc'[p].name = m
  BY Zenon, UmountFields
<1>2. m \in NsNames
  BY Zenon, <1>1 DEF TypeInv, AtName
<1>3. Restored(proc[p]).op = proc[p].op /\ Restored(proc[p]).name = m
  BY Zenon, RestoredFields DEF TypeInv
<1>4. /\ UNCHANGED <<file, abandoned>>
      /\ bound' = [bound EXCEPT ![m] = IF @ = <<>> THEN @ ELSE Tail(@)]
      /\ claim' = IF deletes THEN [claim EXCEPT ![m] = {}] ELSE claim
      /\ raced' = IF deletes /\ AddInProgress(p, m) THEN raced \cup {m} ELSE raced
  BY <1>3, Zenon DEF Umount
<1>5. /\ deletes => Deleting(p, m)' /\ \A n : ~Making(p, n) /\ ~Making(p, n)'
      /\ ~deletes => Making(p, m) /\ Making(p, m)'
      /\ \A n : ~Deleting(p, n)
      /\ \A n : n # m => ~Making(p, n) /\ ~Making(p, n)' /\ ~Deleting(p, n)'
  BY Zenon, <1>1 DEF Making, Deleting, AtFile
<1> HIDE DEF m, deletes
<1>6. /\ bound' = [n \in NsNames |-> bound'[n]] /\ claim' = [n \in NsNames |-> claim'[n]]
      /\ bound'[m] = (IF bound[m] = <<>> THEN <<>> ELSE Tail(bound[m]))
      /\ claim'[m] = (IF deletes THEN {} ELSE claim[m])
      /\ \A n \in NsNames : n # m => bound'[n] = bound[n] /\ claim'[n] = claim[n]
  <2>1. bound = [n \in NsNames |-> bound[n]] /\ claim = [n \in NsNames |-> claim[n]]
    BY Zenon DEF NameInv
  <2> QED
    BY Zenon, <1>2, <1>4, <2>1
<1>7. ASSUME NEW n \in NsNames \ raced'
      PROVE  NameOK(n)'
  <2>1. n \in NsNames \ raced
    BY Zenon, <1>4
  <2>2. NameOK(n)
    BY Zenon, <2>1 DEF NameInv
  <2>3. CASE n # m
    BY <1>1, <1>4, <1>5, <1>6, <2>2, <2>3, NameQuiet, Zenon
  <2>4. CASE n = m /\ deletes
    <3>1. ~AddInProgress(p, m)
      BY Zenon, <1>4, <2>4
    <3>2. \A q \in Procs \ {p} : ~Making(q, n)
      BY <2>4, <3>1, Zenon DEF AddInProgress, Making
    <3>3. \A q \in Procs : ~Making(q, n)'
      BY <1>1, <1>5, <2>4, <3>2, Zenon DEF OthersKept, Kept, Making
    <3>4. bound'[n] = <<>>
      <4>1. CASE bound[n] = <<>>
        BY Zenon, <1>6, <2>4, <4>1
      <4>2. CASE \E ns : bound[n] = <<ns>>
        BY <1>6, <2>4, <4>2
      <4> QED
        BY <2>2, <4>1, <4>2, Zenon DEF NameOK, Slot
    <3>5. Slot(n)'
      BY <1>6, <2>4, <3>4, Zenon DEF Slot
    <3> QED
      BY <1>5, <2>4, <3>3, <3>5, Zenon DEF NameOK
  <2>5. CASE n = m /\ ~deletes
    <3>1. bound[n] = <<>>
      BY <1>5, <2>2, <2>5, Zenon DEF NameOK
    <3>2. bound'[n] = bound[n] /\ claim'[n] = claim[n]
      BY Zenon, <1>6, <2>5, <3>1
    <3>3. ~Deleting(p, n)'
      BY Zenon, <1>1, <2>5 DEF Deleting, deletes
    <3> QED
      BY <1>1, <1>4, <1>5, <2>2, <2>5, <3>2, <3>3, NameQuiet, Zenon
  <2> QED
    BY <2>3, <2>4, <2>5, Zenon
<1> QED
  BY <1>6, <1>7, Zenon DEF NameInv

\* unlink: a file on which nothing is mounted goes.
LEMMA NamesUnlink ==
  ASSUME TypeInv, NameInv, NEW p \in Procs, Unlink(p)
  PROVE  NameInv'
<1> DEFINE m == proc[p].name
           deletes == proc[p].op \notin {"add", "attach"}
           removes == m \in file /\ bound[m] = <<>>
<1>1. /\ OthersKept(p) /\ proc[p].pc = "unlink" /\ proc'[p].pc \in {"readdir", "idle"}
  BY Zenon, UnlinkFields
<1>2. Restored(proc[p]).op = proc[p].op /\ Restored(proc[p]).name = m
  BY Zenon, RestoredFields DEF TypeInv
<1>3. /\ UNCHANGED <<bound, claim, abandoned>>
      /\ file' = IF removes THEN file \ {m} ELSE file
      /\ raced' = IF deletes /\ AddInProgress(p, m) THEN raced \cup {m} ELSE raced
  BY <1>2, Zenon DEF Unlink
<1>4. /\ ~deletes => Making(p, m)
      /\ \A n : ~Making(p, n)' /\ ~Deleting(p, n)'
      /\ \A n : n # m => ~Making(p, n) /\ ~Deleting(p, n)
  BY Zenon, <1>1 DEF Making, Deleting, AtFile
<1> HIDE DEF m, deletes
<1>5. ASSUME NEW n \in NsNames \ raced'
      PROVE  NameOK(n)'
  <2>1. n \in NsNames \ raced
    BY Zenon, <1>3
  <2>2. NameOK(n)
    BY Zenon, <2>1 DEF NameInv
  <2>3. CASE n # m
    <3>1. n \in file' <=> n \in file
      BY Zenon, <1>3, <2>3
    <3> QED
      BY <1>1, <1>3, <1>4, <2>2, <2>3, <3>1, NameQuiet, Zenon
  <2>4. CASE n = m
    <3>1. \A q \in Procs \ {p} : ~Making(q, n)
      <4>1. CASE deletes
        <5>1. ~AddInProgress(p, m)
          BY Zenon, <1>3, <2>4, <4>1
        <5> QED
          BY <2>4, <5>1, Zenon DEF AddInProgress, Making
      <4>2. CASE ~deletes
        BY <1>4, <2>2, <2>4, <4>2, Zenon DEF NameOK
      <4> QED
        BY Zenon, <4>1, <4>2
    <3>2. \A q \in Procs : ~Making(q, n)'
      BY <1>1, <1>4, <3>1, Zenon DEF OthersKept, Kept, Making
    <3>3. n \in file' => n \in file /\ bound[n] # <<>>
      BY Zenon, <1>3, <2>4
    <3>4. bound[n] # <<>> => (n \in file' <=> n \in file)
      BY Zenon, <1>3, <2>4
    <3>5. Slot(n)'
      <4>1. CASE bound[n] = <<>> /\ claim[n] = {}
        BY <1>3, <4>1, Zenon DEF Slot
      <4>2. CASE \E ns : bound[n] = <<ns>> /\ claim[n] = {ns} /\ n \in file
        <5>1. PICK ns : bound[n] = <<ns>> /\ claim[n] = {ns} /\ n \in file
          BY Zenon, <4>2
        <5>2. bound[n] # <<>>
          BY <5>1
        <5> QED
          BY <1>3, <3>4, <5>1, <5>2, Zenon DEF Slot
      <4> QED
        BY <2>2, <4>1, <4>2, Zenon DEF NameOK, Slot
    <3>6. n \in file' => bound'[n] # <<>>
      BY Zenon, <1>3, <3>3
    <3> QED
      BY <3>2, <3>5, <3>6, Zenon DEF NameOK
  <2> QED
    BY Zenon, <2>3, <2>4
<1>6. /\ bound' = [n \in NsNames |-> bound'[n]] /\ claim' = [n \in NsNames |-> claim'[n]]
  BY Zenon, <1>3 DEF NameInv
<1> QED
  BY <1>5, <1>6, Zenon DEF NameInv

\* A process is killed or exits: what it was making stays half made.
LEMMA NamesKill ==
  ASSUME TypeInv, NameInv, NEW p \in Procs, Kill(p) \/ GiveUp(p)
  PROVE  NameInv'
<1>1. Dies(p) /\ Abandons(p) /\ UNCHANGED <<file, bound, claim, raced>>
  BY Zenon DEF Kill, GiveUp
<1>2. OthersKept(p) /\ proc'[p].pc = "dead"
  BY Zenon, <1>1, DiesFields
<1>3. abandoned \subseteq abandoned' /\ (proc[p].pc \in AtFile => proc[p].name \in abandoned')
  BY Zenon, <1>1 DEF Abandons
<1> QED
  BY Zenon, <1>1, <1>2, <1>3, NamesAbandoned

\* The cleanup of a failed add begins.
LEMMA NamesOut ==
  ASSUME TypeInv, OpInv, NameInv, NEW p \in Procs, Unshare(p) \/ OutDelete(p)
  PROVE  NameInv'
<1>1. /\ UNCHANGED <<file, bound, claim, raced>>
      /\ OthersKept(p) /\ proc[p].pc \in {"unshare", "mount"}
      /\ proc'[p].name = proc[p].name
      /\ \/ /\ proc'[p].pc \in {"mount", "umount", "unlink"} /\ proc'[p].op = proc[p].op
            /\ abandoned' = abandoned
         \/ proc'[p].pc = "opendir" /\ abandoned' = abandoned \cup {proc[p].name}
  <2>1. CASE Unshare(p)
    BY Zenon, <2>1, UnshareFields DEF Unshare
  <2>2. CASE OutDelete(p)
    BY Zenon, <2>2, OutDeleteFields DEF OutDelete
  <2> QED
    BY Zenon, <2>1, <2>2
<1>2. proc[p].op \in {"add", "attach"} /\ proc[p].pc \in AtFile
  BY Zenon, <1>1 DEF OpInv, AtFile
<1>3. CASE /\ proc'[p].pc \in {"mount", "umount", "unlink"} /\ proc'[p].op = proc[p].op
           /\ abandoned' = abandoned
  <2>1. proc'[p].pc \in AtFile
    BY Zenon, <1>3 DEF AtFile
  <2> QED
    BY Zenon, <1>1, <1>2, <1>3, <2>1, NamesQuiet
<1>4. CASE proc'[p].pc = "opendir" /\ abandoned' = abandoned \cup {proc[p].name}
  BY Zenon, <1>1, <1>4, NamesAbandoned
<1> QED
  BY Zenon, <1>1, <1>3, <1>4

\* NameInv is inductive.
LEMMA NameStep == TypeInv /\ OpInv /\ NameInv /\ [NetnsNext]_netnsVars => NameInv'
<1> SUFFICES ASSUME TypeInv, OpInv, NameInv, [NetnsNext]_netnsVars
             PROVE  NameInv'
  BY Zenon
<1>1. CASE UNCHANGED netnsVars
  <2>1. UNCHANGED <<file, bound, claim, raced, abandoned, proc>>
    BY Zenon, <1>1 DEF netnsVars
  <2>2. \A n : NameOK(n)' <=> NameOK(n)
    BY <2>1 DEF NameOK, Slot, Making, Deleting
  <2> QED
    BY <2>1, <2>2, Zenon DEF NameInv
<1>2. CASE NetnsNext
  <2>1. PICK p \in Procs : Start(p) \/ Step(p) \/ Kill(p)
    BY Zenon, <1>2 DEF NetnsNext
  <2>2. CASE Start(p)
    BY Zenon, <2>2, StartFields, NamesQuiet DEF Start, AtFile
  <2>3. CASE Flock(p) \/ MakeShared(p) \/ BindDir(p) \/ MakePrivate(p)
    <3>1. UNCHANGED <<file, bound, claim, raced, abandoned>>
      BY Zenon, <2>3 DEF Flock, MakeShared, BindDir, MakePrivate
    <3> QED
      BY Zenon, <2>3, <3>1, SetupFields, NamesQuiet DEF AtFile
  <2>4. CASE SetupFails(p)
    BY Zenon, <2>4, SetupFailsFields, NamesQuiet DEF SetupFails, AtFile
  <2>5. CASE CreateFile(p)
    BY SMTT(20), <2>5, NamesCreate
  <2>6. CASE Unshare(p) \/ OutDelete(p)
    BY Zenon, <2>6, NamesOut
  <2>7. CASE MountNs(p)
    BY Zenon, <2>7, NamesMount
  <2>9. CASE Opendir(p)
    BY Zenon, <2>9, OpendirFields, NamesQuiet DEF Opendir, AtFile
  <2>10. CASE Readdir(p)
    <3>1. proc[p].op \in {"delete all", "cleanup"}
      BY Zenon, <2>10, ReaddirFields DEF OpInv
    <3>2. UNCHANGED <<file, bound, claim, raced, abandoned>>
      BY Zenon, <2>10 DEF Readdir
    <3> QED
      BY Zenon, <2>10, <3>1, <3>2, ReaddirFields, NamesQuiet DEF AtFile
  <2>11. CASE Umount(p)
    BY Zenon, <2>11, NamesUmount
  <2>12. CASE Unlink(p)
    BY Zenon, <2>12, NamesUnlink
  <2>13. CASE Kill(p) \/ GiveUp(p)
    BY Zenon, <2>13, NamesKill
  <2> QED
    BY <2>1, <2>2, <2>3, <2>4, <2>5, <2>6, <2>7, <2>9, <2>10, <2>11, <2>12, <2>13, Zenon
       DEF Step
<1> QED
  BY Zenon, <1>1, <1>2

\* NameInv in every reachable state.
LEMMA NetnsNameInv == NetnsSpec => [](OpInv /\ NameInv)
<1>1. NetnsInit => OpInv /\ NameInv
  <2> SUFFICES ASSUME NetnsInit  PROVE OpInv /\ NameInv
    BY Zenon
  <2>1. Idle.pc = "idle"
    BY Zenon DEF Idle
  <2>2. \A p \in Procs : proc[p].pc = "idle"
    BY Zenon, <2>1 DEF NetnsInit
  <2>3. OpInv
    BY Zenon, <2>2 DEF OpInv
  <2>4. file = {}
    BY Zenon DEF NetnsInit
  <2>5. /\ bound = [n \in NsNames |-> bound[n]] /\ claim = [n \in NsNames |-> claim[n]]
        /\ \A n \in NsNames : bound[n] = <<>> /\ claim[n] = {}
    BY Zenon DEF NetnsInit
  <2>6. \A p \in Procs : \A n : ~Making(p, n)
    BY Zenon, <2>2 DEF Making, AtFile
  <2>7. \A n \in NsNames : NameOK(n)
    BY Zenon, <2>4, <2>5, <2>6 DEF NameOK, Slot
  <2> QED
    BY <2>3, <2>4, <2>5, <2>7, Zenon DEF NameInv
<1> QED
  BY <1>1, NetnsTypes, OpStep, NameStep, PTL DEF NetnsSpec

\* NamesBound for every number of processes, names, commands and kills: a name that was
\* made stands for that namespace, and no cleanup or failed add changes it.
THEOREM NamesStayBound == NetnsSpec => []NamesBound
<1>1. NameInv => NamesBound
  <2> SUFFICES ASSUME NameInv, NEW n \in NsNames \ raced, claim[n] # {}
               PROVE  n \in file /\ Len(bound[n]) = 1 /\ claim[n] = {bound[n][1]}
    BY Zenon DEF NamesBound
  <2>1. PICK ns : bound[n] = <<ns>> /\ claim[n] = {ns} /\ n \in file
    BY Zenon DEF NameInv, NameOK, Slot
  <2> QED
    BY <2>1
<1> QED
  BY <1>1, NetnsNameInv, PTL

\* NothingHalfMade for every number of processes, names, commands and kills and whatever fails:
\* a file without a namespace has a process that is about to mount one or to remove the file,
\* or had one that was killed, exited or went over to deleting every name.
THEOREM NothingIsHalfMade == NetnsSpec => []NothingHalfMade
<1>1. NameInv => NothingHalfMade
  <2> SUFFICES ASSUME NameInv, \A p \in Procs : ~Active(p),
                      NEW n \in NsNames \ (raced \cup abandoned)
               PROVE  n \in file <=> bound[n] # <<>>
    BY Zenon DEF NothingHalfMade
  <2>1. NameOK(n)
    BY Zenon DEF NameInv
  <2>2. \A p \in Procs : ~Making(p, n) /\ ~Deleting(p, n)
    BY Zenon DEF Active, Making, Deleting, AtFile
  <2>3. n \in file => bound[n] # <<>>
    BY <2>1, <2>2, Zenon DEF NameOK
  <2>4. bound[n] # <<>> => n \in file
    BY <2>1, Zenon DEF NameOK, Slot
  <2> QED
    BY Zenon, <2>3, <2>4
<1> QED
  BY <1>1, NetnsNameInv, PTL

----------------------------------------------------------------------------
(* A delete that runs alone.                                               *)

\* What a process finds that nobody else runs beside: its list of names is the directory as it
\* is, and the name it has unmounted has nothing mounted on it any more.
LoneOK(p) ==
  /\ \A q \in Procs \ {p} : ~Active(q)
  /\ proc[p].pc = "readdir" => proc[p].todo = file /\ proc[p].late \cap file = {}
  /\ proc[p].pc \in {"umount", "unlink"} /\ proc[p].op \in {"delete all", "cleanup"} =>
       /\ file = proc[p].todo \cup {proc[p].name} /\ proc[p].name \notin proc[p].todo
       /\ proc[p].late \cap file = {}
  /\ proc[p].pc = "unlink" /\ proc[p].op \notin {"add", "attach"} =>
       bound[proc[p].name] = <<>> \/ proc[p].name \in raced

AloneInv == \A p \in Procs : proc[p].alone => LoneOK(p)

\* netns_restore changes nothing of the lists of a process.
LEMMA RestoredLists ==
  ASSUME NEW r \in ProcRec
  PROVE  /\ Restored(r).todo = r.todo /\ Restored(r).late = r.late
         /\ Restored(r).alone = r.alone
<1> DEFINE d == [r EXCEPT !.ns = r.saved, !.saved = None]
<1>1. d.todo = r.todo /\ d.late = r.late /\ d.alone = r.alone
  BY Zenon DEF ProcRec
<1>2. Restored(r) \in {r, d}
  BY Zenon DEF Restored
<1> HIDE DEF d
<1> QED
  BY Zenon, <1>1, <1>2

\* A process between two places of its code keeps its lists.
LEMMA GotoLists ==
  ASSUME TypeInv, NEW p \in Procs, NEW c, Goto(p, c)
  PROVE  /\ Untouched(p)
         /\ proc'[p].alone = proc[p].alone
         /\ proc'[p].todo = proc[p].todo /\ proc'[p].late = proc[p].late
<1>1. proc' = [proc EXCEPT ![p] = [proc[p] EXCEPT !.pc = c]]
  BY Zenon DEF Goto
<1> QED
  BY Zenon, <1>1 DEF TypeInv, ProcRec, Untouched

\* umount2 keeps them too.
LEMMA UmountLists ==
  ASSUME TypeInv, NEW p \in Procs, Umount(p)
  PROVE  /\ Untouched(p)
         /\ proc'[p].alone = proc[p].alone
         /\ proc'[p].todo = proc[p].todo /\ proc'[p].late = proc[p].late
<1>1. proc[p] \in ProcRec
  BY Zenon DEF TypeInv
<1> DEFINE r == Restored(proc[p])
<1>2. /\ r \in ProcRec /\ r.alone = proc[p].alone
      /\ r.todo = proc[p].todo /\ r.late = proc[p].late
  BY Zenon, <1>1, RestoredFields, RestoredLists
<1>3. proc' = [proc EXCEPT ![p] = [r EXCEPT !.pc = "unlink"]]
  BY Zenon DEF Umount
<1> HIDE DEF r
<1> QED
  BY Zenon, <1>2, <1>3 DEF TypeInv, ProcRec, Untouched

\* Nobody is alone who was not when the command began, and a process leaves the records of the
\* others as they are.
LEMMA StepAlone ==
  ASSUME TypeInv, NEW p \in Procs, Step(p) \/ Kill(p)
  PROVE  Untouched(p) /\ (proc'[p].alone => proc[p].alone)
<1>1. proc \in [Procs -> ProcRec] /\ proc[p] \in ProcRec /\ Restored(proc[p]) \in ProcRec
  BY Zenon, RestoredFields DEF TypeInv
<1>2. CASE \E c : Goto(p, c)
  BY <1>2, GotoLists, Zenon
<1>3. CASE \E r \in ProcRec : \E c : CommandReturn(p, r, c)
  BY <1>1, <1>3, ReturnFields, Zenon
<1>4. CASE Flock(p) \/ MakeShared(p) \/ BindDir(p) \/ MakePrivate(p)
  BY <1>2, <1>4, Zenon DEF Flock, MakeShared, BindDir, MakePrivate
<1>5. CASE SetupFails(p) \/ CreateFile(p)
  BY <1>1, <1>2, <1>3, <1>5, Zenon DEF SetupFails, CreateFile
<1>6. CASE Unshare(p) \/ MountNs(p) \/ OutDelete(p)
  BY Zenon, <1>6, UnshareFields, MountNsFields, OutDeleteFields
<1>7. CASE Opendir(p)
  BY Zenon, <1>7, OpendirFields
<1>8. CASE Readdir(p)
  BY <1>1, <1>8, ReaddirFields, ReturnFields, Zenon
<1>9. CASE Umount(p)
  BY Zenon, <1>9, UmountLists
<1>10. CASE Unlink(p)
  BY <1>1, <1>2, <1>3, <1>10, Zenon DEF Unlink, Goto
<1>11. CASE Kill(p) \/ GiveUp(p)
  BY Zenon, <1>11, DiesFields DEF Kill, GiveUp
<1> QED
  BY <1>4, <1>5, <1>6, <1>7, <1>8, <1>9, <1>10, <1>11, Zenon DEF Step

\* Whoever starts a command is alone if nobody else is in one, and nobody else is any longer.
LEMMA StartAlone ==
  ASSUME TypeInv, NEW p \in Procs, Start(p), NEW q \in Procs, proc'[q].alone
  PROVE  q = p /\ \A r \in Procs \ {p} : ~Active(r)
<1> DEFINE one == \A r \in Procs \ {p} : ~Active(r)
<1>1. PICK op \in set.ops, n \in NsNames :
       proc' = [r \in Procs |->
                  IF r # p THEN [proc[r] EXCEPT !.alone = FALSE]
                  ELSE [proc[p] EXCEPT !.op = op, !.name = IF op = "delete all" THEN "" ELSE n,
                          !.pc = First(op), !.k = @ + 1, !.alone = one]]
  BY Zenon DEF Start
<1>2. CASE q # p
  BY Zenon, <1>1, <1>2 DEF TypeInv, ProcRec
<1>3. CASE q = p
  <2> HIDE DEF one
  <2> DEFINE d == [proc[p] EXCEPT !.op = op, !.name = IF op = "delete all" THEN "" ELSE n,
                          !.pc = First(op), !.k = @ + 1]
  <2>1. "alone" \in DOMAIN d
    BY Zenon DEF TypeInv, ProcRec
  <2>2. proc'[p] = [d EXCEPT !.alone = one]
    BY <1>1, Zenon
  <2> HIDE DEF d
  <2>3. proc'[p].alone = one
    BY Zenon, <2>1, <2>2
  <2> QED
    BY Zenon, <1>3, <2>3 DEF one
<1> QED
  BY Zenon, <1>2, <1>3

\* What a process finds that runs alone, after each of its steps.
LEMMA AloneOwn ==
  ASSUME TypeInv, OpInv, NameInv, NEW p \in Procs, proc[p].alone, LoneOK(p), Step(p) \/ Kill(p),
         proc'[p].alone
  PROVE  LoneOK(p)'
<1>1. \A q \in Procs \ {p} : ~Active(q)'
  BY Zenon, StepAlone DEF LoneOK, Active, Untouched
<1>2. ASSUME proc'[p].pc \notin {"readdir", "umount", "unlink"} PROVE LoneOK(p)'
  BY Zenon, <1>1, <1>2 DEF LoneOK
<1>3. ASSUME proc'[p].op \in {"add", "attach"}, proc'[p].pc # "readdir" PROVE LoneOK(p)'
  BY Zenon, <1>1, <1>3 DEF LoneOK
<1>4. CASE Flock(p) \/ MakeShared(p) \/ BindDir(p) \/ MakePrivate(p)
  BY Zenon, <1>3, <1>4, SetupFields DEF OpInv
<1>5. CASE SetupFails(p) \/ MountNs(p)
  BY Zenon, <1>2, <1>5, SetupFailsFields, MountNsFields
<1>6. CASE CreateFile(p)
  <2>1. proc'[p].pc \in {"idle", "unshare", "mount"}
    BY <1>6, CreateFileFields, Zenon
  <2> QED
    BY Zenon, <1>2, <2>1
<1>7. CASE Unshare(p) \/ OutDelete(p)
  <2>1. \/ proc'[p].pc = "opendir"
        \/ proc'[p].op \in {"add", "attach"} /\ proc'[p].pc # "readdir"
    BY Zenon, <1>7, UnshareFields, OutDeleteFields DEF OpInv
  <2> QED
    BY Zenon, <1>2, <1>3, <2>1
<1>8. CASE Opendir(p)
  <2>1. file' = file
    BY Zenon, <1>8 DEF Opendir
  <2> QED
    BY Zenon, <1>1, <1>8, <2>1, OpendirFields DEF LoneOK
<1>9. CASE Readdir(p)
  <2>1. file' = file
    BY Zenon, <1>9 DEF Readdir
  <2>2. proc[p].todo = file /\ proc[p].late \cap file = {} /\ proc[p].pc = "readdir"
    BY Zenon, <1>9, ReaddirFields DEF LoneOK
  <2> QED
    <3>1. CASE proc'[p].pc = "idle"
      BY Zenon, <1>2, <3>1
    <3>2. CASE /\ proc'[p].pc = "umount"
               /\ proc'[p].name \in proc[p].todo \cup (proc[p].late \cap file)
               /\ proc'[p].todo = proc[p].todo \ {proc'[p].name}
               /\ proc'[p].late = proc[p].late \ {proc'[p].name}
      BY Zenon, <1>1, <2>1, <2>2, <3>2 DEF LoneOK
    <3>3. CASE /\ proc'[p].pc = "readdir"
               /\ \E n \in proc[p].todo \ file : proc'[p].todo = proc[p].todo \ {n}
      BY Zenon, <2>2, <3>3
    <3> QED
      BY <1>9, <3>1, <3>2, <3>3, ReaddirFields, Zenon
<1>10. CASE Umount(p)
  <2>1. file' = file /\ raced \subseteq raced'
    BY Zenon, <1>10 DEF Umount
  <2>2. /\ proc[p].pc = "umount" /\ proc'[p].pc = "unlink"
        /\ proc'[p].op = proc[p].op /\ proc'[p].name = proc[p].name
        /\ proc'[p].todo = proc[p].todo /\ proc'[p].late = proc[p].late
    BY Zenon, <1>10, UmountFields, UmountLists
  <2>3. bound'[proc[p].name] = <<>> \/ proc[p].name \in raced
    <3> DEFINE n == proc[p].name
    <3>1. n \in NsNames
      BY Zenon, <2>2 DEF TypeInv, AtName
    <3>2. bound' = [bound EXCEPT ![n] = IF @ = <<>> THEN @ ELSE Tail(@)]
      <4>1. Restored(proc[p]).name = n
        BY Zenon, RestoredFields DEF TypeInv
      <4> QED
        BY <1>10, <4>1, Zenon DEF Umount
    <3>3. n \notin raced => bound[n] = <<>> \/ \E ns : bound[n] = <<ns>>
      BY <3>1, Zenon DEF NameInv, NameOK, Slot
    <3>4. bound'[n] = IF bound[n] = <<>> THEN bound[n] ELSE Tail(bound[n])
      BY <3>1, <3>2, Zenon DEF NameInv
    <3>5. \A ns : Tail(<<ns>>) = <<>>
      OBVIOUS
    <3> QED
      BY <3>3, <3>4, <3>5, Zenon
  <2> QED
    BY Zenon, <1>1, <2>1, <2>2, <2>3 DEF LoneOK
<1>11. CASE Unlink(p)
  <2>1. CASE proc'[p].pc = "idle"
    BY Zenon, <1>2, <2>1
  <2>2. CASE /\ Goto(p, "readdir") /\ proc[p].op \in {"delete all", "cleanup"}
             /\ file' = file \ {proc[p].name}
    <3>1. /\ proc'[p].todo = proc[p].todo /\ proc'[p].late = proc[p].late
          /\ proc'[p].pc = "readdir" /\ proc[p].pc = "unlink"
      BY Zenon, <1>11, <2>2, GotoLists, GotoFields, UnlinkFields DEF TypeInv, Pcs
    <3> QED
      BY Zenon, <1>1, <2>2, <3>1 DEF LoneOK
  <2>3. \/ proc'[p].pc = "idle"
        \/ /\ Goto(p, "readdir") /\ proc[p].op \in {"delete all", "cleanup"}
           /\ file' = file \ {proc[p].name}
    <3>1. Restored(proc[p]).op = proc[p].op /\ Restored(proc[p]).name = proc[p].name
          /\ Restored(proc[p]) \in ProcRec
      BY Zenon, RestoredFields DEF TypeInv
    <3>2. \/ /\ proc[p].op \in {"delete all", "cleanup"} /\ file' = file \ {proc[p].name}
             /\ Goto(p, "readdir")
          \/ \E c : CommandReturn(p, Restored(proc[p]), c)
      BY <1>11, <3>1, Zenon DEF Unlink, Goto
    <3> QED
      BY <3>1, <3>2, ReturnFields, Zenon DEF TypeInv
  <2> QED
    BY Zenon, <2>1, <2>2, <2>3
<1>12. CASE Kill(p) \/ GiveUp(p)
  BY Zenon, <1>2, <1>12, DiesFields DEF Kill, GiveUp
<1> QED
  BY <1>4, <1>5, <1>6, <1>7, <1>8, <1>9, <1>10, <1>11, <1>12, Zenon DEF Step

\* Only a process that is in a command takes a step of one.
LEMMA StepActive ==
  ASSUME TypeInv, NEW p \in Procs, Step(p) \/ Kill(p)
  PROVE  Active(p)
<1>1. CASE Flock(p) \/ MakeShared(p) \/ BindDir(p) \/ MakePrivate(p)
  BY Zenon, <1>1, SetupFields DEF Active
<1>2. CASE SetupFails(p) \/ CreateFile(p) \/ MountNs(p)
  BY Zenon, <1>2, SetupFailsFields, CreateFileFields, MountNsFields DEF Active
<1>3. CASE Unshare(p) \/ OutDelete(p)
  BY Zenon, <1>3, UnshareFields, OutDeleteFields DEF Active
<1>4. CASE Opendir(p) \/ Readdir(p) \/ Umount(p) \/ Unlink(p)
  BY Zenon, <1>4, OpendirFields, ReaddirFields, UmountFields, UnlinkFields DEF Active
<1>5. CASE Kill(p) \/ GiveUp(p)
  BY Zenon, <1>5 DEF Kill, GiveUp, Active
<1> QED
  BY <1>1, <1>2, <1>3, <1>4, <1>5, Zenon DEF Step

\* AloneInv is inductive.
LEMMA AloneStep ==
  TypeInv /\ OpInv /\ NameInv /\ AloneInv /\ [NetnsNext]_netnsVars => AloneInv'
<1> SUFFICES ASSUME TypeInv, OpInv, NameInv, AloneInv, [NetnsNext]_netnsVars,
                    NEW q \in Procs, proc'[q].alone
             PROVE  LoneOK(q)'
  BY Zenon DEF AloneInv
<1>1. CASE UNCHANGED netnsVars
  BY Zenon, <1>1 DEF netnsVars, AloneInv, LoneOK, Active
<1>2. CASE NetnsNext
  <2>1. PICK p \in Procs : Start(p) \/ Step(p) \/ Kill(p)
    BY Zenon, <1>2 DEF NetnsNext
  <2>2. CASE Start(p)
    <3>1. /\ proc'[p].pc \in {"flock", "umount", "opendir"}
          /\ proc'[p].pc = "umount" => proc'[p].op = "delete"
          /\ OthersKept(p)
      BY Zenon, <2>2, StartFields
    <3>2. /\ q = p
          /\ \A r \in Procs \ {p} : ~Active(r)
      BY Zenon, <2>2, StartAlone
    <3> QED
      BY Zenon, <3>1, <3>2 DEF LoneOK, OthersKept, Kept, Active
  <2>3. CASE Step(p) \/ Kill(p)
    <3>1. CASE q = p
      BY Zenon, <2>3, <3>1, AloneOwn, StepAlone DEF AloneInv
    <3>2. CASE q # p
      <4>1. proc[q].alone
        BY Zenon, <2>3, <3>2, StepAlone DEF Untouched
      <4>2. Active(p)
        BY Zenon, <2>3, StepActive
      <4> QED
        BY Zenon, <3>2, <4>1, <4>2 DEF AloneInv, LoneOK
    <3> QED
      BY Zenon, <3>1, <3>2
  <2> QED
    BY Zenon, <2>1, <2>2, <2>3
<1> QED
  BY Zenon, <1>1, <1>2

\* What fin says of a command that has returned.
LEMMA ReturnFin ==
  ASSUME NEW p, NEW r, NEW c, CommandReturn(p, r, c)
  PROVE  fin'.op = r.op /\ fin'.name = r.name /\ fin'.alone = r.alone
  BY Zenon DEF CommandReturn

\* A command that returns has repaired what it was to repair.
LEMMA RepairStep ==
  TypeInv /\ OpInv /\ AloneInv /\ DeleteRepairs /\ [NetnsNext]_netnsVars => DeleteRepairs'
<1> SUFFICES ASSUME TypeInv, OpInv, AloneInv, DeleteRepairs, [NetnsNext]_netnsVars
             PROVE  DeleteRepairs'
  BY Zenon
<1>1. CASE UNCHANGED netnsVars
  BY Zenon, <1>1 DEF netnsVars, DeleteRepairs
<1>2. ASSUME fin' = NoFin PROVE DeleteRepairs'
  <2>1. fin'.alone = FALSE
    BY <1>2, Zenon DEF NoFin
  <2> QED
    BY Zenon, <2>1 DEF DeleteRepairs
<1>3. ASSUME NEW p, NEW r, NEW c, CommandReturn(p, r, c), r.op \in {"add", "attach"}
      PROVE  DeleteRepairs'
  BY Zenon, <1>3, ReturnFin DEF DeleteRepairs
<1>4. CASE NetnsNext
  <2>1. PICK p \in Procs : Start(p) \/ Step(p) \/ Kill(p)
    BY Zenon, <1>4 DEF NetnsNext
  <2>2. proc[p] \in ProcRec /\ Restored(proc[p]).op = proc[p].op
        /\ Restored(proc[p]).name = proc[p].name /\ Restored(proc[p]).alone = proc[p].alone
    BY Zenon, RestoredFields, RestoredLists DEF TypeInv
  <2>3. CASE Start(p) \/ Flock(p) \/ MakeShared(p) \/ BindDir(p) \/ MakePrivate(p) \/ OutDelete(p)
             \/ Unshare(p) \/ Opendir(p) \/ Umount(p) \/ Kill(p) \/ GiveUp(p)
    BY <1>2, <2>3, Zenon DEF Start, Flock, MakeShared, BindDir, MakePrivate, OutDelete, Unshare,
                             Opendir, Umount, Kill, GiveUp, Dies
  <2>4. CASE SetupFails(p)
    BY Zenon, <1>3, <2>4 DEF SetupFails, OpInv
  <2>5. CASE CreateFile(p)
    <3>1. proc[p].op \in {"add", "attach"}
      BY Zenon, <2>5, CreateFileFields DEF OpInv
    <3> QED
      BY <1>2, <1>3, <2>5, <3>1, Zenon DEF CreateFile
  <2>6. CASE MountNs(p)
    <3>1. Restored(proc[p]).op \in {"add", "attach"}
      BY Zenon, <2>2, <2>6, MountNsFields DEF OpInv
    <3> QED
      BY <1>2, <1>3, <2>6, <3>1, Zenon DEF MountNs, Dies
  <2>7. CASE Readdir(p)
    <3>1. CASE fin' = NoFin
      BY Zenon, <1>2, <3>1
    <3>2. CASE (\E c : CommandReturn(p, proc[p], c)) /\ proc[p].todo \cup (proc[p].late \cap file) = {}
      <4>1. proc[p].pc = "readdir" /\ proc[p].op \in {"delete all", "cleanup"} /\ file' = file
        BY Zenon, <2>7, ReaddirFields DEF OpInv, Readdir
      <4>2. fin'.alone = proc[p].alone /\ fin'.op \in {"delete all", "cleanup"}
        BY Zenon, <3>2, <4>1, ReturnFin
      <4>3. proc[p].alone => file = {}
        BY Zenon, <3>2, <4>1 DEF AloneInv, LoneOK
      <4> QED
        BY Zenon, <4>1, <4>2, <4>3 DEF DeleteRepairs
    <3> QED
      BY <2>7, <3>1, <3>2, ReaddirFields, Zenon
  <2>8. CASE Unlink(p)
    <3> DEFINE r == Restored(proc[p])
               removes == r.name \in file /\ bound[r.name] = <<>>
    <3>1. proc[p].pc = "unlink" /\ raced \subseteq raced'
      BY Zenon, <2>8, UnlinkFields DEF Unlink
    <3>2. file' = IF removes THEN file \ {r.name} ELSE file
      BY <2>8, Zenon DEF Unlink
    <3>3. \/ fin' = NoFin
          \/ (\E c : CommandReturn(p, r, c)) /\ ~(r.op \in {"delete all", "cleanup"} /\ removes)
      <4> DEFINE code == CASE r.op = "delete all" -> "ok"
                           [] r.op = "delete" -> IF removes THEN "ok" ELSE "fail"
                           [] OTHER -> "fail"
      <4>1. IF r.op \in {"delete all", "cleanup"} /\ removes
            THEN proc' = [proc EXCEPT ![p].pc = "readdir"] /\ fin' = NoFin
            ELSE CommandReturn(p, r, code)
        BY <2>8, Zenon DEF Unlink
      <4> HIDE DEF r, removes, code
      <4> QED
        BY <4>1, Zenon
    <3>4. CASE fin' = NoFin \/ r.op \in {"add", "attach"}
      BY <1>2, <1>3, <3>3, <3>4, Zenon
    <3>5. CASE r.op \notin {"add", "attach"} /\ fin' # NoFin
      <4>1. fin'.op = proc[p].op /\ fin'.name = proc[p].name /\ fin'.alone = proc[p].alone
        BY Zenon, <2>2, <3>3, <3>5, ReturnFin
      <4>2. proc[p].alone => bound[proc[p].name] = <<>> \/ proc[p].name \in raced
        BY Zenon, <2>2, <3>1, <3>5 DEF AloneInv, LoneOK
      <4>3. proc[p].alone => proc[p].name \notin file' \/ proc[p].name \in raced'
        BY Zenon, <2>2, <3>1, <3>2, <4>2
      <4>4. proc[p].alone /\ proc[p].op \in {"delete all", "cleanup"} => proc[p].name \in file
        BY Zenon, <3>1 DEF AloneInv, LoneOK
      <4>5. proc[p].alone /\ proc[p].op \in {"delete all", "cleanup"} => proc[p].name \in raced'
        BY Zenon, <2>2, <3>1, <3>3, <3>5, <4>2, <4>4
      <4> QED
        BY Zenon, <4>1, <4>3, <4>5 DEF DeleteRepairs
    <3> QED
      BY Zenon, <3>4, <3>5
  <2> QED
    BY <2>1, <2>3, <2>4, <2>5, <2>6, <2>7, <2>8, Zenon DEF Step
<1> QED
  BY Zenon, <1>1, <1>4

\* DeleteRepairs for every number of processes, names, commands and kills: while a delete runs
\* alone, its list of names is the directory, and a name that no race has left two mounts on has
\* none once it is unmounted.
THEOREM DeletesRepair == NetnsSpec => []DeleteRepairs
<1>1. NetnsInit => AloneInv /\ DeleteRepairs
  <2>1. Idle.alone = FALSE /\ NoFin.alone = FALSE
    BY Zenon DEF Idle, NoFin
  <2> QED
    BY Zenon, <2>1 DEF NetnsInit, AloneInv, DeleteRepairs
<1> QED
  BY <1>1, NetnsTypes, NetnsNameInv, AloneStep, RepairStep, PTL DEF NetnsSpec

----------------------------------------------------------------------------
(* "ip netns pids" and "ip netns identify".                                *)

ScanSpaces == [ino : Inodes \cup {0}, gen : Nat]
Callers == Dentries \cup {""}
ScanRec == [pc : {"start", "opendir", "readdir", "done"}, by : Callers, held : BOOLEAN,
            key : ScanSpaces, todo : SUBSET Dentries, late : SUBSET Dentries,
            found : SUBSET (Dentries \X ScanSpaces), stay : SUBSET Dentries]

ScanTypeOK ==
  /\ task \in [Tasks -> ScanSpaces] /\ name \in [BoundNames -> ScanSpaces]
  /\ gen \in [Inodes -> Nat]
  /\ scan \in ScanRec

\* A namespace that something refers to is the youngest of those that have had its inode.
Youngest(n) == n = NoNs \/ (n.ino \in Inodes /\ n.gen = gen[n.ino])

\* What the scan owes: the entries that have been in the namespace all the time are still
\* to be read, or have been found.
Owed ==
  IF scan.by \in BoundNames THEN scan.stay \subseteq scan.todo \cup {f[1] : f \in scan.found}
  ELSE scan.stay \subseteq scan.todo \/ scan.found # {}

ScanInv ==
  /\ ScanTypeOK
  /\ \A e \in Dentries : Youngest(NsOf(e))
  /\ scan.held <=> scan.pc \in {"opendir", "readdir"}
  /\ scan.held => scan.by \in Dentries /\ scan.key # NoNs /\ Youngest(scan.key)
  /\ scan.pc \in {"start", "opendir"} => scan.found = {}
  /\ \A f \in scan.found : f[2] = scan.key
  /\ scan.pc = "readdir" => (\A e \in scan.stay : NsOf(e) = scan.key) /\ Owed
  /\ scan.pc = "done" => 
       IF scan.by \in BoundNames THEN scan.stay \subseteq {f[1] : f \in scan.found}
       ELSE scan.stay # {} => scan.found # {}

\* The command starts with a record of its own.
LEMMA NoScanType == NoNs \in ScanSpaces /\ NoScan \in ScanRec
<1>1. NoNs \in ScanSpaces
  BY Zenon DEF NoNs, ScanSpaces
<1> QED
  BY <1>1, Zenon DEF NoScan, ScanRec, Callers

\* Where an entry is.
LEMMA NsOfType ==
  ASSUME ScanTypeOK, NEW e \in Dentries
  PROVE  NsOf(e) \in ScanSpaces
  BY Zenon DEF ScanTypeOK, Dentries, NsOf

\* Nothing has been found before the first process starts a scan.
LEMMA ScanInitInv == ScanInit => ScanInv
<1> SUFFICES ASSUME ScanInit PROVE ScanInv
  BY Zenon
<1>1. PICK i \in Inodes :
        /\ gen = [j \in Inodes |-> IF j = i THEN 1 ELSE 0]
        /\ task \in [Tasks -> {NoNs, [ino |-> i, gen |-> 1]}]
  BY Zenon DEF ScanInit
<1>2. scan = NoScan /\ name = [n \in BoundNames |-> NoNs]
  BY Zenon DEF ScanInit
<1>3. NoNs \in ScanSpaces /\ [ino |-> i, gen |-> 1] \in ScanSpaces
  BY Zenon, NoScanType DEF ScanSpaces
<1>4. ScanTypeOK
  <2>1. task \in [Tasks -> ScanSpaces] /\ name \in [BoundNames -> ScanSpaces] /\ gen \in [Inodes -> Nat]
    BY Zenon, <1>1, <1>2, <1>3
  <2> QED
    BY <2>1, <1>2, NoScanType, Zenon DEF ScanTypeOK
<1>5. \A e \in Dentries : Youngest(NsOf(e))
  <2> SUFFICES ASSUME NEW e \in Dentries PROVE Youngest(NsOf(e))
    BY Zenon
  <2>1. NsOf(e) = NoNs \/ NsOf(e) = [ino |-> i, gen |-> 1]
    BY Zenon, <1>1, <1>2 DEF NsOf, Dentries
  <2> QED
    BY <2>1, <1>1 DEF Youngest
<1>6. scan.pc = "start" /\ scan.held = FALSE /\ scan.found = {}
  BY <1>2, Zenon DEF NoScan
<1> QED
  BY Zenon, <1>4, <1>5, <1>6 DEF ScanInv

----------------------------------------------------------------------------

\* What a move changes.
LEMMA MovedFields ==
  ASSUME ScanTypeOK, NEW e \in Dentries, NEW ns \in ScanSpaces, Moved(e, ns)
  PROVE  /\ task' \in [Tasks -> ScanSpaces] /\ name' \in [BoundNames -> ScanSpaces]
         /\ NsOf(e)' = ns
         /\ \A x \in Dentries \ {e} : NsOf(x)' = NsOf(x)
<1>1. CASE e \in Tasks
  <2>1. e \notin BoundNames
    BY Zenon, <1>1, ScanAssumption
  <2>2. task' = [task EXCEPT ![e] = ns] /\ name' = name
    BY <1>1, <2>1, Zenon DEF Moved
  <2> QED
    BY Zenon, <1>1, <2>2 DEF ScanTypeOK, NsOf, Dentries
<1>2. CASE e \in BoundNames
  <2>1. e \notin Tasks
    BY Zenon, <1>2, ScanAssumption
  <2>2. name' = [name EXCEPT ![e] = ns] /\ task' = task
    BY <1>2, <2>1, Zenon DEF Moved
  <2> QED
    BY Zenon, <1>2, <2>1, <2>2 DEF ScanTypeOK, NsOf, Dentries
<1> QED
  BY Zenon, <1>1, <1>2 DEF Dentries

\* ... and what it does to a scan that is under way: the entry may have left the namespace.
LEMMA MovedScan ==
  ASSUME ScanTypeOK, NEW e \in Dentries, NEW ns, Moved(e, ns)
  PROVE  /\ scan' \in ScanRec
         /\ scan'.pc = scan.pc /\ scan'.by = scan.by /\ scan'.held = scan.held
         /\ scan'.key = scan.key /\ scan'.todo = scan.todo /\ scan'.found = scan.found
         /\ scan'.stay = IF ns = scan.key THEN scan.stay ELSE scan.stay \ {e}
<1>1. CASE ns = scan.key
  BY Zenon, <1>1 DEF Moved, ScanTypeOK
<1>2. CASE ns # scan.key
  <2>1. scan' = [scan EXCEPT !.stay = scan.stay \ {e}]
    BY Zenon, <1>2 DEF Moved
  <2>2. scan.stay \ {e} \in SUBSET Dentries
    BY Zenon DEF ScanTypeOK, ScanRec
  <2>3. scan' \in ScanRec
    BY <2>1, <2>2, Zenon DEF ScanTypeOK, ScanRec
  <2> QED
    BY Zenon, <1>2, <2>1, <2>3 DEF ScanTypeOK, ScanRec
<1> QED
  BY Zenon, <1>1, <1>2

\* Something refers to every namespace that is live.
LEMMA LiveAre ==
  ASSUME ScanInv
  PROVE  /\ \A n \in Live : n \in ScanSpaces /\ n # NoNs /\ Youngest(n)
         /\ \A e \in Dentries : NsOf(e) # NoNs => NsOf(e) \in Live
         /\ scan.held => scan.key \in Live
<1>1. \A e \in Dentries : NsOf(e) \in ScanSpaces /\ Youngest(NsOf(e))
  BY Zenon, NsOfType DEF ScanInv
<1>2. \A t \in Tasks : task[t] = NsOf(t) /\ t \in Dentries
  BY Zenon DEF NsOf, Dentries
<1>3. \A n \in BoundNames : name[n] = NsOf(n) /\ n \in Dentries
  BY Zenon, ScanAssumption DEF NsOf, Dentries
<1>4. scan.held => scan.key \in ScanSpaces /\ scan.key # NoNs /\ Youngest(scan.key)
  BY Zenon DEF ScanInv, ScanTypeOK, ScanRec
<1>5. ASSUME NEW n \in Live PROVE n \in ScanSpaces /\ n # NoNs /\ Youngest(n)
  BY Zenon, <1>1, <1>2, <1>3, <1>4 DEF Live
<1>6. ASSUME NEW e \in Dentries, NsOf(e) # NoNs PROVE NsOf(e) \in Live
  BY Zenon, <1>2, <1>3, <1>6 DEF Live, Dentries
<1>7. scan.held => scan.key \in Live
  BY Zenon, <1>4 DEF Live
<1> QED
  BY Zenon, <1>5, <1>6, <1>7

\* A move keeps every namespace that something refers to the youngest of its inode: a new
\* namespace gets an inode that is free.
LEMMA MovedYoungest ==
  ASSUME ScanInv, NEW e \in Dentries, NEW ns \in Live \cup FreshNs \cup {NoNs}, Moved(e, ns)
  PROVE  /\ ns \in ScanSpaces
         /\ gen' \in [Inodes -> Nat]
         /\ Youngest(ns)'
         /\ \A n \in Live : Youngest(n)'
<1>0. gen \in [Inodes -> Nat] /\ \A n \in Live : n \in ScanSpaces /\ n # NoNs /\ Youngest(n)
  BY Zenon, LiveAre DEF ScanInv, ScanTypeOK
<1>1. CASE ns \in FreshNs
  <2>1. PICK i \in Inodes : ns = [ino |-> i, gen |-> gen[i] + 1] /\ \A n \in Live : n.ino # i
    BY Zenon, <1>1 DEF FreshNs
  <2>2. ns.ino = i /\ ns.gen = gen[i] + 1 /\ gen[i] + 1 \in Nat
    BY <2>1, <1>0
  <2>3. gen' = [gen EXCEPT ![i] = gen[i] + 1]
    BY Zenon, <1>1, <2>2 DEF Moved
  <2>4. ns \in ScanSpaces
    BY Zenon, <2>1, <2>2, ScanAssumption DEF ScanSpaces
  <2>5. gen' \in [Inodes -> Nat] /\ gen'[i] = gen[i] + 1 /\ \A j \in Inodes \ {i} : gen'[j] = gen[j]
    BY Zenon, <2>2, <2>3, <1>0
  <2>6. Youngest(ns)'
    BY Zenon, <2>2, <2>5 DEF Youngest
  <2>7. ASSUME NEW n \in Live PROVE Youngest(n)'
    BY Zenon, <2>1, <2>5, <1>0 DEF Youngest
  <2> QED
    BY Zenon, <2>4, <2>5, <2>6, <2>7
<1>2. CASE ns \notin FreshNs
  <2>1. gen' = gen
    BY Zenon, <1>2 DEF Moved
  <2>2. ns \in ScanSpaces /\ Youngest(ns)
    BY Zenon, <1>0, <1>2, NoScanType DEF Youngest
  <2> QED
    BY Zenon, <2>1, <2>2, <1>0 DEF Youngest
<1> QED
  BY Zenon, <1>1, <1>2

\* Whatever happens to processes and names, the invariant holds.
LEMMA MovedKeeps ==
  ASSUME ScanInv, NEW e \in Dentries, NEW ns \in Live \cup FreshNs \cup {NoNs}, Moved(e, ns)
  PROVE  ScanInv'
<1>0. ScanTypeOK
  BY Zenon DEF ScanInv
<1>1. /\ ns \in ScanSpaces /\ gen' \in [Inodes -> Nat] /\ Youngest(ns)'
      /\ \A n \in Live : Youngest(n)'
  BY Zenon, MovedYoungest
<1>2. /\ task' \in [Tasks -> ScanSpaces] /\ name' \in [BoundNames -> ScanSpaces]
      /\ NsOf(e)' = ns
      /\ \A x \in Dentries \ {e} : NsOf(x)' = NsOf(x)
  BY Zenon, <1>0, <1>1, MovedFields
<1>3. /\ scan' \in ScanRec
      /\ scan'.pc = scan.pc /\ scan'.by = scan.by /\ scan'.held = scan.held
      /\ scan'.key = scan.key /\ scan'.todo = scan.todo /\ scan'.found = scan.found
      /\ scan'.stay = IF ns = scan.key THEN scan.stay ELSE scan.stay \ {e}
  BY Zenon, <1>0, MovedScan
<1>4. ScanTypeOK'
  BY Zenon, <1>1, <1>2, <1>3 DEF ScanTypeOK
<1>5. ASSUME NEW x \in Dentries PROVE Youngest(NsOf(x))'
  <2>1. CASE x = e
    BY Zenon, <2>1, <1>1, <1>2 DEF Youngest
  <2>2. CASE x # e /\ NsOf(x) # NoNs
    <3>1. NsOf(x) \in Live
      BY Zenon, <2>2, LiveAre
    <3> QED
      BY Zenon, <2>2, <3>1, <1>1, <1>2 DEF Youngest
  <2>3. CASE x # e /\ NsOf(x) = NoNs
    BY Zenon, <2>3, <1>2 DEF Youngest, NoNs
  <2> QED
    BY Zenon, <2>1, <2>2, <2>3
<1>6. scan'.held => scan'.by \in Dentries /\ scan'.key # NoNs /\ Youngest(scan.key)'
  BY Zenon, <1>1, <1>3, LiveAre DEF ScanInv
<1>7. scan'.stay \subseteq scan.stay
  BY Zenon, <1>3
<1>8. scan'.pc = "readdir" => (\A x \in scan'.stay : NsOf(x)' = scan'.key) /\ Owed'
  <2> SUFFICES ASSUME scan.pc = "readdir"
               PROVE  (\A x \in scan'.stay : NsOf(x)' = scan.key) /\ Owed'
    BY Zenon, <1>3
  <2>1. (\A x \in scan.stay : NsOf(x) = scan.key) /\ Owed
    BY Zenon DEF ScanInv
  <2>2. ASSUME NEW x \in scan'.stay PROVE NsOf(x)' = scan.key
    <3>1. x \in Dentries /\ x \in scan.stay
      BY Zenon, <1>3, <1>7 DEF ScanRec
    <3> QED
      BY Zenon, <1>2, <1>3, <2>1, <3>1
  <2>3. Owed'
    BY Zenon, <2>1, <1>3, <1>7 DEF Owed
  <2> QED
    BY Zenon, <2>2, <2>3
<1>9. scan'.pc = "done" =>
        IF scan'.by \in BoundNames THEN scan'.stay \subseteq {f[1] : f \in scan'.found}
        ELSE scan'.stay # {} => scan'.found # {}
  BY Zenon, <1>3, <1>7 DEF ScanInv
<1> QED
  BY Zenon, <1>3, <1>4, <1>5, <1>6, <1>8, <1>9 DEF ScanInv, Youngest

----------------------------------------------------------------------------

\* A step of the scan changes nothing but the scan.
ScanOnly == UNCHANGED <<task, name, gen, moves>>

\* The namespace is opened.
LEMMA OpenKeeps ==
  ASSUME ScanInv, NEW e \in Dentries, Open(e), ScanOnly
  PROVE  ScanInv'
<1>1. /\ NsOf(e) \in ScanSpaces /\ NsOf(e) # NoNs /\ Youngest(NsOf(e))
  BY Zenon, NsOfType DEF ScanInv, Open
<1>2. scan' = [NoScan EXCEPT !.pc = "opendir", !.by = e, !.key = NsOf(e), !.held = TRUE]
  BY Zenon DEF Open
<1>3. e \in Callers
  BY Zenon DEF Callers
<1>4. scan' \in ScanRec
  BY <1>1, <1>2, <1>3, NoScanType, Zenon DEF ScanRec
<1>5. /\ scan'.pc = "opendir" /\ scan'.by = e /\ scan'.key = NsOf(e) /\ scan'.held = TRUE
      /\ scan'.found = {}
  BY <1>2, Zenon DEF NoScan
<1>6. ScanTypeOK'
  BY Zenon, <1>4 DEF ScanTypeOK, ScanInv, ScanOnly
<1>7. \A x \in Dentries : Youngest(NsOf(x))'
  BY Zenon DEF ScanInv, ScanOnly, Youngest, NsOf
<1>8. Youngest(scan.key)'
  BY SMTT(20), <1>1, <1>5 DEF Youngest, ScanOnly
<1> QED
  BY Zenon, <1>1, <1>5, <1>6, <1>7, <1>8 DEF ScanInv

\* The directory is opened: everything in the namespace is there to be read.
LEMMA OpendirKeeps ==
  ASSUME ScanInv, ScanOpendir, ScanOnly
  PROVE  ScanInv'
<1> DEFINE there == {e \in ReadsFor(scan.by) : NsOf(e) # NoNs}
           here == {e \in there : NsOf(e) = scan.key}
<1>0. scan \in ScanRec /\ scan.pc = "opendir"
  BY Zenon DEF ScanInv, ScanTypeOK, ScanOpendir
<1>1. PICK later \in SUBSET (ReadsFor(scan.by) \ there) :
        scan' = [scan EXCEPT !.pc = "readdir", !.todo = there, !.late = later, !.stay = here]
  BY Zenon DEF ScanOpendir
<1>2. ReadsFor(scan.by) \subseteq Dentries
  BY Zenon DEF ReadsFor, Dentries
<1>3. there \in SUBSET Dentries /\ later \in SUBSET Dentries /\ here \in SUBSET Dentries
      /\ here \subseteq there /\ \A x \in here : NsOf(x) = scan.key
  BY Zenon, <1>2
<1> HIDE DEF there, here
<1>4. scan' \in ScanRec
  BY <1>0, <1>1, <1>3, Zenon DEF ScanRec
<1>5. /\ scan'.pc = "readdir" /\ scan'.by = scan.by /\ scan'.key = scan.key
      /\ scan'.held = scan.held /\ scan'.found = scan.found
      /\ scan'.todo = there /\ scan'.stay = here
  BY <1>0, <1>1, Zenon DEF ScanRec
<1>6. ScanTypeOK'
  BY Zenon, <1>4 DEF ScanTypeOK, ScanInv, ScanOnly
<1>7. \A x : NsOf(x)' = NsOf(x)
  BY Zenon DEF ScanOnly, NsOf
<1>8. \A x \in Dentries : Youngest(NsOf(x))'
  BY Zenon DEF ScanInv, ScanOnly, Youngest, NsOf
<1>9. scan'.held => scan'.by \in Dentries /\ scan'.key # NoNs /\ Youngest(scan.key)'
  BY Zenon, <1>5 DEF ScanInv, Youngest, ScanOnly
<1>10. (\A x \in scan'.stay : NsOf(x)' = scan'.key) /\ Owed'
  BY Zenon, <1>3, <1>5, <1>7 DEF Owed
<1> QED
  BY Zenon, <1>0, <1>5, <1>6, <1>8, <1>9, <1>10 DEF ScanInv

\* The descriptor is open, so an entry with the inode of the namespace is in the namespace.
LEMMA SameIsKey ==
  ASSUME ScanInv, NEW e \in Dentries, scan.pc = "readdir"
  PROVE  Same(e) <=> NsOf(e) = scan.key
<1>1. scan.key # NoNs /\ Youngest(scan.key) /\ Youngest(NsOf(e))
  BY Zenon DEF ScanInv
<1>2. NsOf(e) \in ScanSpaces /\ scan.key \in ScanSpaces
  BY Zenon, NsOfType DEF ScanInv, ScanTypeOK, ScanRec
<1>3. ASSUME Same(e) PROVE NsOf(e) = scan.key
  <2>1. NsOf(e).ino = scan.key.ino /\ NsOf(e).gen = scan.key.gen
    BY Zenon, <1>1, <1>3 DEF Same, Youngest
  <2> QED
    BY <2>1, <1>2 DEF ScanSpaces
<1> QED
  BY Zenon, <1>1, <1>3 DEF Same

\* An entry is read.
LEMMA EntryKeeps ==
  ASSUME ScanInv, NEW e \in Dentries, ScanEntry(e), ScanOnly
  PROVE  ScanInv'
<1> DEFINE add == <<e, NsOf(e)>>
           base == IF scan.by \in BoundNames THEN scan.found ELSE {}
           now1 == IF ~Same(e) THEN scan.found ELSE base \cup {add}
<1>0. scan \in ScanRec /\ scan.pc = "readdir" /\ scan.held
  BY Zenon DEF ScanInv, ScanTypeOK, ScanEntry
<1>1. scan' = [scan EXCEPT !.todo = scan.todo \ {e}, !.late = scan.late \ {e}, !.found = now1]
  BY Zenon, <1>0 DEF ScanEntry
<1>2. add \in Dentries \X ScanSpaces
  BY Zenon, NsOfType DEF ScanInv
<1>3. /\ scan.todo \ {e} \in SUBSET Dentries /\ scan.late \ {e} \in SUBSET Dentries
      /\ now1 \in SUBSET (Dentries \X ScanSpaces)
  BY Zenon, <1>0, <1>2 DEF ScanRec
<1>4. /\ Same(e) => NsOf(e) = scan.key /\ add \in now1
      /\ NsOf(e) = scan.key => Same(e)
      /\ \A f \in now1 : f \in scan.found \/ (f = add /\ Same(e))
      /\ scan.by \in BoundNames \/ ~Same(e) => scan.found \subseteq now1
  BY Zenon, <1>0, SameIsKey
<1>5. add[1] = e /\ add[2] = NsOf(e)
  BY Zenon
<1> HIDE DEF now1, add
<1>6. scan' \in ScanRec
  BY <1>0, <1>1, <1>3, Zenon DEF ScanRec
<1>7. /\ scan'.pc = "readdir" /\ scan'.by = scan.by /\ scan'.key = scan.key
      /\ scan'.held = scan.held /\ scan'.found = now1
      /\ scan'.todo = scan.todo \ {e} /\ scan'.stay = scan.stay
  BY <1>0, <1>1, Zenon DEF ScanRec
<1>8. ScanTypeOK'
  BY Zenon, <1>6 DEF ScanTypeOK, ScanInv, ScanOnly
<1>9. \A x : NsOf(x)' = NsOf(x)
  BY Zenon DEF ScanOnly, NsOf
<1>10. \A x \in Dentries : Youngest(NsOf(x))'
  BY Zenon DEF ScanInv, ScanOnly, Youngest, NsOf
<1>11. scan'.by \in Dentries /\ scan'.key # NoNs /\ Youngest(scan.key)'
  BY Zenon, <1>0, <1>7 DEF ScanInv, Youngest, ScanOnly
<1>12. \A f \in scan'.found : f[2] = scan'.key
  BY Zenon, <1>4, <1>5, <1>7 DEF ScanInv
<1>13. (\A x \in scan.stay : NsOf(x) = scan.key) /\ Owed
  BY Zenon, <1>0 DEF ScanInv
<1>14. e \in scan.stay => add \in now1
  BY Zenon, <1>4, <1>13
<1>15. Owed'
  <2>1. CASE scan.by \in BoundNames
    <3>1. scan.found \subseteq now1
      BY Zenon, <2>1, <1>4
    <3>2. scan.stay \subseteq scan.todo \cup {f[1] : f \in scan.found}
      BY Zenon, <2>1, <1>13 DEF Owed
    <3>3. ASSUME NEW x \in scan.stay PROVE x \in (scan.todo \ {e}) \cup {f[1] : f \in now1}
      BY Zenon, <3>1, <3>2, <1>5, <1>14
    <3> QED
      BY Zenon, <2>1, <3>3, <1>7 DEF Owed
  <2>2. CASE scan.by \notin BoundNames
    BY SMTT(20), <2>2, <1>4, <1>7, <1>13, <1>14 DEF Owed
  <2> QED
    BY Zenon, <2>1, <2>2
<1> QED
  BY Zenon, <1>0, <1>7, <1>8, <1>9, <1>10, <1>11, <1>12, <1>13, <1>15 DEF ScanInv

\* The directory has been read.
LEMMA EndKeeps ==
  ASSUME ScanInv, ScanEnd, ScanOnly
  PROVE  ScanInv'
<1>0. scan \in ScanRec /\ scan.pc = "readdir" /\ scan.todo = {}
  BY Zenon DEF ScanInv, ScanTypeOK, ScanEnd
<1>1. scan' = [scan EXCEPT !.pc = "done", !.held = FALSE]
  BY Zenon DEF ScanEnd
<1>2. scan' \in ScanRec
  BY <1>0, <1>1, Zenon DEF ScanRec
<1>3. /\ scan'.pc = "done" /\ scan'.by = scan.by /\ scan'.key = scan.key
      /\ scan'.held = FALSE /\ scan'.found = scan.found /\ scan'.stay = scan.stay
  BY <1>0, <1>1, Zenon DEF ScanRec
<1>4. ScanTypeOK'
  BY Zenon, <1>2 DEF ScanTypeOK, ScanInv, ScanOnly
<1>5. \A x \in Dentries : Youngest(NsOf(x))'
  BY Zenon DEF ScanInv, ScanOnly, Youngest, NsOf
<1>6. Owed
  BY Zenon, <1>0 DEF ScanInv
<1>7. IF scan.by \in BoundNames THEN scan.stay \subseteq {f[1] : f \in scan.found}
      ELSE scan.stay # {} => scan.found # {}
  BY Zenon, <1>0, <1>6 DEF Owed
<1> QED
  BY Zenon, <1>3, <1>4, <1>5, <1>7 DEF ScanInv

\* Every step keeps the invariant.
LEMMA ScanStepKeeps == ScanInv /\ [ScanNext]_scanVars => ScanInv'
<1> SUFFICES ASSUME ScanInv, [ScanNext]_scanVars PROVE ScanInv'
  BY Zenon
<1>1. CASE OthersRun
  <2>1. CASE \E t \in Tasks, ns \in Live \cup FreshNs \cup {NoNs} : Moved(t, ns)
    BY Zenon, <2>1, MovedKeeps DEF Dentries
  <2>2. CASE \E n \in BoundNames : name[n] # NoNs /\ Moved(n, NoNs)
    BY Zenon, <2>2, MovedKeeps DEF Dentries
  <2>3. CASE \E n \in BoundNames : \E t \in Tasks : task[t] # NoNs /\ Moved(n, task[t])
    <3>1. PICK n \in BoundNames : \E t \in Tasks : task[t] # NoNs /\ Moved(n, task[t])
      BY Zenon, <2>3
    <3>2. PICK t \in Tasks : task[t] # NoNs /\ Moved(n, task[t])
      BY Zenon, <3>1
    <3>3. task[t] \in Live /\ n \in Dentries
      BY Zenon, <3>2 DEF Live, Dentries
    <3> QED
      BY Zenon, <3>2, <3>3, MovedKeeps
  <2> QED
    BY <1>1, <2>1, <2>2, <2>3, Zenon DEF OthersRun
<1>2. CASE ScanStep
  <2>1. ScanOnly
    BY SMTT(20), <1>2 DEF ScanStep, ScanOnly
  <2> QED
    BY <1>2, <2>1, OpenKeeps, OpendirKeeps, EntryKeeps, EndKeeps, Zenon DEF ScanStep
<1>3. CASE UNCHANGED scanVars
  <2>1. UNCHANGED <<task, name, gen, scan>>
    BY Zenon, <1>3 DEF scanVars
  <2> QED
    BY Zenon, <2>1 DEF ScanInv, ScanTypeOK, Youngest, NsOf, Owed
<1> QED
  BY Zenon, <1>1, <1>2, <1>3 DEF ScanNext

\* However many processes and names come and go during the scan and however inodes are
\* given away, "ip netns pids" and "ip netns identify" print only what was in the namespace
\* they opened, and leave out nothing that was in it all the time (netns_pids,
\* netns_identify_pid).
THEOREM ScansAreExact == ScanSpec => []ScanExact
<1>1. ScanInv => ScanExact
  BY Zenon DEF ScanInv, ScanExact
<1> QED
  BY ScanInitInv, ScanStepKeeps, <1>1, PTL DEF ScanSpec

=============================================================================
