------------------------------- MODULE Flush --------------------------------
(***************************************************************************)
(* "ip route flush", "ip address flush", "ip neigh flush", "ip tcp_metrics *)
(* flush" and "ip xfrm state|policy deleteall": rounds of a dump whose     *)
(* filter turns every object it is given into a delete request, until a    *)
(* dump gives it none.                                                     *)
(*                                                                         *)
(* The requests are collected in a buffer and sent with rtnl_send_check,   *)
(* when the buffer is full in the middle of the dump.  Dump and requests   *)
(* share the socket and its queue.  Other processes change the kernel's    *)
(* table at any time.                                                      *)
(***************************************************************************)
EXTENDS Naturals, Sequences, FiniteSets

CONSTANTS
  Commands,   \* the commands a user may give: what is flushed (kind), MAX_ROUNDS
              \* or max_flush_loops (limit, 0: none), "address flush primary"
  Entries,    \* the objects there may be
  Unselected, \* the objects that do not pass the command's filter
  Dependent,  \* the addresses the kernel deletes together with an address
  Refused,    \* the objects the kernel refuses to delete
  BufSize,    \* requests the buffer holds
  PerPart,    \* objects the kernel puts into one datagram of a dump
  MaxOthers   \* changes by other processes

ASSUME FlushAssumption ==
  /\ \A c \in Commands :
       /\ c \in [kind : {"route", "addr", "neigh", "tcp_metrics", "policy", "state"},
                 limit : Nat, primary : BOOLEAN]
       /\ c.limit = 0 => c.kind # "neigh"
       /\ c.primary => c.kind = "addr"
  /\ IsFiniteSet(Entries) /\ Refused \subseteq Entries /\ Unselected \subseteq Entries
  /\ Dependent \in [Entries -> SUBSET Entries]
  /\ BufSize \in Nat \ {0} /\ PerPart \in Nat \ {0} /\ MaxOthers \in Nat

VARIABLES
  cmd,       \* the command
  table,     \* the objects in the kernel
  failed,    \* deleted neighbours that linger in the table
  kdump,     \* the dump in progress
  queue,     \* the socket's queue
  others,    \* changes by other processes so far
  pc,        \* "round", "dump", "filter", "after", "end"
  part,      \* objects of the datagram the filter has still to be given
  buf,       \* flushb
  flushed,   \* filter.flushed
  round,
  warned,    \* "Dump was interrupted and may be inconsistent."
  result,    \* "none", "ok" or "fail"
  stayed,    \* objects that have been in the table since the round began
  disturbed  \* another process changed the table in this round

vars == <<cmd, table, failed, kdump, queue, others, pc, part, buf, flushed, round,
          warned, result, stayed, disturbed>>
loopVars == <<pc, part, buf, flushed, round, warned, result>>

NoDump == [on |-> FALSE, left |-> {}, changed |-> FALSE]
Part(objs, intr) == [type |-> "part", objs |-> objs, intr |-> intr, err |-> "none"]
Done(intr) == [type |-> "done", objs |-> {}, intr |-> intr, err |-> "none"]
Error(code) == [type |-> "error", objs |-> {}, intr |-> FALSE, err |-> code]

----------------------------------------------------------------------------
(* The kernel.                                                             *)

\* How the dump k may go on: the next objects, or the end.  A dump during which
\* the table changed may leave out objects and carries NLM_F_DUMP_INTR.
NextPart(k, p) ==
  {[dg |-> Part(p, k.changed), next |-> [k EXCEPT !.left = rest]] :
     rest \in IF k.changed THEN SUBSET (k.left \ p) ELSE {k.left \ p}}
DumpEnd(k) ==
  IF k.left = {} \/ k.changed THEN {[dg |-> Done(k.changed), next |-> NoDump]} ELSE {}
Continuations(k) ==
  DumpEnd(k) \cup
    UNION {NextPart(k, p) : p \in {q \in SUBSET (k.left \cap table) : Cardinality(q) \in 1..PerPart}}

\* recvmsg takes the first datagram and lets the kernel continue a dump.
Receive ==
  /\ queue # <<>>
  /\ IF kdump.on
     THEN \E c \in Continuations(kdump) :
            queue' = Append(Tail(queue), c.dg) /\ kdump' = c.next
     ELSE queue' = Tail(queue) /\ UNCHANGED kdump

\* The kernel carries out the delete request of e: s is the table and the
\* answers so far.  Only a refusal is answered.
Delete(s, e) ==
  IF e \notin s.table THEN [s EXCEPT !.errs = Append(@, Error("gone"))]
  ELSE IF e \in Refused THEN [s EXCEPT !.errs = Append(@, Error("refused"))]
  ELSE IF cmd.kind = "neigh" THEN [s EXCEPT !.failed = @ \cup {e}]
  ELSE [s EXCEPT !.table = @ \ ({e} \cup IF cmd.kind = "addr" THEN Dependent[e] ELSE {})]

\* The requests of the buffer are carried out in their order.
Deleted ==
  LET after[n \in 0..Len(buf)] ==
        IF n = 0 THEN [table |-> table, failed |-> failed, errs |-> <<>>]
        ELSE Delete(after[n - 1], buf[n])
  IN after[Len(buf)]

\* Another process, or the kernel itself, adds or removes an object.
Others ==
  /\ pc # "end"
  /\ others < MaxOthers
  /\ others' = others + 1
  /\ \E e \in Entries :
       \/ /\ e \in table
          /\ table' = table \ {e}
          /\ kdump' = [kdump EXCEPT !.changed = kdump.on]
       \/ /\ e \notin table
          /\ table' = table \cup {e}
          /\ kdump' \in {[kdump EXCEPT !.changed = kdump.on, !.left = l]
                           : l \in {kdump.left} \cup (IF kdump.on THEN {kdump.left \cup {e}} ELSE {})}
  /\ failed' = failed \cap table'
  /\ stayed' = stayed \cap table'
  /\ disturbed' = TRUE
  /\ UNCHANGED <<queue, loopVars>>

----------------------------------------------------------------------------
(* The loop.                                                               *)

Return(code) == pc' = "end" /\ result' = code

\* flush_update: rtnl_send_check sends the buffer and peeks at the head of the
\* queue.  "ip address flush" ignores EADDRNOTAVAIL.
SendFailsNever(q) == FALSE
SendFails(q) ==
  q # <<>> /\ Head(q).type = "error" /\ ~(cmd.kind = "addr" /\ Head(q).err = "gone")

SendBuffer ==
  /\ table' = Deleted.table /\ failed' = Deleted.failed
  /\ queue' = queue \o Deleted.errs
  /\ kdump' = [kdump EXCEPT !.changed = @ \/ (kdump.on /\ table' # table)]
  /\ stayed' = stayed \cap table'

\* A round begins: the dump request.
RoundBegin ==
  /\ pc = "round"
  /\ \E c \in Continuations([on |-> TRUE, left |-> table, changed |-> FALSE]) :
       queue' = Append(queue, c.dg) /\ kdump' = c.next
  /\ flushed' = 0
  /\ stayed' = table
  /\ disturbed' = FALSE
  /\ pc' = "dump"
  /\ UNCHANGED <<table, failed, others, part, buf, round, warned, result>>

\* rtnl_dump_filter reads a datagram; an answer to a delete request does not
\* carry the number of the dump and is skipped.
MaskedAlways == TRUE
Masked == cmd.kind = "addr"
DumpRead ==
  /\ pc = "dump"
  /\ Receive
  /\ LET d == Head(queue) IN
     /\ warned' = (warned \/ (d.intr /\ ~Masked))
     /\ part' = d.objs
     /\ pc' = CASE d.type = "part" -> "filter"
                [] d.type = "done" -> "after"
                [] d.type = "error" -> "dump"
  /\ UNCHANGED <<table, failed, others, buf, flushed, round, result, stayed, disturbed>>

\* The objects the command selects; NUD_FAILED neighbours in the first round only.
Matches(e) == e \notin Unselected /\ (e \in failed => round = 0)

\* The filter is given an object it does not select; xfrm_policy_keep also leaves
\* what does not fit into the buffer to the next round.
FilterSkip(e) ==
  /\ ~Matches(e) \/ (Len(buf) = BufSize /\ cmd.kind = "policy")
  /\ UNCHANGED <<table, failed, queue, kdump, stayed, buf, flushed, pc, result>>

\* It makes the object a delete request in the buffer.
FilterKeep(e) ==
  /\ Matches(e) /\ Len(buf) < BufSize
  /\ buf' = Append(buf, e)
  /\ flushed' = flushed + 1
  /\ UNCHANGED <<table, failed, queue, kdump, stayed, pc, result>>

\* xfrm_state_keep fails when the buffer is full, and with it the command
\* ("State buffer overflow", "Delete-all terminated").
FilterFull(e) ==
  /\ Matches(e) /\ Len(buf) = BufSize /\ cmd.kind = "state"
  /\ Return("fail")
  /\ UNCHANGED <<table, failed, queue, kdump, stayed, buf, flushed>>

\* A full buffer is sent first; if that fails so does the dump ("Flush terminated").
FilterSend(e) ==
  /\ Matches(e) /\ Len(buf) = BufSize /\ cmd.kind \notin {"policy", "state"}
  /\ SendBuffer
  /\ IF SendFails(queue')
     THEN Return("fail") /\ UNCHANGED <<buf, flushed>>
     ELSE /\ buf' = <<e>>
          /\ flushed' = flushed + 1
          /\ UNCHANGED <<pc, result>>

FilterObject ==
  /\ pc = "filter" /\ part # {}
  /\ \E e \in part :
     /\ part' = part \ {e}
     /\ FilterSkip(e) \/ FilterKeep(e) \/ FilterFull(e) \/ FilterSend(e)
  /\ UNCHANGED <<others, round, warned, disturbed>>

FilterEnd ==
  /\ pc = "filter" /\ part = {}
  /\ pc' = "dump"
  /\ UNCHANGED <<table, failed, kdump, queue, others, part, buf, flushed, round,
                 warned, result, stayed, disturbed>>

\* The dump gave nothing to delete: the flush is complete.
CompleteAfterOne == flushed = 0 \/ round = 1
Complete == flushed = 0
RoundComplete ==
  /\ pc = "after" /\ Complete
  /\ Return("ok")
  /\ UNCHANGED <<table, failed, kdump, queue, others, part, buf, flushed, round,
                 warned, stayed, disturbed>>

\* The loop is left: "route" after 30 seconds, the others after the limit of rounds.
GivesUp(r) == IF cmd.kind = "route" THEN BOOLEAN
              ELSE {cmd.kind \in {"addr", "neigh"} /\ cmd.limit # 0 /\ r >= cmd.limit}

\* The rounds are counted as far as they are compared with something.
CountRound(r) == IF r <= cmd.limit THEN r + 1 ELSE r

RoundEnd ==
  /\ pc = "after" /\ ~Complete
  /\ SendBuffer
  /\ round' = CountRound(round)
  /\ IF SendFails(queue') THEN Return("fail") /\ UNCHANGED buf
     ELSE /\ buf' = <<>>
          /\ IF cmd.primary THEN Return("ok")
             ELSE \E up \in GivesUp(round') :
                    IF up THEN Return("fail") ELSE pc' = "round" /\ UNCHANGED result
  /\ UNCHANGED <<others, part, flushed, warned, disturbed>>

----------------------------------------------------------------------------

Init ==
  /\ cmd \in Commands
  /\ table \in SUBSET Entries /\ failed = {}
  /\ kdump = NoDump /\ queue = <<>>
  /\ others = 0
  /\ pc = "round" /\ part = {} /\ buf = <<>>
  /\ flushed = 0 /\ round = 0
  /\ warned = FALSE /\ result = "none"
  /\ stayed = {} /\ disturbed = FALSE

Loop == RoundBegin \/ DumpRead \/ FilterObject \/ FilterEnd \/ RoundComplete \/ RoundEnd

Next == (Loop \/ Others) /\ UNCHANGED cmd

Spec == Init /\ [][Next]_vars /\ WF_vars(Loop /\ UNCHANGED cmd)

----------------------------------------------------------------------------

\* The exit code of a flush is 0 only if nothing is left to flush: unless another
\* process changed the table in the last round, every object has been deleted,
\* although the flush itself deletes objects in the middle of its dumps, which
\* makes these incomplete, and does not see the errors that queue up behind a
\* dump.
FlushComplete ==
  result = "ok" /\ ~cmd.primary /\ ~disturbed => table \subseteq failed \cup Unselected

\* If other processes made the last dump miss an object that was there all the
\* time, the user has been told that the dump was inconsistent.
FlushWarned ==
  result = "ok" /\ cmd.kind # "addr" => stayed \subseteq failed \cup Unselected \/ warned

\* "ip address flush" with exit code 0 has removed the addresses that were there
\* (ip(8), -loops 0: "loop until all addresses are removed").
AddressesRemoved == result = "ok" => stayed \subseteq Unselected

\* A flush comes to an end once the other processes leave the table alone, even
\* one without a limit on the rounds and with an object the kernel refuses to
\* delete.  (iproute_flush measures time, which ends it in any case.)
FlushEnds == cmd.kind # "route" => <>(pc = "end")

=============================================================================
