------------------------------- MODULE MCRtnl -------------------------------
(* The netlink handle for TLC: a program that makes a few calls on one     *)
(* handle, or "ip -batch" with a few commands.                             *)
EXTENDS IpBatch

VARIABLE program  \* "calls", or "batch"

Setting(echo, faults, peers, requests) ==
  [echo |-> echo, faults |-> faults, peers |-> peers, requests |-> requests]

\* -echo and calls that end early, over three requests, or over two with a datagram
\* of another process; neither, with one.
CallSettings == {Setting(TRUE, TRUE, FALSE, 3), Setting(TRUE, TRUE, TRUE, 2),
                 Setting(FALSE, FALSE, TRUE, 3)}
BatchSettings == {Setting(FALSE, TRUE, FALSE, MaxSeq)}
AllSettings == CallSettings \cup BatchSettings

allVars == <<batchVars, program>>

\* A program that only makes calls has no exit code to settle.
InCalls(A) == program = "calls" /\ A /\ UNCHANGED <<force, ret, stopped, program>>
InBatch(A) == program = "batch" /\ A /\ UNCHANGED program

MCInit ==
  /\ BatchInit
  /\ \/ program = "calls" /\ set \in CallSettings /\ ~force
     \/ program = "batch" /\ set \in BatchSettings

MCNext == InCalls(Next) \/ InBatch(BatchNext)

MCSpec ==
  /\ MCInit /\ [][MCNext]_allVars
  /\ WF_allVars(InCalls(Receive /\ UNCHANGED set))
  /\ WF_allVars(InBatch(Run /\ UNCHANGED set))

=============================================================================
