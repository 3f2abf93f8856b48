------------------------------ MODULE MCIpBatch -----------------------------
(* A batch of a few commands for TLC.                                      *)
EXTENDS IpBatch

Setting(echo, faults) == [echo |-> echo, faults |-> faults, peers |-> FALSE, requests |-> MaxSeq]

WithEcho == {Setting(TRUE, FALSE)}

=============================================================================
