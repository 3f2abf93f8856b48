----------------------------- MODULE MCSsOutput -----------------------------
(* Output buffers for SsOutput: with a column switched off or none, with   *)
(* rows whose first field is empty, and with a column that may be empty.   *)
EXTENDS SsOutput

OutSetup(off, free, assoc, limit) ==
  [disabled |-> off, free |-> free, assoc |-> assoc, chunks |-> limit]
OutSetups == {OutSetup({}, {}, FALSE, 2), OutSetup({1}, {}, FALSE, 2), OutSetup({2}, {2}, FALSE, 2),
              OutSetup({}, {}, TRUE, 2), OutSetup({}, {2}, FALSE, 1)}

=============================================================================
