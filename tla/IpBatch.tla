------------------------------ MODULE IpBatch -------------------------------
(***************************************************************************)
(* "ip -batch": one netlink handle is opened, every line of the file is a  *)
(* command that makes a call on it (Rtnl), and do_batch turns the return   *)
(* codes of the commands into the exit code of the program.                *)
(***************************************************************************)
EXTENDS Rtnl

VARIABLES
  force,   \* -force was given
  ret,     \* the exit code so far
  stopped  \* do_batch has left its loop

batchVars == <<vars, force, ret, stopped>>

\* The command that just returned failed: do_batch notes it, and without -force
\* reads no further line.
SettleLast ==
  IF last' # last /\ last'.call # NoCall
  THEN /\ ret' = IF last'.code = "fail" THEN "EXIT_FAILURE" ELSE "EXIT_SUCCESS"
       /\ stopped' = (last'.code = "fail" /\ ~force)
  ELSE UNCHANGED <<ret, stopped>>
Settle ==
  IF last' # last /\ last'.call # NoCall /\ last'.code = "fail"
  THEN ret' = "EXIT_FAILURE" /\ stopped' = ~force
  ELSE UNCHANGED <<ret, stopped>>

\* do_batch reads a line and calls the command, which sends a request.
Command ==
  /\ ~stopped
  /\ \/ rtnl_talk
     \/ rtnl_echo_talk
     \/ rtnl_dump_request(FALSE, FALSE)
  /\ Settle
  /\ UNCHANGED force

Run == (Receive \/ RecvFails) /\ Settle /\ UNCHANGED force

\* The handle cannot be opened: batch fails before it reads a line.
BatchOpen ==
  /\ rtnl_open
  /\ ret' = IF pc' = "closed" THEN "EXIT_FAILURE" ELSE ret
  /\ UNCHANGED <<force, stopped>>

\* The last line has been run, or the loop was left.
BatchEnd ==
  /\ rtnl_close
  /\ stopped' = TRUE
  /\ UNCHANGED <<force, ret>>

BatchInit ==
  /\ Init
  /\ force \in BOOLEAN
  /\ ret = "EXIT_SUCCESS"
  /\ stopped = FALSE

BatchNext == (BatchOpen \/ Command \/ Run \/ BatchEnd) /\ seq' <= set.requests /\ UNCHANGED set

BatchSpec == BatchInit /\ [][BatchNext]_batchVars /\ WF_batchVars(Run /\ UNCHANGED set)

----------------------------------------------------------------------------

Refused == {s \in 1..MaxSeq : outcome[s] = "fail"}

\* If the kernel refused any command of the batch, the exit code is not zero
\* (do_batch; "-force" in ip(8)).
ExitCodeReportsErrors ==
  pc = "closed" /\ Refused # {} => ret = "EXIT_FAILURE"

\* Without -echo this is so, whichever of the calls end early: a batch of which the kernel
\* refused any command does not exit with 0 (do_batch).
BatchReportsErrors == stopped /\ ~set.echo => ExitCodeReportsErrors

=============================================================================
