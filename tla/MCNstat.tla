------------------------------ MODULE MCNstat -------------------------------
(* Instances of Nstat.                                                     *)
EXTENDS Nstat

Opt(match, ignore, noupdate, nooutput, reset) ==
  [match |-> match, ignore_history |-> ignore, no_update |-> noupdate,
   no_output |-> nooutput, reset_history |-> reset]

Plain == Opt(Counters, FALSE, FALSE, FALSE, FALSE)
NoUpdate == Opt(Counters, FALSE, TRUE, FALSE, FALSE)
NoOutput == Opt(Counters, FALSE, FALSE, TRUE, FALSE)
Reset == Opt(Counters, FALSE, FALSE, FALSE, TRUE)
Absolute == Opt(Counters, TRUE, TRUE, FALSE, FALSE)
Restart == Opt(Counters, TRUE, FALSE, FALSE, FALSE)
OnlyFirst == Opt({1}, FALSE, FALSE, FALSE, FALSE)
RestartFirst == Opt({1}, TRUE, FALSE, FALSE, FALSE)

Setting(options, counting, nboots, daemons, children, crashes) ==
  [options |-> options, counting |-> counting, boots |-> nboots, daemons |-> daemons,
   children |-> children, crashes |-> crashes]

\* The whole table with resets and a reboot; patterns; both with runs that print absolute
\* values and write the history (-a); a daemon that comes and goes and a reboot, with runs
\* that are killed; two daemons that are never busy, and one with runs that leave the
\* history alone (-a -s).
AllSettings ==
  {Setting({Plain, NoUpdate, NoOutput, Reset}, {1}, 1, {}, 1, FALSE),
   Setting({Plain, OnlyFirst}, {1, 2}, 0, {}, 1, FALSE),
   Setting({OnlyFirst, RestartFirst}, {1, 2}, 0, {}, 1, FALSE),
   Setting({Plain, Restart}, {1}, 1, {"root"}, 3, FALSE),
   Setting({Plain}, {1}, 1, {"root"}, 1, TRUE),
   Setting({Plain}, {1}, 0, {"user", "root"}, 3, FALSE),
   Setting({Plain, Absolute}, {1}, 0, {"root"}, 3, FALSE)}

BusyDaemon == {Setting({Plain}, {1}, 0, {"root"}, 1, FALSE)}

=============================================================================
