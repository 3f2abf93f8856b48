-------------------------------- MODULE MCIp --------------------------------
(* The commands of ip for TLC.  A behaviour is that of one program: the    *)
(* monitor, a batch of "ip link" commands, a flush, several "ip netns" at  *)
(* once, "ip netns pids" or identify, or "ip route restore".               *)
EXTENDS LinkMonitor, LinkBatch, MCFlush, Netns, NsScan, MCRouteRestore

VARIABLE program

Programs == {"monitor", "link batch", "flush", "netns", "netns scan", "route restore"}

\* "a" and "b" share a bucket, "c" has one of its own.
HashColliding == [n \in Names |-> IF n = "b" THEN "a" ELSE n]

\* A link of another namespace: gone, or there under two names of this one.
OtherNamespace == {NoLink, [name |-> "a", alts |-> <<"c">>]}

NetnsSetting(ops, all, flocks, faults) ==
  [ops |-> ops, all |-> all, flocks |-> flocks, faults |-> faults]
NetnsSettings ==
  {NetnsSetting({"add", "attach"}, {}, TRUE, TRUE), NetnsSetting({"add", "delete"}, {}, TRUE, TRUE),
   NetnsSetting({"add", "delete all"}, {"q"}, TRUE, TRUE), NetnsSetting({"add"}, {}, FALSE, FALSE)}

monitorOnly == <<phase, todo, sockq, overrun, changes, missed, heard>>
batchOnly == <<behind, commands>>
linkVars == <<kern, cache, monitorOnly, batchOnly>>
allVars == <<program, linkVars, vars, netnsVars, scanVars, restoreVars>>

InMonitor(A) ==
  program = "monitor" /\ A /\ UNCHANGED <<program, batchOnly, vars, netnsVars, scanVars, restoreVars>>
InLinkBatch(A) ==
  program = "link batch" /\ A /\ UNCHANGED <<program, monitorOnly, vars, netnsVars, scanVars, restoreVars>>
InFlush(A) == program = "flush" /\ A /\ UNCHANGED <<program, linkVars, netnsVars, scanVars, restoreVars>>
InNetns(A) == program = "netns" /\ A /\ UNCHANGED <<program, linkVars, vars, scanVars, restoreVars>>
InScan(A) == program = "netns scan" /\ A /\ UNCHANGED <<program, linkVars, vars, netnsVars, restoreVars>>
InRestore(A) == program = "route restore" /\ A /\ UNCHANGED <<program, linkVars, vars, netnsVars, scanVars>>

\* Of what a program does not use, one state will do.
MCInit ==
  /\ program \in Programs
  /\ RestoreInit
  /\ program # "route restore" => saved = <<>> /\ fib = {}
  /\ MonitorInit
  /\ program = "monitor" => \A i \in Indexes : kern[i].alts = <<>>
  /\ program \notin {"monitor", "link batch"} => kern = [i \in Indexes |-> NoLink]
  /\ IF program = "link batch" THEN LinkBatchInit ELSE behind = Indexes /\ commands = 0
  /\ Init
  /\ program # "flush" => table = {} /\ cmd = Command("route", 0, FALSE)
  /\ NetnsInit
  /\ program # "netns" => set = NetnsSetting({"add"}, {}, FALSE, FALSE)
  /\ ScanInit
  /\ program # "netns scan" => \A t \in Tasks : task[t] = [ino |-> 1, gen |-> 1]

MCNext ==
  \/ InMonitor(MonitorNext) \/ InLinkBatch(LinkBatchNext) \/ InFlush(Next)
  \/ InNetns(NetnsNext) \/ InScan(ScanNext) \/ InRestore(RestoreNext)

MCSpec ==
  /\ MCInit /\ [][MCNext]_allVars
  /\ WF_allVars(InFlush(Loop /\ UNCHANGED cmd))
  /\ \A p \in Procs : WF_allVars(InNetns(Step(p) /\ UNCHANGED set))

=============================================================================
