-------------------------------- MODULE Arpd --------------------------------
(***************************************************************************)
(* arpd (misc/arpd.c): the poll loop, its two handlers, the database and   *)
(* the signals.  Between sigsetjmp and the end of main a signal that finds *)
(* in_poll set jumps back to the head of the loop; otherwise its handler   *)
(* only sets a flag.  The handlers of messages run with in_poll cleared,   *)
(* so each of them is one step.                                            *)
(*                                                                         *)
(* One clock stands for time() and gettimeofday(), one address space for   *)
(* the pairs of interface and address.                                     *)
(***************************************************************************)
EXTENDS ArpdProbe, Sequences, FiniteSets

CONSTANTS
  Addrs,             \* the keys of the database
  Watched,           \* those on the interfaces of the command line
  Macs,
  active_probing,
  negative_timeout,
  Interfaces,        \* interfaces are given on the command line
  Budgets            \* bounds on the messages and packets, and on the signals

ASSUME ArpdAssumption ==
  /\ Watched \subseteq Addrs
  /\ {active_probing, negative_timeout} \subseteq Nat
  /\ Budgets \subseteq [events : Nat, signals : Nat]
  /\ Interfaces \in BOOLEAN
  /\ ~Interfaces => Watched = Addrs

VARIABLES
  budget,
  db, disk,          \* the database, and what of it is on disk
  kernq, arpq,       \* the netlink socket and the packet socket
  pc,                \* where main is
  revents,           \* the sockets poll found readable
  in_poll, do_exit, do_sync, do_stats,
  sysctl_adjusted,
  closes,            \* calls of dbase->close
  events, signals,
  heard,             \* the address last heard and not withdrawn since
  told,              \* what respond_to_kernel said, and what was heard then
  hup,               \* a SIGHUP asks for data that is not on disk
  late               \* a signal came after the loop was left

flags == <<in_poll, do_exit, do_sync, do_stats>>
mainVars == <<disk, sysctl_adjusted, closes, hup>>
ghosts == <<heard, told>>
inputs == <<kernq, arpq, events>>
arpdVars == <<budget, now, probeVars, db, pc, revents, flags, mainVars, ghosts, inputs, signals, late>>

None == [kind |-> "none", mac |-> "", stamp |-> 0, cnt |-> 0]
Mac(m) == [kind |-> "mac", mac |-> m, stamp |-> 0, cnt |-> 0]
prepare_neg_entry == [kind |-> "neg", mac |-> "", stamp |-> now, cnt |-> 0]

NEG_VALID(e) == now - e.stamp < negative_timeout

Done == [type |-> "done", addr |-> "", arg |-> ""]
GetNeigh(a, state) == [type |-> "get", addr |-> a, arg |-> state]
NewNeigh(a, m) == [type |-> "new", addr |-> a, arg |-> m]

----------------------------------------------------------------------------
(* The world.                                                              *)

\* The kernel asks for an address it does not know ("incomplete") or whose
\* unicast probes failed ("probe"), or tells of one it resolved or gave up.
KernelMessage ==
  /\ events < budget.events /\ pc # "exit"
  /\ \E a \in Addrs :
       \E m \in {GetNeigh(a, "incomplete"), GetNeigh(a, "probe"), NewNeigh(a, "failed")}
                  \cup {NewNeigh(a, x) : x \in Macs} : kernq' = Append(kernq, m)
  /\ events' = events + 1
  /\ UNCHANGED <<now, probeVars, db, pc, revents, flags, mainVars, ghosts, arpq, signals, late>>

ArpPacket ==
  /\ events < budget.events /\ pc # "exit"
  /\ \E a \in Addrs, m \in Macs : arpq' = Append(arpq, [addr |-> a, mac |-> m])
  /\ events' = events + 1
  /\ UNCHANGED <<now, probeVars, db, pc, revents, flags, mainVars, ghosts, kernq, signals, late>>

Time ==
  /\ Tick /\ pc # "exit"
  /\ UNCHANGED <<probeVars, db, pc, revents, flags, mainVars, ghosts, inputs, signals, late>>

\* sig_exit, sig_sync, sig_stats.
Leaving == {"undo", "close", "closing"}
Signal ==
  /\ signals < budget.signals /\ pc # "exit"
  /\ signals' = signals + 1
  /\ \E s \in {"SIGTERM", "SIGHUP", "SIGUSR1"} :
       /\ do_exit' = (do_exit \/ s = "SIGTERM")
       /\ do_sync' = (do_sync \/ s \in {"SIGHUP", "SIGUSR1"})
       /\ do_stats' = (do_stats \/ s = "SIGUSR1")
       /\ hup' = (hup \/ (s = "SIGHUP" /\ disk # db))
  /\ pc' = IF in_poll THEN "top" ELSE pc
  /\ late' = (late \/ pc \in Leaving)
  /\ UNCHANGED <<now, probeVars, db, revents, in_poll, disk, sysctl_adjusted, closes,
                 ghosts, inputs>>

----------------------------------------------------------------------------
(* The handlers.                                                           *)

\* The address of a packet replaces what the database holds.
get_arp_pkt ==
  /\ pc = "arp"
  /\ arpq' = Tail(arpq)
  /\ LET p == Head(arpq) IN
     IF p.addr \in Watched
     THEN /\ db' = [db EXCEPT ![p.addr] = Mac(p.mac)]
          /\ heard' = [heard EXCEPT ![p.addr] = p.mac]
     ELSE UNCHANGED <<db, heard>>
  /\ pc' = IF "kern" \in revents THEN "kern" ELSE "top"
  /\ UNCHANGED <<now, probeVars, revents, flags, mainVars, told, kernq, events,
                 signals, late>>

\* do_one_request: the answer to the dump is complete.
DumpDone(m) ==
  /\ m.type = "done"
  /\ disk' = db /\ hup' = FALSE
  /\ sysctl_adjusted' = (sysctl_adjusted \/ Interfaces)
  /\ UNCHANGED <<db, probeVars, heard, told>>

Probe == active_probing > 0 /\ queue_active_probe
NoProbe == active_probing = 0 /\ UNCHANGED probeVars
WasSent == sent' # sent

\* RTM_GETNEIGH, NUD_PROBE: the entry is withdrawn.
WithdrawNothing(a) == UNCHANGED db
Withdraw(a) == db' = [db EXCEPT ![a] = None]
AskedProbe(m) ==
  /\ m.type = "get" /\ m.arg = "probe"
  /\ Withdraw(m.addr)
  /\ Probe \/ NoProbe
  /\ heard' = [heard EXCEPT ![m.addr] = ""]
  /\ UNCHANGED <<told, disk, hup, sysctl_adjusted>>

\* RTM_GETNEIGH, NUD_INCOMPLETE: what the database knows, silence for a recent
\* negative entry whose probes are used up, or a probe, which is counted in a
\* recent negative entry.
UsedUp(e) == e.cnt >= active_probing
Account(a) == db' = [db EXCEPT ![a].cnt = @ + 1]
AskedIncomplete(m) ==
  LET e == db[m.addr]
      recent == e.kind = "neg" /\ NEG_VALID(e) IN
  /\ m.type = "get" /\ m.arg = "incomplete"
  /\ \/ /\ e.kind = "mac"
        /\ told' = [said |-> e.mac, heard |-> heard[m.addr]]
        /\ UNCHANGED <<db, probeVars>>
     \/ /\ recent /\ UsedUp(e)
        /\ UNCHANGED <<db, probeVars, told>>
     \/ /\ e.kind # "mac" /\ ~(recent /\ UsedUp(e))
        /\ Probe \/ NoProbe
        /\ IF recent /\ WasSent
           THEN Account(m.addr)
           ELSE UNCHANGED db
        /\ UNCHANGED told
  /\ UNCHANGED <<heard, disk, hup, sysctl_adjusted>>

\* RTM_NEWNEIGH: NUD_FAILED makes or renews a negative entry, an address is
\* entered.
Failed(m) ==
  LET e == db[m.addr] IN
  /\ m.type = "new" /\ m.arg = "failed"
  /\ IF e.kind = "neg" /\ NEG_VALID(e) THEN UNCHANGED db
     ELSE db' = [db EXCEPT ![m.addr] = prepare_neg_entry]
  /\ heard' = [heard EXCEPT ![m.addr] = ""]
  /\ UNCHANGED <<probeVars, told, disk, hup, sysctl_adjusted>>

Resolved(m) ==
  /\ m.type = "new" /\ m.arg \in Macs
  /\ db' = [db EXCEPT ![m.addr] = Mac(m.arg)]
  /\ heard' = [heard EXCEPT ![m.addr] = m.arg]
  /\ UNCHANGED <<probeVars, told, disk, hup, sysctl_adjusted>>

NotWatched(m) ==
  /\ m.type # "done" /\ m.addr \notin Watched
  /\ UNCHANGED <<db, probeVars, heard, told, disk, hup, sysctl_adjusted>>

do_one_request(m) ==
  \/ DumpDone(m)
  \/ NotWatched(m)
  \/ /\ m.addr \in Watched
     /\ AskedProbe(m) \/ AskedIncomplete(m) \/ Failed(m) \/ Resolved(m)

get_kern_msg ==
  /\ pc = "kern"
  /\ kernq' = Tail(kernq)
  /\ do_one_request(Head(kernq))
  /\ pc' = "top"
  /\ UNCHANGED <<now, revents, flags, closes, arpq, events, signals, late>>

----------------------------------------------------------------------------
(* The loop of main.                                                       *)

LoopTopSyncFirst ==
  /\ pc = "top"
  /\ in_poll' = ~do_sync
  /\ pc' = CASE do_sync -> "sync"
             [] ~do_sync /\ do_exit -> "undo"
             [] OTHER -> IF do_stats THEN "stats" ELSE "poll"
  /\ UNCHANGED <<now, probeVars, db, revents, do_exit, do_sync, do_stats, mainVars,
                 ghosts, inputs, signals, late>>
LoopTop ==
  /\ pc = "top"
  /\ in_poll' = (do_exit \/ ~do_sync)
  /\ pc' = CASE do_exit -> "undo"
             [] ~do_exit /\ do_sync -> "sync"
             [] OTHER -> IF do_stats THEN "stats" ELSE "poll"
  /\ UNCHANGED <<now, probeVars, db, revents, do_exit, do_sync, do_stats, mainVars,
                 ghosts, inputs, signals, late>>

SyncDropped ==
  /\ pc = "sync"
  /\ pc' = "synced"
  /\ UNCHANGED <<now, probeVars, db, revents, flags, mainVars, ghosts, inputs, signals, late>>
Sync ==
  /\ pc = "sync"
  /\ disk' = db /\ hup' = FALSE
  /\ pc' = "synced"
  /\ UNCHANGED <<now, probeVars, db, revents, flags, sysctl_adjusted, closes, ghosts,
                 inputs, signals, late>>

Synced ==
  /\ pc = "synced"
  /\ do_sync' = FALSE
  /\ in_poll' = TRUE
  /\ pc' = IF do_stats THEN "stats" ELSE "poll"
  /\ UNCHANGED <<now, probeVars, db, revents, do_exit, do_stats, mainVars, ghosts, inputs,
                 signals, late>>

send_stats ==
  /\ pc = "stats"
  /\ do_stats' = FALSE
  /\ pc' = "poll"
  /\ UNCHANGED <<now, probeVars, db, revents, in_poll, do_exit, do_sync, mainVars, ghosts,
                 inputs, signals, late>>

Ready == (IF arpq # <<>> THEN {"arp"} ELSE {}) \cup (IF kernq # <<>> THEN {"kern"} ELSE {})

PollReady ==
  /\ pc = "poll" /\ Ready # {}
  /\ revents' = Ready
  /\ in_poll' = FALSE
  /\ pc' = IF "arp" \in Ready THEN "arp" ELSE "kern"
  /\ UNCHANGED <<now, probeVars, db, do_exit, do_sync, do_stats, mainVars, ghosts, inputs,
                 signals, late>>

PollTimeout ==
  /\ pc = "poll" /\ Ready = {}
  /\ do_sync' = TRUE
  /\ pc' = "top"
  /\ UNCHANGED <<now, probeVars, db, revents, in_poll, do_exit, do_stats, mainVars, ghosts,
                 inputs, signals, late>>

\* The loop is left with in_poll set: a signal still jumps back into it.
UndoNothing ==
  /\ pc = "undo"
  /\ pc' = "close"
  /\ UNCHANGED <<now, probeVars, db, revents, flags, mainVars, ghosts, inputs, signals, late>>
undo_sysctl_adjustments ==
  /\ pc = "undo"
  /\ sysctl_adjusted' = FALSE
  /\ pc' = "close"
  /\ UNCHANGED <<now, probeVars, db, revents, flags, disk, closes, hup, ghosts, inputs,
                 signals, late>>

CloseBegins ==
  /\ pc = "close"
  /\ closes' = closes + 1
  /\ pc' = "closing"
  /\ UNCHANGED <<now, probeVars, db, revents, flags, disk, sysctl_adjusted, hup, ghosts,
                 inputs, signals, late>>

CloseEnds ==
  /\ pc = "closing"
  /\ disk' = db /\ hup' = FALSE
  /\ pc' = "exit"
  /\ UNCHANGED <<now, probeVars, db, revents, flags, sysctl_adjusted, closes, ghosts,
                 inputs, signals, late>>

----------------------------------------------------------------------------

\* The sockets are open, the dump of the kernel's table has been asked for.  Entries
\* of an earlier arpd that are not watched are neither read nor changed.
ArpdInit ==
  /\ budget \in Budgets
  /\ ProbeInit
  /\ db \in {f \in [Addrs -> {None} \cup {Mac(m) : m \in Macs}] :
              \A a \in Addrs \ Watched : f[a] = None}
  /\ disk = db
  /\ \/ kernq = <<Done>>
     \/ \E a \in Addrs, m \in Macs : kernq = <<NewNeigh(a, m), Done>>
  /\ arpq = <<>>
  /\ pc = "top" /\ revents = {}
  /\ in_poll = FALSE /\ do_exit = FALSE /\ do_sync = FALSE /\ do_stats = FALSE
  /\ sysctl_adjusted = FALSE /\ closes = 0
  /\ events = 0 /\ signals = 0
  /\ heard = [a \in Addrs |-> db[a].mac]
  /\ told = [said |-> "", heard |-> ""]
  /\ hup = FALSE /\ late = FALSE

Main ==
  \/ LoopTop \/ Sync \/ Synced \/ send_stats \/ PollReady \/ PollTimeout
  \/ get_arp_pkt \/ get_kern_msg
  \/ undo_sysctl_adjustments \/ CloseBegins \/ CloseEnds

ArpdNext == (Main \/ KernelMessage \/ ArpPacket \/ Time \/ Signal) /\ UNCHANGED budget

\* poll returns when a socket is readable, and after poll_timeout at the latest.
ArpdSpec == ArpdInit /\ [][ArpdNext]_arpdVars /\ WF_arpdVars(Main /\ UNCHANGED budget)

----------------------------------------------------------------------------

\* arpd answers the kernel with the address heard last, from either socket, and
\* never with one the kernel has since found dead (do_one_request).
KernelToldHeard == told.said = told.heard

\* What the database held at a SIGHUP is on disk when do_sync is reset: a signal
\* during the sync is not lost, although the flag it sets is.
SyncKept == ~do_sync => ~hup

\* Unless a signal comes after main has left its loop, arpd exits with the database
\* on disk, closed once, and the sysctls restored.
ExitsGracefully ==
  pc = "exit" /\ ~late => disk = db /\ closes = 1 /\ ~sysctl_adjusted

\* "When arpd receives a SIGINT or SIGTERM signal, it exits gracefully, syncing the
\* database and restoring adjusted sysctl parameters" (arpd(8)): dbase->close is
\* called once.
Graceful == pc = "exit" => disk = db /\ closes = 1 /\ ~sysctl_adjusted

\* A SIGTERM ends arpd, also one that comes while in_poll is reset.
Exits == do_exit ~> pc = "exit"

=============================================================================
