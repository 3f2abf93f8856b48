----------------------------- MODULE LinkMonitor ----------------------------
(***************************************************************************)
(* "ip monitor": one socket subscribed to the kernel's notifications, on   *)
(* which ll_init_map first dumps all links and rtnl_listen then reads the  *)
(* notifications, both feeding the link cache.  Notifications that come    *)
(* during the dump are in the same queue as the dump's messages.  Besides  *)
(* a change of a link, RTM_NEWLINK and RTM_DELLINK tell that a device has  *)
(* become or ceased to be the port of a bridge and, with "all-nsid", what  *)
(* becomes of the links of other namespaces.                               *)
(***************************************************************************)
EXTENDS LlMap

CONSTANTS
  OtherLinks,  \* what another namespace may tell of an index
  MaxChanges,  \* notifications while the monitor runs
  MaxQueue     \* messages the socket's receive buffer holds

ASSUME MonitorAssumption == OtherLinks \subseteq Links /\ MaxChanges \in Nat /\ MaxQueue \in Nat \ {0}

VARIABLES
  phase,    \* "dump": ll_init_map; "listen": rtnl_listen; "exit"
  todo,     \* the links the kernel has still to put into the dump
  sockq,    \* the socket's queue
  overrun,  \* the next recvmsg returns ENOBUFS
  changes,  \* notifications so far
  missed,   \* a notification has not reached the cache
  heard     \* history: whose message was the last to reach the entries of an index

monitorVars == <<kern, cache, phase, todo, sockq, overrun, changes, missed, heard>>

\* A message is about the link itself, about a port of a bridge (AF_BRIDGE), or comes from
\* another namespace.
Sources == {"link", "bridge", "other"}

Event(i, l, from) == [type |-> "event", index |-> i, link |-> l, from |-> from]
Dumped(i, l) == [type |-> "dump", index |-> i, link |-> l, from |-> "link"]
DumpDone == [type |-> "done", index |-> 0, link |-> NoLink, from |-> "link"]

\* What a message may say of link l: a bridge tells the name of its port without
\* IFLA_PROP_LIST, and the end of a port by RTM_DELLINK; another namespace tells of
\* any device that has the same index there.
Bare(l) == IF l = NoLink THEN NoLink ELSE [l EXCEPT !.alts = <<>>]
Said(from, l) == CASE from = "link" -> {l}
                   [] from = "bridge" -> {Bare(l), NoLink}
                   [] from = "other" -> OtherLinks

----------------------------------------------------------------------------
(* The kernel.                                                             *)

\* A notification; it is lost when the receive buffer is full.
Notify(m) ==
  /\ IF Len(sockq) < MaxQueue
     THEN sockq' = Append(sockq, m) /\ UNCHANGED <<overrun, missed>>
     ELSE overrun' = TRUE /\ missed' = TRUE /\ UNCHANGED sockq
  /\ changes' = changes + 1
  /\ UNCHANGED <<cache, phase, todo, heard>>

\* A link is created, deleted or changed.
KernelChange(i) ==
  /\ phase # "exit"
  /\ changes < MaxChanges
  /\ \E l \in IF kern[i] = NoLink THEN Created
              ELSE {NoLink} \cup Renamed(i) \cup AltAdded(i) \cup AltDeleted(i) :
       kern' = [kern EXCEPT ![i] = l] /\ Notify(Event(i, l, "link"))

\* Device i becomes or ceases to be the port of a bridge.
BridgeTells(i) ==
  /\ phase # "exit"
  /\ changes < MaxChanges
  /\ kern[i] # NoLink
  /\ \E l \in Said("bridge", kern[i]) : Notify(Event(i, l, "bridge"))
  /\ UNCHANGED kern

\* A link of another namespace changes, whose index there is i.
OtherTells(i) ==
  /\ phase # "exit"
  /\ changes < MaxChanges
  /\ \E l \in Said("other", kern[i]) : Notify(Event(i, l, "other"))
  /\ UNCHANGED kern

\* The kernel goes on with the dump, in the order of the indexes, while there
\* is room in the receive buffer.
KernelDump ==
  /\ phase = "dump"
  /\ Len(sockq) < MaxQueue
  /\ \/ \E i \in todo :
          /\ \A k \in todo : i <= k
          /\ todo' = todo \ {i}
          /\ sockq' = IF kern[i] = NoLink THEN sockq
                      ELSE Append(sockq, Dumped(i, kern[i]))
     \/ /\ todo = {}
        /\ \A j \in DOMAIN sockq : sockq[j] # DumpDone
        /\ sockq' = Append(sockq, DumpDone)
        /\ UNCHANGED todo
  /\ UNCHANGED <<kern, cache, phase, overrun, changes, missed, heard>>

----------------------------------------------------------------------------
(* The monitor.                                                            *)

\* ll_remember_index is given the message.
Remember(m) ==
  /\ cache' = ll_remember_index(cache, m.index, m.link)
  /\ heard' = [heard EXCEPT ![m.index] = m.from]

\* rtnl_dump_filter with ll_remember_index: a message that does not carry the
\* number of the dump is skipped, a notification included.
MonitorInitRead ==
  /\ phase = "dump" /\ ~overrun /\ sockq # <<>>
  /\ sockq' = Tail(sockq)
  /\ LET m == Head(sockq) IN
     /\ IF m.type = "dump" THEN Remember(m) ELSE UNCHANGED <<cache, heard>>
     /\ missed' = (missed \/ m.type = "event")
     /\ phase' = IF m = DumpDone THEN "listen" ELSE phase
  /\ UNCHANGED <<kern, todo, overrun, changes>>

\* The dump fails ("Dump terminated").
MonitorInitFails ==
  /\ phase = "dump" /\ overrun
  /\ phase' = "exit"
  /\ UNCHANGED <<kern, cache, todo, sockq, overrun, changes, missed, heard>>

\* rtnl_listen reports ENOBUFS and goes on without a new dump.
MonitorOverrun ==
  /\ phase = "listen" /\ overrun
  /\ overrun' = FALSE
  /\ UNCHANGED <<kern, cache, phase, todo, sockq, changes, missed, heard>>

\* accept_msg is given a notification of a link.
MonitorListen ==
  /\ phase = "listen" /\ ~overrun /\ sockq # <<>>
  /\ sockq' = Tail(sockq)
  /\ Remember(Head(sockq))
  /\ UNCHANGED <<kern, phase, todo, overrun, changes, missed>>

\* accept_msg prints a notification of an address, a route or a neighbour of
\* device i, whose name it asks for.
MonitorPrint(i) ==
  /\ phase = "listen" /\ ~overrun
  /\ cache' = CacheAfterIndex(i)
  /\ heard' = IF Cached(cache, i) \/ kern[i] = NoLink THEN heard ELSE [heard EXCEPT ![i] = "link"]
  /\ UNCHANGED <<kern, phase, todo, sockq, overrun, changes, missed>>

MonitorInit ==
  /\ kern \in FirstLinks
  /\ cache = <<>>
  /\ phase = "dump" /\ todo = Indexes
  /\ sockq = <<>> /\ overrun = FALSE
  /\ changes = 0 /\ missed = FALSE /\ heard = [i \in Indexes |-> "link"]

MonitorNext ==
  \/ \E i \in Indexes : KernelChange(i) \/ BridgeTells(i) \/ OtherTells(i) \/ MonitorPrint(i)
  \/ KernelDump
  \/ MonitorInitRead \/ MonitorInitFails \/ MonitorOverrun \/ MonitorListen

MonitorSpec == MonitorInit /\ [][MonitorNext]_monitorVars

----------------------------------------------------------------------------

Settled == phase = "listen" /\ sockq = <<>> /\ ~missed

\* The name of a renamed device that falls into the bucket of its new name:
\* ll_entry_update moves the entry but keeps the name it carries.
OldNameCollides(e, n) ==
  e.kind = "parent" /\ kern[e.index] # NoLink /\ Hash[n] = Hash[kern[e.index].name]

\* Once the monitor has read all notifications, and none was lost to a full
\* buffer or skipped during the dump, a name in the cache leads to the device
\* that has it: a deleted device is found under none of its names
\* (ll_entries_destroy), a renamed one under its old name only when the old and
\* the new name share a bucket (ll_entry_update).  Only the entry of an index of
\* which another namespace spoke last may carry a name of that namespace.
MonitorNamesRight ==
  Settled => \A n \in Names : LET j == ll_get_by_name(cache, n) IN
    j # 0 => \/ n \in NamesOf(kern[cache[j].index])
             \/ OldNameCollides(cache[j], n)
             \/ heard[cache[j].index] = "other"

\* ... and of the indexes of which the links themselves spoke last, the cache
\* holds exactly the devices there are, each with exactly its alternative names
\* (ll_altname_entries_update).  A bridge or another namespace that speaks last
\* takes the alternative names or the whole device out of the cache; the next
\* message of the link brings them back, and so does a lookup of a device that
\* is not in the cache.
MonitorCacheComplete ==
  Settled => \A i \in Indexes : heard[i] = "link" =>
    /\ Cached(cache, i) <=> kern[i] # NoLink
    /\ {cache[j].name : j \in {k \in DOMAIN cache : cache[k].index = i /\ cache[k].kind = "alt"}}
         = Alts(kern[i])

=============================================================================
