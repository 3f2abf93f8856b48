------------------------------ MODULE LinkBatch -----------------------------
(***************************************************************************)
(* "ip -batch" commands that name devices: one process, one link cache for *)
(* all commands, no notifications.  "ip link set/del" and "ip link add" are*)
(* iplink_modify, "ip link property" is iplink_prop_mod, and any other     *)
(* command that takes or prints a device looks it up or lists it.          *)
(***************************************************************************)
EXTENDS LlMap

CONSTANT MaxCommands
ASSUME BatchAssumption == MaxCommands \in Nat

VARIABLES
  behind,    \* history: the devices that have lost a name without the cache being told
  commands   \* commands run so far

linkBatchVars == <<kern, cache, behind, commands>>

\* A command looks a device up by name (ll_name_to_index).
ByName(n) ==
  /\ cache' = CacheAfterName(n)
  /\ UNCHANGED <<kern, behind>>

\* A command prints the name of a device (ll_index_to_name).
ByIndex(i) ==
  /\ cache' = CacheAfterIndex(i)
  /\ UNCHANGED <<kern, behind>>

\* "ip address" and "ip link" list the devices (store_nlmsg); AF_BRIDGE tells no
\* alternative names.
Listed(i) ==
  /\ kern[i] # NoLink
  /\ \E l \in {kern[i], [kern[i] EXCEPT !.alts = <<>>]} : cache' = ll_remember_index(cache, i, l)
  /\ UNCHANGED <<kern, behind>>

Gone(S) == [i \in Indexes |-> IF i \in S THEN NoLink ELSE kern[i]]

\* iplink_modify of the device named n: it is renamed, or leaves this namespace
\* (deleted, or moved to another one), or something else of it changes.  With a
\* device others may go: the peer, the VLANs on top of it.  The kernel may refuse
\* the request, and does for a device it does not know.
iplink_modify(n) ==
  LET i == ll_name_to_index(n) IN
  /\ i # 0
  /\ \/ /\ kern[i] # NoLink
        /\ \/ /\ \E l \in Renamed(i) \cup {kern[i]} : kern' = [kern EXCEPT ![i] = l]
              /\ UNCHANGED behind
           \/ \E S \in SUBSET (Indexes \ {i}) :
                /\ kern' = Gone(S \cup {i})
                /\ behind' = behind \cup S \cup (IF kern[i].alts = <<>> THEN {} ELSE {i})
        /\ cache' = ll_drop_by_index(CacheAfterName(n), i)
     \/ /\ cache' = CacheAfterName(n)
        /\ UNCHANGED <<kern, behind>>

\* iplink_modify of a group: ifi_index is 0, and none of the devices that leave the
\* namespace is dropped.  Nor is a device dropped that "ip tunnel del" or "ip tuntap
\* del" removes.
GroupModify(S) ==
  /\ kern' = Gone(S)
  /\ behind' = behind \cup S
  /\ UNCHANGED cache

\* iplink_modify of a new device, in this namespace or another: ifi_index is the "index"
\* asked for, or 0 and nothing is dropped.  (A "link" is looked up first: see ByName.)
IplinkAdd(i) ==
  /\ \/ kern[i] = NoLink /\ \E l \in Created : kern' = [kern EXCEPT ![i] = l]
     \/ UNCHANGED kern
  /\ cache' \in {cache, ll_drop_by_index(cache, i)}
  /\ UNCHANGED behind

\* The cache is not told of the changed alternative names.
iplink_prop_mod(n) ==
  LET i == ll_name_to_index(n) IN
  /\ i # 0 /\ kern[i] # NoLink
  /\ \/ \E l \in AltAdded(i) : kern' = [kern EXCEPT ![i] = l] /\ UNCHANGED behind
     \/ \E l \in AltDeleted(i) : kern' = [kern EXCEPT ![i] = l] /\ behind' = behind \cup {i}
  /\ cache' = CacheAfterName(n)

\* Another process changes a device.
Elsewhere(i) ==
  /\ kern[i] # NoLink
  /\ \E l \in {NoLink} \cup Renamed(i) \cup AltDeleted(i) : kern' = [kern EXCEPT ![i] = l]
  /\ behind' = behind \cup {i}
  /\ UNCHANGED cache

LinkBatchInit ==
  /\ kern \in FirstLinks
  /\ cache = <<>>
  /\ behind = {}
  /\ commands = 0

LinkBatchNext ==
  /\ commands < MaxCommands
  /\ commands' = commands + 1
  /\ \/ \E n \in Names : ByName(n) \/ iplink_modify(n) \/ iplink_prop_mod(n)
     \/ \E i \in Indexes : ByIndex(i) \/ Listed(i) \/ IplinkAdd(i) \/ Elsewhere(i)
     \/ \E S \in SUBSET Indexes : GroupModify(S)

LinkBatchSpec == LinkBatchInit /\ [][LinkBatchNext]_linkBatchVars

----------------------------------------------------------------------------

\* A name found in the cache is a name of the device it leads to, unless that device has lost a
\* name in a way that iplink_modify does not drop it for: iplink_modify drops the device it
\* changed, so of the devices that only "ip link set", "ip link del" and "ip link add" change,
\* no name in the cache outlives a rename, a deletion or a move, and no command works on
\* another device than the one it names.
BatchNamesRight ==
  \A n \in Names : LET j == ll_get_by_name(cache, n) IN
    j # 0 => cache[j].index \in behind \/ n \in NamesOf(kern[cache[j].index])

=============================================================================
