---------------------------- MODULE RouteRestore ----------------------------
(***************************************************************************)
(* "ip route restore" (ip/iproute.c): a file that "ip route save" wrote is *)
(* read three times, each time for the routes of one of three kinds, so    *)
(* that the routes others depend on come first.                            *)
(***************************************************************************)
EXTENDS Naturals, Sequences, FiniteSets

CONSTANTS
  SavedRoutes,   \* the routes that may have been saved: see Route
  MaxDeletions   \* routes that others delete during the restore

\* A file is finite.
ASSUME RestoreAssumption ==
  /\ \A S \in SUBSET SavedRoutes : Cardinality(S) \in Nat
  /\ MaxDeletions \in Nat

\* The attributes that matter: RTA_DST, RTA_PREFSRC, RTA_GATEWAY and the gateways of
\* RTA_MULTIPATH.  An address or a network is a number; the address a is in the network
\* Net(a), and "none" is 0.
Route(dst, src, gw, hops) == [dst |-> dst, src |-> src, gw |-> gw, hops |-> hops]
Net(a) == 10 * (a \div 10)

VARIABLES
  saved,       \* the messages of the dump
  fib,         \* the routes the kernel has
  prio,        \* the pass
  next,        \* the message that is read next
  status,      \* iproute_restore: "running", or what it returned
  deletions,
  lost         \* history: routes that were restored and deleted since

restoreVars == <<saved, fib, prio, next, status, deletions, lost>>

----------------------------------------------------------------------------
(* The kernel.                                                             *)

\* A gateway is reached by a route without one, a source is a local address.
Reached(g, T) == \E r \in T : r.gw = 0 /\ r.hops = {} /\ r.dst = Net(g)
Valid(r, T) ==
  /\ r.gw # 0 => Reached(r.gw, T)
  /\ \A h \in r.hops : Reached(h, T)
  /\ r.src \notin {0, r.dst} => \E l \in T : l.dst = r.src /\ l.src = r.src

\* What can have been saved.
Consistent(T) == \A r \in T : Valid(r, T)

\* The files T is saved to: every route once, in any order.
SavedFiles(T) ==
  LET order == 1..Cardinality(T)
  IN {d \in [order -> T] : \A r \in T : \E i \in order : d[i] = r}

----------------------------------------------------------------------------
(* The restore.                                                            *)

rtattr_cmp(a, b) == a = 0 \/ b = 0 \/ a # b

\* restore_handler: 0. local addresses, 1. local networks, 2. others.
TurnNoNetworks(r, p) ==
  \/ p = 0 /\ r.gw = 0 /\ (r.src = 0 \/ ~rtattr_cmp(r.src, r.dst))
  \/ p = 2 /\ r.gw # 0
Turn(r, p) ==
  \/ p = 0 /\ r.gw = 0 /\ (r.src = 0 \/ ~rtattr_cmp(r.src, r.dst))
  \/ p = 1 /\ r.gw = 0 /\ r.src # 0 /\ rtattr_cmp(r.src, r.dst)
  \/ p = 2 /\ r.gw # 0

\* rtnl_talk; EEXIST is not an error.
Accepted(r) == r \in fib \/ Valid(r, fib)

Reading == status = "running" /\ next <= Len(saved)

SkipMessage ==
  /\ Reading
  /\ ~Turn(saved[next], prio)
  /\ next' = next + 1
  /\ UNCHANGED <<saved, fib, prio, status, deletions, lost>>

RestoreMessage ==
  /\ Reading
  /\ Turn(saved[next], prio)
  /\ Accepted(saved[next])
  /\ fib' = fib \cup {saved[next]}
  /\ lost' = lost \ {saved[next]}
  /\ next' = next + 1
  /\ UNCHANGED <<saved, prio, status, deletions>>

\* The kernel refuses the route: rtnl_from_file returns the error at once.
RestoreRefused ==
  /\ Reading
  /\ Turn(saved[next], prio)
  /\ ~Accepted(saved[next])
  /\ status' = "failed"
  /\ UNCHANGED <<saved, fib, prio, next, deletions, lost>>

\* The end of the file: fseek, and the next pass.
NextPass ==
  /\ status = "running" /\ next > Len(saved)
  /\ IF prio < 2 THEN prio' = prio + 1 /\ next' = 1 /\ UNCHANGED status
     ELSE status' = "done" /\ UNCHANGED <<prio, next>>
  /\ UNCHANGED <<saved, fib, deletions, lost>>

\* Another process deletes a route.
DeleteRoute(r) ==
  /\ status = "running" /\ deletions < MaxDeletions
  /\ r \in fib
  /\ fib' = fib \ {r}
  /\ lost' = lost \cup {r}
  /\ deletions' = deletions + 1
  /\ UNCHANGED <<saved, prio, next, status>>

RestoreInit ==
  /\ \E S \in SUBSET SavedRoutes : Consistent(S) /\ saved \in SavedFiles(S)
  /\ fib \in {{}} \cup {{r} : r \in {r \in SavedRoutes : Valid(r, {r})}}
  /\ prio = 0 /\ next = 1 /\ status = "running" /\ deletions = 0 /\ lost = {}

RestoreStep == SkipMessage \/ RestoreMessage \/ RestoreRefused \/ NextPass
RestoreNext == RestoreStep \/ \E r \in fib : DeleteRoute(r)

RestoreSpec == RestoreInit /\ [][RestoreNext]_restoreVars

----------------------------------------------------------------------------
(* Properties.                                                             *)

\* "Restore routes in correct order": whatever the order in the file, no route comes
\* before the ones it needs, so the kernel refuses none unless somebody deletes routes.
RestoredInOrder == deletions = 0 => status # "failed"

\* A restore in that order succeeds unless somebody deletes routes, and one that reports
\* success has restored every route of the file that nobody has deleted since: the three
\* passes leave no kind of route out and send none too early.
RestoreComplete ==
  /\ RestoredInOrder
  /\ status = "done" => \A i \in DOMAIN saved : saved[i] \in fib \cup lost

=============================================================================
