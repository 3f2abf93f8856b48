------------------------------ MODULE MCFlush -------------------------------
(* Instances of Flush.                                                     *)
EXTENDS Flush

Command(kind, limit, primary) == [kind |-> kind, limit |-> limit, primary |-> primary]

AllCommands ==
  {Command(k, 0, FALSE) : k \in {"route", "addr", "tcp_metrics", "policy", "state"}}
    \cup {Command("neigh", 2, FALSE), Command("addr", 2, FALSE), Command("addr", 0, TRUE)}

AddressFlush == {Command("addr", 0, FALSE)}

\* Deleting the first address deletes the second, a secondary of the same subnet.
DependentPair == [e \in Entries |-> IF e = 1 THEN {2} ELSE {}]

=============================================================================
