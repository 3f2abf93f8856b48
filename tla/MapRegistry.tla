----------------------------- MODULE MapRegistry ----------------------------
(***************************************************************************)
(* What pinning promises to the loaders of BPF objects: under a name there *)
(* is at most one map, and a loader that asks for the map of a name gets,  *)
(* in one step, the one that is there or one that nobody has had before    *)
(* and that is there from then on.                                         *)
(***************************************************************************)
EXTENDS Integers

CONSTANTS Clients, Keys, Maps

VARIABLES
  reg,   \* the map of each name, or 0
  held   \* the maps each client has got, with their names

regVars == <<reg, held>>

Nobody(m) == \A c \in Clients : \A k \in Keys : <<k, m>> \notin held[c] /\ reg[k] # m

Acquire(c, k, m) ==
  /\ m # 0
  /\ reg' = [reg EXCEPT ![k] = m]
  /\ held' = [held EXCEPT ![c] = @ \cup {<<k, m>>}]
  /\ reg[k] = m \/ (reg[k] = 0 /\ Nobody(m))

\* The map of a name is forgotten; those who have it keep it.
Forget(k) ==
  /\ reg[k] # 0
  /\ reg' = [reg EXCEPT ![k] = 0]
  /\ UNCHANGED held

RegInit == reg = [k \in Keys |-> 0] /\ held = [c \in Clients |-> {}]

RegNext == \/ \E c \in Clients, k \in Keys, m \in Maps : Acquire(c, k, m)
           \/ \E k \in Keys : Forget(k)

RegSpec == RegInit /\ [][RegNext]_regVars

=============================================================================
