--------------------------- MODULE BpfMapsProofs ----------------------------
(***************************************************************************)
(* For any number of loaders, objects and maps: pinning is atomic to the   *)
(* loaders (BpfMaps implements MapRegistry), loaders share the map of a    *)
(* name as long as nobody removes it, one retry is enough for a loader     *)
(* that lost a race, and the maps of maps are filled.                      *)
(*                                                                         *)
(* The first two rest on one invariant.  A map that has been created and   *)
(* not yet pinned is private: no name leads to it and no loader has        *)
(* attached it.  A loader that is about to attach a map has not attached   *)
(* one in its place before, so that what it holds only grows.              *)
(*                                                                         *)
(* RetryInv adds that a loader that probes again finds its name taken for  *)
(* good, by a map of the right shape.  OuterInv adds that a map of maps in *)
(* use has each of its inner maps, or some loader that holds it has yet to *)
(* enter the one that is missing.                                          *)
(***************************************************************************)
EXTENDS BpfMaps, TLAPS

Pcs == {"probe", "create", "pin", "insert", "done", "failed", "killed"}
Fds == UNION {[1..n -> Int] : n \in Nat}
LoadRec == [pc : Pcs, pass : {1, 2}, i : Nat, fds : Fds, new : Nat, have : Nat,
            retried : BOOLEAN]
MapRec == [spec : Nat, inner : Fds]

AtMap(r) == r.pc \in {"probe", "create", "pin", "insert"}

\* What holds of a loader by itself: l's object is o, and the kernel has n maps.
LoadOK(r, o, n) ==
  /\ r \in LoadRec
  /\ r.fds \in [1..Len(o) -> (-1)..n]
  /\ AtMap(r) => r.i \in 1..Len(o)
  /\ r.pc \in {"probe", "create", "pin"} /\ r.pass = 1 => \A k \in r.i..Len(o) : r.fds[k] = 0
  /\ r.pc \in {"create", "pin"} => r.fds[r.i] \in {-1, 0}
  /\ r.pc = "pin" => r.new \in 1..n /\ o[r.i].pin

\* The map that l has created is l's alone.
Private(l) ==
  /\ \A n \in MapNames : pins[n] # load[l].new
  /\ \A m \in Loaders : \A k \in DOMAIN Object(m) : load[m].fds[k] # load[l].new
  /\ \A m \in Loaders : m # l /\ load[m].pc = "pin" => load[m].new # load[l].new

\* What a loader has attached under a name is what the name leads to.
Sharing == removed = 0 =>
  \A l \in Loaders : \A k \in DOMAIN Object(l) :
    Object(l)[k].pin /\ load[l].fds[k] > 0 => pins[Object(l)[k].name] = load[l].fds[k]

BpfInv ==
  /\ bset \in BpfSetups
  /\ maps \in Seq(MapRec) /\ Len(maps) <= MaxMaps
  /\ pins \in [MapNames -> 0..Len(maps)]
  /\ removed \in Nat
  /\ load \in [Loaders -> LoadRec]
  /\ \A l \in Loaders : LoadOK(load[l], Object(l), Len(maps))
  /\ \A l \in Loaders : load[l].pc = "pin" => Private(l)
  /\ Sharing

----------------------------------------------------------------------------

\* The objects are sequences of maps whose names differ.
LEMMA ObjectType ==
  ASSUME bset \in BpfSetups, NEW l \in Loaders
  PROVE  /\ Object(l) \in Seq(MapDef)
         /\ Len(Object(l)) \in Nat
         /\ DOMAIN Object(l) = 1..Len(Object(l))
         /\ \A k \in DOMAIN Object(l) : Object(l)[k] \in MapDef
         /\ \A i, k \in DOMAIN Object(l) : Object(l)[i].name = Object(l)[k].name => i = k
  BY BpfAssumption DEF Object

\* Going on to the next map changes neither what is attached nor what was created, and
\* gets to a map of the object.
LEMMA NextMapKeeps ==
  ASSUME NEW l, NEW r \in LoadRec, Len(Object(l)) \in Nat, r.i \in 1..Len(Object(l)),
         r.pc \in {"probe", "insert"}, NEW q, q = NextMap(l, r)
  PROVE  /\ q \in LoadRec
         /\ q.fds = r.fds
         /\ q.pc \in {"probe", "insert", "done"}
         /\ AtMap(q) => q.i \in 1..Len(Object(l))
         /\ q.pc = "probe" /\ q.pass = 1 => r.pc = "probe" /\ r.pass = 1 /\ q.i = r.i + 1
<1>1. CASE r.i < Len(Object(l))
  BY <1>1 DEF NextMap, LoadRec, AtMap, Pcs
<1>2. CASE ~(r.i < Len(Object(l))) /\ (r.pc = "insert" \/ r.have = 0)
  BY Zenon, <1>2 DEF NextMap, LoadRec, AtMap, Pcs
<1>3. CASE ~(r.i < Len(Object(l))) /\ ~(r.pc = "insert" \/ r.have = 0) /\ r.pass = 1
  <2>1. q = [r EXCEPT !.i = 1, !.pass = 2]
    BY Zenon, <1>3 DEF NextMap
  <2>2. q \in LoadRec
    <3>1. [r EXCEPT !.i = 1] \in LoadRec
      BY Zenon DEF LoadRec
    <3>2. q = [[r EXCEPT !.i = 1] EXCEPT !.pass = 2]
      BY Zenon, <2>1 DEF LoadRec
    <3> QED
      BY <3>1, <3>2, Zenon DEF LoadRec
  <2>3. q.fds = r.fds /\ q.i = 1 /\ q.pass = 2 /\ q.pc = r.pc
    BY Zenon, <2>1 DEF LoadRec
  <2> QED
    BY <1>3, <2>2, <2>3 DEF AtMap
<1>4. CASE ~(r.i < Len(Object(l))) /\ ~(r.pc = "insert" \/ r.have = 0) /\ r.pass # 1
  <2>1. q = [r EXCEPT !.i = 1, !.pc = "insert"]
    BY Zenon, <1>4 DEF NextMap
  <2>2. q \in LoadRec
    <3>1. [r EXCEPT !.i = 1] \in LoadRec
      BY Zenon DEF LoadRec
    <3>2. q = [[r EXCEPT !.i = 1] EXCEPT !.pc = "insert"]
      BY Zenon, <2>1 DEF LoadRec
    <3> QED
      BY <3>1, <3>2, Zenon DEF LoadRec, Pcs
  <2>3. q.fds = r.fds /\ q.i = 1 /\ q.pc = "insert"
    BY Zenon, <2>1 DEF LoadRec
  <2> QED
    BY <1>4, <2>2, <2>3 DEF AtMap
<1> QED
  BY Zenon, <1>1, <1>2, <1>3, <1>4

FdsIn(f, len, n) == f \in [1..len -> (-1)..n]

\* The record of a loader that attaches the map m as the one it is at.
Bind(r, m) == [r EXCEPT !.fds[r.i] = m, !.pc = "probe", !.retried = FALSE]

\* Attaching a map changes the map at the loader's place and nothing else that it has.
LEMMA BindFields ==
  ASSUME NEW s \in LoadRec, NEW least \in Nat, NEW most \in Nat, NEW v \in 1..most, least <= most,
         NEW size \in Nat, s.i \in 1..size, FdsIn(s.fds, size, least)
  PROVE  /\ Bind(s, v) \in LoadRec
         /\ Bind(s, v).fds = [s.fds EXCEPT ![s.i] = v]
         /\ FdsIn(Bind(s, v).fds, size, most)
         /\ Bind(s, v).i = s.i /\ Bind(s, v).pc = "probe" /\ Bind(s, v).pass = s.pass
<1> DEFINE f == [s.fds EXCEPT ![s.i] = v]
<1>1. f \in [1..size -> (-1)..most]
  BY DEF FdsIn
<1>2. f \in Fds
  BY <1>1 DEF Fds
<1>3. [s EXCEPT !.fds = f] \in LoadRec
  BY Zenon, <1>2 DEF LoadRec
<1>4. [[s EXCEPT !.fds = f] EXCEPT !.pc = "probe"] \in LoadRec
  BY <1>3, Zenon DEF LoadRec, Pcs
<1>5. [[[s EXCEPT !.fds = f] EXCEPT !.pc = "probe"] EXCEPT !.retried = FALSE] \in LoadRec
  BY <1>4, Zenon DEF LoadRec
<1>6. Bind(s, v) = [[[s EXCEPT !.fds = f] EXCEPT !.pc = "probe"] EXCEPT !.retried = FALSE]
  BY Zenon DEF Bind, LoadRec
<1>7. /\ Bind(s, v).fds = f /\ Bind(s, v).i = s.i /\ Bind(s, v).pc = "probe"
      /\ Bind(s, v).pass = s.pass
  BY Zenon DEF Bind, LoadRec
<1> QED
  BY Zenon, <1>1, <1>5, <1>6, <1>7 DEF FdsIn

\* What holds of a loader by itself goes on holding when the kernel has more maps.
LEMMA LoadOKGrows ==
  ASSUME NEW r, NEW o, NEW n \in Nat, NEW p \in Nat, n <= p, LoadOK(r, o, n)
  PROVE  LoadOK(r, o, p)
<1>1. r.fds \in [1..Len(o) -> (-1)..p]
  BY DEF LoadOK
<1> QED
  BY <1>1 DEF LoadOK

\* A step of l that attaches nothing keeps the invariant, and nothing happens to the names
\* and to what the loaders hold.
LEMMA QuietStep ==
  ASSUME BpfInv, NEW l \in Loaders, NEW q, Upd(l, q),
         bset' = bset, maps' \in Seq(MapRec), Len(maps) <= Len(maps'), Len(maps') <= MaxMaps,
         pins' = pins, removed' = removed,
         \A i \in DOMAIN Object(l) : q.fds[i] = load[l].fds[i] \/ {q.fds[i], load[l].fds[i]} \subseteq {-1, 0},
         LoadOK(q, Object(l), Len(maps')),
         q.pc = "pin" => q.new = Len(maps) + 1
  PROVE  BpfInv' /\ Held' = Held
<1>1. Len(maps) \in Nat /\ Len(maps') \in Nat
  BY DEF BpfInv
<1>2. /\ load' \in [Loaders -> LoadRec]
      /\ load'[l] = q
      /\ \A k \in Loaders : k # l => load'[k] = load[k]
      /\ \A k \in Loaders : \A i \in DOMAIN Object(k) :
           load'[k].fds[i] = load[k].fds[i] \/ {load'[k].fds[i], load[k].fds[i]} \subseteq {-1, 0}
  BY DEF BpfInv, Upd, LoadOK
<1>3. \A k \in Loaders : Object(k)' = Object(k)
  BY Zenon DEF Object
<1>4. \A k \in Loaders : LoadOK(load'[k], Object(k)', Len(maps'))
  <2> SUFFICES ASSUME NEW k \in Loaders PROVE LoadOK(load'[k], Object(k), Len(maps'))
    BY Zenon, <1>3
  <2>1. CASE k = l
    BY Zenon, <2>1, <1>2
  <2>2. CASE k # l
    <3>1. LoadOK(load[k], Object(k), Len(maps))
      BY Zenon DEF BpfInv
    <3> QED
      BY Zenon, <2>2, <3>1, <1>1, <1>2, LoadOKGrows
  <2> QED
    BY Zenon, <2>1, <2>2
<1>5. \A k \in Loaders : load'[k].pc = "pin" => Private(k)'
  <2> SUFFICES ASSUME NEW k \in Loaders, load'[k].pc = "pin" PROVE Private(k)'
    BY Zenon
  <2>1. \A j \in Loaders : \A i \in DOMAIN Object(j) : load[j].fds[i] \in (-1)..Len(maps)
    <3> TAKE j \in Loaders
    <3>1. DOMAIN Object(j) = 1..Len(Object(j))
      BY Zenon, ObjectType DEF BpfInv
    <3>2. load[j].fds \in [1..Len(Object(j)) -> (-1)..Len(maps)]
      BY Zenon DEF BpfInv, LoadOK
    <3> QED
      BY Zenon, <3>1, <3>2
  <2>2. \A n \in MapNames : pins[n] \in 0..Len(maps)
    BY Zenon DEF BpfInv
  <2>3. \A j \in Loaders : j # l /\ load'[j].pc = "pin" => load'[j].new \in 1..Len(maps)
    BY Zenon, <1>2 DEF BpfInv, LoadOK
  <2>4. CASE k = l
    <3>1. load'[k].new = Len(maps) + 1
      BY Zenon, <2>4, <1>2
    <3> QED
      BY <3>1, <2>1, <2>2, <2>3, <2>4, <1>1, <1>2, <1>3 DEF Private
  <2>5. CASE k # l
    <3>1. load[k].pc = "pin" /\ Private(k) /\ load'[k] = load[k]
      BY Zenon, <2>5, <1>2 DEF BpfInv
    <3>2. load'[l].pc = "pin" => load'[l].new # load'[k].new
      BY <2>3, <2>5, <1>1, <1>2
    <3>3. load[k].new \notin {-1, 0}
      BY <3>1, <2>3, <2>5
    <3>4. \A j \in Loaders : \A i \in DOMAIN Object(j) : load'[j].fds[i] # load[k].new
      BY <3>1, <3>3, <1>2 DEF Private
    <3> QED
      BY <3>1, <3>2, <3>4, <1>2, <1>3 DEF Private
  <2> QED
    BY Zenon, <2>4, <2>5
<1>6. Sharing'
  BY <1>2, <1>3, SMTT(30) DEF BpfInv, Sharing
<1>7. Held' = Held
  <2>1. \A k \in Loaders : \A i \in DOMAIN Object(k) :
          /\ load'[k].fds[i] > 0 <=> load[k].fds[i] > 0
          /\ load[k].fds[i] > 0 => load'[k].fds[i] = load[k].fds[i]
    BY <1>2
  <2>2. \A k \in Loaders : PinnedOf(k)' = PinnedOf(k)
    BY Zenon, <2>1, <1>3 DEF PinnedOf
  <2>3. \A k \in Loaders : \A i \in PinnedOf(k) : load'[k].fds[i] = load[k].fds[i]
    BY Zenon, <2>1 DEF PinnedOf
  <2> QED
    BY <2>2, <2>3, <1>3 DEF Held
<1>8. pins' \in [MapNames -> 0..Len(maps')]
  BY <1>1 DEF BpfInv
<1> QED
  BY Zenon, <1>2, <1>4, <1>5, <1>6, <1>7, <1>8 DEF BpfInv

\* A step of l that attaches the map m: the pinned one, the one it has just created and
\* pins now, or one that it creates without a name.
LEMMA AttachStep ==
  ASSUME BpfInv, NEW l \in Loaders, NEW m, Attached(l, m),
         bset' = bset, maps' \in Seq(MapRec), Len(maps) <= Len(maps'), Len(maps') <= MaxMaps,
         removed' = removed,
         load[l].pc \in {"probe", "create", "pin"}, load[l].pc = "probe" => Probes(l),
         m \in 1..Len(maps'),
         \/ Current(l).pin /\ pins[Current(l).name] = m /\ pins' = pins /\ maps' = maps
            /\ load[l].pc = "probe"
         \/ /\ load[l].pc = "pin" /\ pins[Current(l).name] = 0 /\ m = load[l].new
            /\ pins' = [pins EXCEPT ![Current(l).name] = m] /\ maps' = maps
         \/ ~Current(l).pin /\ m = Len(maps) + 1 /\ pins' = pins
  PROVE  /\ BpfInv'
         /\ ~Current(l).pin => pins' = pins /\ Held' = Held
         /\ Current(l).pin => Registry!Acquire(l, Current(l).name, m)
<1> DEFINE o == Object(l)
           r == load[l]
           q == load'[l]
<1>1. Len(maps) \in Nat /\ Len(maps') \in Nat /\ LoadOK(r, o, Len(maps)) /\ r \in LoadRec
  BY DEF BpfInv
<1>2. /\ o \in Seq(MapDef) /\ Len(o) \in Nat /\ DOMAIN o = 1..Len(o)
      /\ \A k \in DOMAIN o : o[k] \in MapDef
      /\ \A i, k \in DOMAIN o : o[i].name = o[k].name => i = k
  BY Zenon, ObjectType DEF BpfInv
<1>3. r.i \in 1..Len(o) /\ r.fds \in [1..Len(o) -> (-1)..Len(maps)] /\ r.fds[r.i] \in {-1, 0}
  <2>1. r.i \in 1..Len(o) /\ r.fds \in [1..Len(o) -> (-1)..Len(maps)]
    BY Zenon, <1>1 DEF LoadOK, AtMap
  <2>2. r.pass \in {1, 2}
    BY Zenon, <1>1 DEF LoadRec
  <2>3. CASE r.pc = "probe" /\ r.pass = 1
    <3>1. \A k \in r.i..Len(o) : r.fds[k] = 0
      BY Zenon, <2>3, <1>1 DEF LoadOK
    <3>2. r.i \in r.i..Len(o)
      BY <2>1, <1>2
    <3> QED
      BY Zenon, <3>1, <3>2, <2>1
  <2>4. CASE r.pc = "probe" /\ r.pass = 2
    BY <2>4, <2>1 DEF Probes
  <2>5. CASE r.pc # "probe"
    BY Zenon, <2>1, <2>5, <1>1 DEF LoadOK
  <2> QED
    BY Zenon, <2>1, <2>2, <2>3, <2>4, <2>5
<1>4. /\ Bind(r, m) \in LoadRec
      /\ Bind(r, m).fds = [r.fds EXCEPT ![r.i] = m]
      /\ Bind(r, m).fds \in [1..Len(o) -> (-1)..Len(maps')]
      /\ Bind(r, m).i = r.i /\ Bind(r, m).pc = "probe" /\ Bind(r, m).pass = r.pass
  <2> DEFINE n == Len(maps)
             p == Len(maps')
             len == Len(o)
  <2>1. /\ r \in LoadRec /\ n \in Nat /\ p \in Nat /\ m \in 1..p /\ n <= p /\ len \in Nat
        /\ r.i \in 1..len /\ FdsIn(r.fds, len, n)
    BY Zenon, <1>1, <1>2, <1>3 DEF FdsIn
  <2> HIDE DEF r, o, n, p, len
  <2>2. /\ Bind(r, m) \in LoadRec
        /\ Bind(r, m).fds = [r.fds EXCEPT ![r.i] = m]
        /\ FdsIn(Bind(r, m).fds, len, p)
        /\ Bind(r, m).i = r.i /\ Bind(r, m).pc = "probe" /\ Bind(r, m).pass = r.pass
    <3>1. Bind(r, m) \in LoadRec
      BY <2>1, BindFields, Zenon
    <3>2. FdsIn(Bind(r, m).fds, len, p)
      BY <2>1, BindFields, Zenon
    <3>3. Bind(r, m).fds = [r.fds EXCEPT ![r.i] = m]
      BY Zenon, <2>1 DEF Bind, LoadRec
    <3>4. Bind(r, m).i = r.i /\ Bind(r, m).pc = "probe" /\ Bind(r, m).pass = r.pass
      BY Zenon, <2>1 DEF Bind, LoadRec
    <3> QED
      BY Zenon, <3>1, <3>2, <3>3, <3>4
  <2> QED
    BY Zenon, <2>2 DEF p, len, FdsIn
<1>5. q = NextMap(l, Bind(r, m)) /\ \A k \in Loaders : k # l => load'[k] = load[k]
  BY Zenon DEF BpfInv, Attached, Upd, Bind
<1>6. /\ q \in LoadRec /\ q.fds = [r.fds EXCEPT ![r.i] = m]
      /\ q.pc \in {"probe", "insert", "done"}
      /\ AtMap(q) => q.i \in 1..Len(o)
      /\ q.pc = "probe" /\ q.pass = 1 => r.pass = 1 /\ q.i = r.i + 1
  BY <1>2, <1>3, <1>4, <1>5, NextMapKeeps
<1>7. load' \in [Loaders -> LoadRec]
  BY Zenon, <1>6 DEF BpfInv, Attached, Upd
<1>8. LoadOK(q, o, Len(maps'))
  <2>1. q.fds \in [1..Len(o) -> (-1)..Len(maps')]
    BY Zenon, <1>4, <1>6
  <2>2. q.pc = "probe" /\ q.pass = 1 => \A k \in q.i..Len(o) : q.fds[k] = 0
    <3> SUFFICES ASSUME q.pc = "probe", q.pass = 1, NEW k \in q.i..Len(o) PROVE q.fds[k] = 0
      BY Zenon
    <3>1. r.pass = 1 /\ q.i = r.i + 1
      BY Zenon, <1>6
    <3>2. \A j \in r.i..Len(o) : r.fds[j] = 0
      BY Zenon, <3>1, <1>1 DEF LoadOK
    <3>3. k \in r.i..Len(o) /\ k # r.i
      BY <3>1, <1>2, <1>3, SMTT(30)
    <3> QED
      BY <3>2, <3>3, <1>3, <1>6
  <2> QED
    BY Zenon, <2>1, <2>2, <1>6 DEF LoadOK
<1>9. \A k \in Loaders : Object(k)' = Object(k)
  BY Zenon DEF Object
<1>10. \A k \in Loaders : LoadOK(load'[k], Object(k)', Len(maps'))
  <2> SUFFICES ASSUME NEW k \in Loaders PROVE LoadOK(load'[k], Object(k), Len(maps'))
    BY Zenon, <1>9
  <2>1. CASE k = l
    BY Zenon, <2>1, <1>8
  <2>2. CASE k # l
    <3>1. LoadOK(load[k], Object(k), Len(maps))
      BY Zenon DEF BpfInv
    <3> QED
      BY Zenon, <2>2, <3>1, <1>1, <1>5, LoadOKGrows
  <2> QED
    BY Zenon, <2>1, <2>2
<1>11. \A k \in Loaders : load'[k].pc = "pin" => Private(k)'
  <2> SUFFICES ASSUME NEW k \in Loaders, load'[k].pc = "pin" PROVE Private(k)'
    BY Zenon
  <2>1. k # l /\ load'[k] = load[k] /\ Private(k) /\ load[k].pc = "pin"
    BY Zenon, <1>5, <1>6 DEF BpfInv
  <2>2. load[k].new \in 1..Len(maps)
    BY Zenon, <2>1 DEF BpfInv, LoadOK
  <2>3. Current(l).name \in MapNames
    BY Zenon, <1>2, <1>3 DEF Current, MapDef
  <2>4. m # load[k].new
    BY <2>1, <2>2, <2>3, <1>1 DEF Private
  <2>5. \A n \in MapNames : pins'[n] # load[k].new
    BY Zenon, <2>1, <2>4 DEF Private, BpfInv
  <2>6. \A j \in Loaders : \A i \in DOMAIN Object(j) : load'[j].fds[i] # load[k].new
    <3> SUFFICES ASSUME NEW j \in Loaders, NEW i \in DOMAIN Object(j)
                 PROVE  load'[j].fds[i] # load[k].new
      BY Zenon
    <3>1. load[j].fds[i] # load[k].new
      BY Zenon, <2>1 DEF Private
    <3>2. CASE j # l
      BY Zenon, <3>1, <3>2, <1>5
    <3>3. CASE j = l
      BY Zenon, <3>1, <3>3, <2>4, <1>2, <1>3, <1>6
    <3> QED
      BY Zenon, <3>2, <3>3
  <2>7. \A j \in Loaders : j # k /\ load'[j].pc = "pin" => load'[j].new # load[k].new
    BY Zenon, <2>1, <1>5, <1>6 DEF Private
  <2> QED
    BY Zenon, <2>1, <2>5, <2>6, <2>7, <1>9 DEF Private
<1>12. Sharing'
  <2> SUFFICES ASSUME removed' = 0, NEW k \in Loaders, NEW i \in DOMAIN Object(k),
                      Object(k)[i].pin, load'[k].fds[i] > 0
               PROVE  pins'[Object(k)[i].name] = load'[k].fds[i]
    BY <1>9 DEF Sharing
  <2>1. CASE k = l /\ i = r.i
    <3>1. load'[k].fds[i] = m /\ Object(k)[i] = Current(l)
      BY Zenon, <2>1, <1>3, <1>6 DEF Current
    <3>2. Current(l).name \in MapNames
      BY Zenon, <1>2, <1>3 DEF Current, MapDef
    <3> QED
      BY <3>1, <3>2 DEF BpfInv
  <2>2. CASE ~(k = l /\ i = r.i)
    <3>1. load'[k].fds[i] = load[k].fds[i]
      BY Zenon, <2>2, <1>2, <1>3, <1>5, <1>6
    <3>2. pins[Object(k)[i].name] = load[k].fds[i]
      BY Zenon, <3>1 DEF BpfInv, Sharing
    <3>3. Current(l).name \in MapNames
      BY Zenon, <1>2, <1>3 DEF Current, MapDef
    <3>4. Object(k)[i].name \in MapNames
      BY Zenon, ObjectType DEF BpfInv, MapDef
    <3>5. load[k].fds[i] # 0
      BY <3>1
    <3> QED
      BY Zenon, <3>1, <3>2, <3>3, <3>4, <3>5 DEF BpfInv
  <2> QED
    BY Zenon, <2>1, <2>2
<1>13. pins' \in [MapNames -> 0..Len(maps')]
  BY <1>1 DEF BpfInv
<1>14. BpfInv'
  BY Zenon, <1>7, <1>10, <1>11, <1>12, <1>13 DEF BpfInv
<1>15. \A k \in Loaders : k # l => Held'[k] = Held[k]
  BY Zenon, <1>5, <1>9 DEF Held, PinnedOf
<1>16. DOMAIN Held = Loaders /\ DOMAIN Held' = Loaders
  BY Zenon DEF Held
<1>17. ASSUME ~Current(l).pin PROVE pins' = pins /\ Held' = Held
  <2>1. pins' = pins
    BY Zenon, <1>17, <1>1 DEF BpfInv, LoadOK, Current
  <2>2. \A i \in DOMAIN o : o[i].pin => q.fds[i] = r.fds[i]
    BY Zenon, <1>17, <1>2, <1>3, <1>6 DEF Current
  <2>3. Held'[l] = Held[l]
    BY <2>2, <1>9, SMTT(30) DEF Held, PinnedOf
  <2> QED
    BY <2>1, <2>3, <1>15, <1>16, SMTT(30) DEF Held
<1>18. ASSUME Current(l).pin PROVE Registry!Acquire(l, Current(l).name, m)
  <2>1. Current(l).name \in MapNames /\ Current(l) = o[r.i]
    BY Zenon, <1>2, <1>3 DEF Current, MapDef
  <2>2. m # 0
    OBVIOUS
  <2>3. pins[Current(l).name] = m \/ (pins[Current(l).name] = 0 /\ Registry!Nobody(m))
    <3> SUFFICES ASSUME load[l].pc = "pin", m = load[l].new PROVE Registry!Nobody(m)
      BY Zenon, <1>18
    <3>1. Private(l)
      BY Zenon DEF BpfInv
    <3>2. \A k \in MapNames : pins[k] # m
      BY Zenon, <3>1 DEF Private
    <3>3. \A c \in Loaders : \A k \in MapNames : <<k, m>> \notin Held[c]
      BY Zenon, <3>1 DEF Private, Held, PinnedOf
    <3> QED
      BY Zenon, <3>2, <3>3 DEF Registry!Nobody
  <2>4. pins' = [pins EXCEPT ![Current(l).name] = m]
    BY Zenon, <1>18, <2>1 DEF BpfInv
  <2>5. /\ \A i \in DOMAIN o : i # r.i => q.fds[i] = r.fds[i]
        /\ q.fds[r.i] = m /\ m > 0 /\ ~(r.fds[r.i] > 0) /\ r.i \in DOMAIN o
    BY <1>2, <1>3, <1>6, SMTT(30)
  <2>6. Held'[l] = Held[l] \cup {<<Current(l).name, m>>}
    <3>1. Held[l] = {<<o[i].name, r.fds[i]>> : i \in PinnedOf(l)}
      BY Zenon DEF Held
    <3>2. Held'[l] = {<<o[i].name, q.fds[i]>> : i \in PinnedOf(l)'}
      BY Zenon, <1>9 DEF Held
    <3>3. PinnedOf(l)' = PinnedOf(l) \cup {r.i} /\ r.i \notin PinnedOf(l)
      BY <1>9, <1>18, <2>1, <2>5 DEF PinnedOf
    <3>4. \A i \in PinnedOf(l) : q.fds[i] = r.fds[i]
      BY Zenon, <2>5, <3>3 DEF PinnedOf
    <3>5. <<o[r.i].name, q.fds[r.i]>> = <<Current(l).name, m>>
      BY Zenon, <2>1, <2>5
    <3>6. ASSUME NEW x PROVE x \in Held'[l] <=> x \in Held[l] \cup {<<Current(l).name, m>>}
      <4>1. x \in Held[l] <=> \E i \in PinnedOf(l) : x = <<o[i].name, r.fds[i]>>
        BY Zenon, <3>1
      <4>2. x \in Held'[l] <=> \E i \in PinnedOf(l)' : x = <<o[i].name, q.fds[i]>>
        BY Zenon, <3>2
      <4>3. CASE x = <<Current(l).name, m>>
        BY Zenon, <4>2, <4>3, <3>3, <3>5
      <4>4. CASE x # <<Current(l).name, m>>
        <5>1. ASSUME x \in Held'[l] PROVE x \in Held[l]
          <6>1. PICK i \in PinnedOf(l)' : x = <<o[i].name, q.fds[i]>>
            BY Zenon, <5>1, <4>2
          <6>2. i \in PinnedOf(l)
            BY Zenon, <6>1, <4>4, <3>3, <3>5
          <6> QED
            BY Zenon, <6>1, <6>2, <4>1, <3>4
        <5>2. ASSUME x \in Held[l] PROVE x \in Held'[l]
          <6>1. PICK i \in PinnedOf(l) : x = <<o[i].name, r.fds[i]>>
            BY Zenon, <5>2, <4>1
          <6> QED
            BY Zenon, <6>1, <4>2, <3>3, <3>4
        <5> QED
          BY Zenon, <5>1, <5>2, <4>4
      <4> QED
        BY Zenon, <4>3, <4>4
    <3> QED
      BY Zenon, <3>6
  <2>7. Held' = [Held EXCEPT ![l] = Held[l] \cup {<<Current(l).name, m>>}]
    BY <2>6, <1>15, <1>16, Zenon DEF Held
  <2> QED
    BY Zenon, <2>2, <2>3, <2>4, <2>7 DEF Registry!Acquire
<1> QED
  BY Zenon, <1>14, <1>17, <1>18

----------------------------------------------------------------------------
(* The steps.                                                              *)

\* A loader that is at a map is at a map of its object.
LEMMA CurrentType ==
  ASSUME BpfInv, NEW l \in Loaders, load[l].pc \in {"probe", "create", "pin", "insert"}
  PROVE  /\ load[l].i \in 1..Len(Object(l)) /\ Len(Object(l)) \in Nat
         /\ DOMAIN Object(l) = 1..Len(Object(l))
         /\ Current(l) \in MapDef /\ Current(l).name \in MapNames
<1>1. LoadOK(load[l], Object(l), Len(maps)) /\ bset \in BpfSetups
  BY Zenon DEF BpfInv
<1>2. load[l].i \in 1..Len(Object(l))
  BY Zenon, <1>1 DEF LoadOK, AtMap
<1>3. Current(l) \in MapDef
  BY Zenon, <1>1, <1>2, ObjectType DEF Current
<1> QED
  BY Zenon, <1>1, <1>2, <1>3, ObjectType DEF MapDef

RegStep == Registry!RegNext \/ UNCHANGED <<pins, Held>>

\* A loader that gives up, or is killed, attaches nothing.
LEMMA StopStep ==
  ASSUME BpfInv, NEW l \in Loaders, NEW s \in {"failed", "killed"},
         Upd(l, [load[l] EXCEPT !.pc = s]), UNCHANGED <<bset, maps, pins, removed>>
  PROVE  BpfInv' /\ RegStep
<1> DEFINE q == [load[l] EXCEPT !.pc = s]
<1>1. load[l] \in LoadRec /\ LoadOK(load[l], Object(l), Len(maps)) /\ maps \in Seq(MapRec)
      /\ Len(maps) \in Nat /\ Len(maps) <= MaxMaps
  BY DEF BpfInv
<1>2. q \in LoadRec /\ q.fds = load[l].fds /\ q.pc = s
  BY Zenon, <1>1 DEF LoadRec, Pcs
<1>3. LoadOK(q, Object(l), Len(maps))
  BY Zenon, <1>1, <1>2 DEF LoadOK, AtMap
<1> HIDE DEF q
<1>4. Upd(l, q) /\ q.pc # "pin"
  BY Zenon, <1>2 DEF q
<1>5. BpfInv' /\ Held' = Held
  BY <1>1, <1>2, <1>3, <1>4, QuietStep
<1> QED
  BY Zenon, <1>5 DEF RegStep

\* A step to the next map attaches nothing.
LEMMA AdvanceStep ==
  ASSUME BpfInv, NEW l \in Loaders, NEW r \in LoadRec, Upd(l, NextMap(l, r)),
         UNCHANGED <<bset, pins, removed>>, maps' \in Seq(MapRec), Len(maps') = Len(maps),
         r.pc \in {"probe", "insert"}, r.i \in 1..Len(Object(l)),
         r.fds \in [1..Len(Object(l)) -> (-1)..Len(maps)],
         \A i \in DOMAIN Object(l) : r.fds[i] = load[l].fds[i] \/ {r.fds[i], load[l].fds[i]} \subseteq {-1, 0},
         r.pc = "probe" /\ r.pass = 1 => \A k \in (r.i + 1)..Len(Object(l)) : r.fds[k] = 0
  PROVE  BpfInv' /\ RegStep
<1> DEFINE q == NextMap(l, r)
<1>1. Len(Object(l)) \in Nat /\ Len(maps) \in Nat /\ Len(maps) <= MaxMaps
  BY ObjectType DEF BpfInv
<1>2. /\ q \in LoadRec /\ q.fds = r.fds /\ q.pc \in {"probe", "insert", "done"}
      /\ AtMap(q) => q.i \in 1..Len(Object(l))
      /\ q.pc = "probe" /\ q.pass = 1 => r.pc = "probe" /\ r.pass = 1 /\ q.i = r.i + 1
  BY Zenon, <1>1, NextMapKeeps
<1> HIDE DEF q
<1>3. LoadOK(q, Object(l), Len(maps))
  BY Zenon, <1>2 DEF LoadOK
<1>4. Upd(l, q)
  BY Zenon DEF q
<1>5. BpfInv' /\ Held' = Held
  BY <1>1, <1>2, <1>3, <1>4, QuietStep
<1> QED
  BY Zenon, <1>5 DEF RegStep

\* ProbePinned attaches the map that the name leads to, or fails.
LEMMA ProbePinnedStep ==
  ASSUME BpfInv, NEW l \in Loaders, ProbePinned(l)
  PROVE  BpfInv' /\ RegStep
<1>1. CASE ~Selfcheck(l)
  BY <1>1, StopStep, Zenon DEF ProbePinned, Fail
<1>2. CASE Selfcheck(l)
  <2> DEFINE m == pins[Current(l).name]
  <2>1. load[l].pc = "probe"
    BY Zenon DEF ProbePinned, Probes
  <2>2. Current(l).name \in MapNames
    BY Zenon, <2>1, CurrentType
  <2>3. m \in 1..Len(maps) /\ Len(maps) \in Nat /\ Len(maps) <= MaxMaps /\ maps \in Seq(MapRec)
    BY <2>2 DEF BpfInv, ProbePinned, Pinned
  <2>4. Attached(l, m) /\ Current(l).pin /\ load[l].pc = "probe" /\ Probes(l)
    BY Zenon, <1>2 DEF ProbePinned, Pinned, Probes
  <2>5. UNCHANGED <<bset, maps, pins, removed>>
    BY Zenon DEF ProbePinned
  <2>6. BpfInv' /\ Registry!Acquire(l, Current(l).name, m)
    <3> HIDE DEF m
    <3>1. pins[Current(l).name] = m
      BY Zenon DEF m
    <3> QED
      BY <3>1, <2>3, <2>4, <2>5, AttachStep
  <2>7. m \in 1..MaxMaps
    BY <2>3, BpfAssumption
  <2> QED
    BY Zenon, <2>2, <2>6, <2>7 DEF RegStep, Registry!RegNext
<1> QED
  BY Zenon, <1>1, <1>2

\* ProbeMissing and ProbeSkip attach nothing.
LEMMA ProbeMissingStep ==
  ASSUME BpfInv, NEW l \in Loaders, ProbeMissing(l)
  PROVE  BpfInv' /\ RegStep
<1> DEFINE r == load[l]
           o == Object(l)
<1>1. r.pc = "probe" /\ Probes(l) /\ UNCHANGED <<bset, maps, pins, removed>>
  BY Zenon DEF ProbeMissing, Probes
<1>2. /\ r.i \in 1..Len(o) /\ Len(o) \in Nat /\ DOMAIN o = 1..Len(o)
  BY Zenon, <1>1, CurrentType
<1>3. /\ r \in LoadRec /\ LoadOK(r, o, Len(maps)) /\ maps \in Seq(MapRec)
      /\ Len(maps) \in Nat /\ Len(maps) <= MaxMaps
  BY DEF BpfInv
<1>4. r.fds \in [1..Len(o) -> (-1)..Len(maps)]
  BY Zenon, <1>3 DEF LoadOK
<1>5. CASE ~NoInner(l) /\ Current(l).outer /\ r.pass = 1
  <2> DEFINE f == [r.fds EXCEPT ![r.i] = -1]
             s == [r EXCEPT !.fds[r.i] = -1, !.have = r.have + 1]
  <2>1. \A k \in r.i..Len(o) : r.fds[k] = 0
    BY Zenon, <1>1, <1>3, <1>5 DEF LoadOK
  <2>2. r.fds[r.i] = 0
    BY <2>1, <1>2
  <2>3. f \in [1..Len(o) -> (-1)..Len(maps)] /\ f \in Fds
    BY <1>2, <1>3, <1>4, SMTT(30) DEF Fds
  <2>4. s \in LoadRec
    <3>1. [r EXCEPT !.fds = f] \in LoadRec
      BY <2>3, <1>3, Zenon DEF LoadRec
    <3>2. s = [[r EXCEPT !.fds = f] EXCEPT !.have = r.have + 1]
      BY Zenon, <1>3 DEF LoadRec
    <3>3. r.have + 1 \in Nat
      BY <1>3 DEF LoadRec
    <3> HIDE DEF f, s
    <3> QED
      BY <3>1, <3>2, <3>3, Zenon DEF LoadRec
  <2>5. s.fds = f /\ s.i = r.i /\ s.pc = "probe"
    BY Zenon, <1>1, <1>3 DEF LoadRec
  <2>6. Upd(l, NextMap(l, s))
    BY Zenon, <1>5 DEF ProbeMissing
  <2>7. \A k \in 1..Len(o) : k # r.i => s.fds[k] = r.fds[k]
    BY Zenon, <2>5, <1>4
  <2>8. s.fds[r.i] = -1
    BY Zenon, <2>5, <1>2, <1>4
  <2>9. \A k \in (s.i + 1)..Len(o) : s.fds[k] = 0
    BY <2>1, <2>5, <2>7, <1>2
  <2> HIDE DEF s, f
  <2>10. \A i \in DOMAIN o : s.fds[i] = r.fds[i] \/ {s.fds[i], r.fds[i]} \subseteq {-1, 0}
    BY Zenon, <2>2, <2>7, <2>8, <1>2
  <2>11. s.fds \in [1..Len(o) -> (-1)..Len(maps)] /\ s.i \in 1..Len(o) /\ s.pc \in {"probe", "insert"}
    BY Zenon, <2>3, <2>5, <1>2
  <2> QED
    BY Zenon, <2>4, <2>6, <2>9, <2>10, <2>11, <1>1, <1>3, AdvanceStep
<1>6. CASE ~NoInner(l) /\ ~(Current(l).outer /\ r.pass = 1)
  <2> DEFINE q == [r EXCEPT !.pc = "create"]
  <2>1. Upd(l, q)
    BY Zenon, <1>6 DEF ProbeMissing
  <2>2. q \in LoadRec /\ q.fds = r.fds /\ q.pc = "create" /\ q.i = r.i /\ q.pass = r.pass
    BY Zenon, <1>3 DEF LoadRec, Pcs
  <2>3. r.pass = 1 => \A k \in r.i..Len(o) : r.fds[k] = 0
    BY Zenon, <1>1, <1>3 DEF LoadOK
  <2>4. r.fds[r.i] \in {-1, 0}
    BY <2>3, <1>1, <1>2 DEF Probes
  <2> HIDE DEF q
  <2>5. LoadOK(q, o, Len(maps))
    BY Zenon, <2>2, <2>3, <2>4, <1>2, <1>3, <1>4 DEF LoadOK
  <2>6. BpfInv' /\ Held' = Held
    BY <2>1, <2>2, <2>5, <1>1, <1>3, QuietStep
  <2> QED
    BY Zenon, <2>6, <1>1 DEF RegStep
<1>7. CASE NoInner(l)
  BY Zenon, <1>1, <1>7, StopStep DEF ProbeMissing, Fail
<1> QED
  BY Zenon, <1>5, <1>6, <1>7

\* ProbeSkip, at a map that the first loop attached, attaches nothing.
LEMMA ProbeSkipStep ==
  ASSUME BpfInv, NEW l \in Loaders, ProbeSkip(l)
  PROVE  BpfInv' /\ RegStep
<1>1. load[l].pc = "probe" /\ ~Probes(l) /\ UNCHANGED <<bset, maps, pins, removed>>
      /\ Upd(l, NextMap(l, load[l]))
  BY Zenon DEF ProbeSkip
<1>2. load[l].i \in 1..Len(Object(l))
  BY Zenon, <1>1, CurrentType
<1>3. /\ load[l] \in LoadRec /\ LoadOK(load[l], Object(l), Len(maps)) /\ maps \in Seq(MapRec)
      /\ load[l].fds \in [1..Len(Object(l)) -> (-1)..Len(maps)]
  BY Zenon DEF BpfInv, LoadOK
<1>4. load[l].pass # 1
  BY Zenon, <1>1 DEF Probes
<1>5. maps' \in Seq(MapRec) /\ Len(maps') = Len(maps)
  BY Zenon, <1>1, <1>3
<1> DEFINE r == load[l]
<1>6. \A i \in DOMAIN Object(l) : r.fds[i] = load[l].fds[i] \/ {r.fds[i], load[l].fds[i]} \subseteq {-1, 0}
  BY Zenon
<1>7. /\ r \in LoadRec /\ Upd(l, NextMap(l, r)) /\ r.pc \in {"probe", "insert"} /\ r.pass # 1
      /\ r.i \in 1..Len(Object(l)) /\ r.fds \in [1..Len(Object(l)) -> (-1)..Len(maps)]
  BY Zenon, <1>1, <1>2, <1>3, <1>4
<1> HIDE DEF r
<1>8. r.pc = "probe" /\ r.pass = 1 => \A k \in (r.i + 1)..Len(Object(l)) : r.fds[k] = 0
  BY Zenon, <1>7
<1>9. UNCHANGED <<bset, pins, removed>>
  BY Zenon, <1>1
<1> QED
  BY Zenon, <1>5, <1>6, <1>7, <1>8, <1>9, AdvanceStep

\* The array of the inner maps of a new map is empty.
LEMMA NewMapType ==
  ASSUME BpfInv, NEW l \in Loaders, load[l].pc = "create"
  PROVE  [spec |-> Current(l).spec, inner |-> [k \in DOMAIN Object(l) |-> 0]] \in MapRec
<1>1. Current(l) \in MapDef /\ Len(Object(l)) \in Nat /\ DOMAIN Object(l) = 1..Len(Object(l))
  BY Zenon, CurrentType
<1>2. [k \in DOMAIN Object(l) |-> 0] \in Fds
  <2> DEFINE f == [k \in DOMAIN Object(l) |-> 0]
             n == Len(Object(l))
  <2>1. n \in Nat /\ f \in [1..n -> Int]
    BY <1>1
  <2> HIDE DEF f, n
  <2> QED
    BY Zenon, <2>1 DEF Fds, f
<1> QED
  BY Zenon, <1>1, <1>2 DEF MapRec, MapDef

\* CreateMap makes a map that is private, or attaches one without a name.
LEMMA CreateMapStep ==
  ASSUME BpfInv, NEW l \in Loaders, CreateMap(l)
  PROVE  BpfInv' /\ RegStep
<1> DEFINE r == load[l]
           o == Object(l)
<1>1. r.pc = "create" /\ UNCHANGED <<bset, pins, removed>> /\ Len(maps) < MaxMaps
  BY Zenon DEF CreateMap
<1>2. maps \in Seq(MapRec) /\ Len(maps) \in Nat /\ r \in LoadRec /\ LoadOK(r, o, Len(maps))
  BY DEF BpfInv
<1>3. maps' \in Seq(MapRec) /\ Len(maps') = Len(maps) + 1
  <2>1. maps' = Append(maps, [spec |-> Current(l).spec, inner |-> [k \in DOMAIN Object(l) |-> 0]])
    BY Zenon DEF CreateMap
  <2> QED
    BY <2>1, <1>1, <1>2, NewMapType
<1>4. r.i \in 1..Len(o) /\ Len(o) \in Nat /\ DOMAIN o = 1..Len(o)
  BY Zenon, <1>1, CurrentType
<1>5. Len(maps) <= Len(maps') /\ Len(maps') <= MaxMaps
  BY <1>1, <1>2, <1>3, BpfAssumption
<1>6. CASE Current(l).pin
  <2> DEFINE q == [r EXCEPT !.pc = "pin", !.new = Len(maps) + 1]
  <2>1. Upd(l, q)
    BY Zenon, <1>6 DEF CreateMap
  <2>2. q \in LoadRec
    <3>1. [r EXCEPT !.pc = "pin"] \in LoadRec
      BY Zenon, <1>2 DEF LoadRec, Pcs
    <3>2. q = [[r EXCEPT !.pc = "pin"] EXCEPT !.new = Len(maps) + 1]
      BY Zenon, <1>2 DEF LoadRec
    <3>3. Len(maps) + 1 \in Nat
      BY <1>2
    <3> HIDE DEF q
    <3> QED
      BY <3>1, <3>2, <3>3, Zenon DEF LoadRec
  <2>3. q.fds = r.fds /\ q.pc = "pin" /\ q.new = Len(maps) + 1 /\ q.i = r.i /\ q.pass = r.pass
    BY Zenon, <1>2 DEF LoadRec
  <2>4. LoadOK(r, o, Len(maps'))
    BY <1>2, <1>3, <1>5, LoadOKGrows
  <2> HIDE DEF q
  <2>5. LoadOK(q, o, Len(maps'))
    <3>1. q.fds \in [1..Len(o) -> (-1)..Len(maps')] /\ q.fds[q.i] \in {-1, 0}
      BY Zenon, <2>3, <2>4, <1>1 DEF LoadOK
    <3>2. q.pass = 1 => \A k \in q.i..Len(o) : q.fds[k] = 0
      BY Zenon, <2>3, <2>4, <1>1 DEF LoadOK
    <3>3. q.new \in 1..Len(maps') /\ o[q.i].pin
      BY <2>3, <1>2, <1>3, <1>6 DEF Current
    <3> QED
      BY Zenon, <2>2, <2>3, <3>1, <3>2, <3>3, <1>4 DEF LoadOK
  <2>6. BpfInv' /\ Held' = Held
    BY Zenon, <2>1, <2>3, <2>5, <1>1, <1>3, <1>5, QuietStep
  <2> QED
    BY Zenon, <2>6, <1>1 DEF RegStep
<1>7. CASE ~Current(l).pin
  <2> DEFINE m == Len(maps) + 1
  <2>1. Attached(l, m)
    BY Zenon, <1>7 DEF CreateMap
  <2>2. m \in 1..Len(maps')
    BY <1>2, <1>3
  <2> HIDE DEF m
  <2>3. m = Len(maps) + 1
    BY Zenon DEF m
  <2>4. BpfInv' /\ pins' = pins /\ Held' = Held
    BY Zenon, <2>1, <2>2, <2>3, <1>1, <1>3, <1>5, <1>7, AttachStep
  <2> QED
    BY Zenon, <2>4 DEF RegStep
<1> QED
  BY Zenon, <1>6, <1>7

\* PlacePinned pins the map, or finds the name taken.
LEMMA PlacePinnedStep ==
  ASSUME BpfInv, NEW l \in Loaders, PlacePinned(l)
  PROVE  BpfInv' /\ RegStep
<1> DEFINE r == load[l]
           o == Object(l)
<1>1. r.pc = "pin" /\ UNCHANGED <<bset, maps, removed>>
  BY Zenon DEF PlacePinned
<1>2. maps \in Seq(MapRec) /\ Len(maps) \in Nat /\ Len(maps) <= MaxMaps
      /\ r \in LoadRec /\ LoadOK(r, o, Len(maps))
  BY DEF BpfInv
<1>3. /\ r.i \in 1..Len(o) /\ Len(o) \in Nat /\ DOMAIN o = 1..Len(o)
      /\ Current(l).name \in MapNames
  BY Zenon, <1>1, CurrentType
<1>4. CASE Taken(l) /\ r.retried
  BY <1>4, <1>1, StopStep, Zenon DEF PlacePinned, AfterTaken, Fail
<1>5. CASE Taken(l) /\ ~r.retried
  <2> DEFINE q == [r EXCEPT !.pc = "probe", !.retried = TRUE]
  <2>1. Upd(l, q) /\ pins' = pins
    BY Zenon, <1>5 DEF PlacePinned, AfterTaken
  <2>2. q \in LoadRec
    <3>1. [r EXCEPT !.pc = "probe"] \in LoadRec
      BY Zenon, <1>2 DEF LoadRec, Pcs
    <3>2. q = [[r EXCEPT !.pc = "probe"] EXCEPT !.retried = TRUE]
      BY Zenon, <1>2 DEF LoadRec
    <3> HIDE DEF q
    <3> QED
      BY <3>1, <3>2, Zenon DEF LoadRec
  <2>3. q.fds = r.fds /\ q.pc = "probe" /\ q.i = r.i /\ q.pass = r.pass
    BY Zenon, <1>2 DEF LoadRec
  <2> HIDE DEF q
  <2>4. LoadOK(q, o, Len(maps))
    BY Zenon, <2>2, <2>3, <1>1, <1>2, <1>3 DEF LoadOK
  <2>5. BpfInv' /\ Held' = Held
    BY <2>1, <2>3, <2>4, <1>1, <1>2, QuietStep
  <2> QED
    BY Zenon, <2>1, <2>5 DEF RegStep
<1>6. CASE ~Taken(l)
  <2> DEFINE m == r.new
  <2>1. /\ Attached(l, m) /\ pins' = [pins EXCEPT ![Current(l).name] = m]
        /\ pins[Current(l).name] = 0
    BY Zenon, <1>6 DEF PlacePinned, Taken
  <2>2. m \in 1..Len(maps) /\ Current(l).pin
    BY Zenon, <1>1, <1>2 DEF LoadOK, Current
  <2> HIDE DEF m
  <2>3. m = load[l].new
    BY Zenon DEF m
  <2>4. BpfInv' /\ Registry!Acquire(l, Current(l).name, m)
    <3>1. /\ maps' = maps /\ maps' \in Seq(MapRec) /\ Len(maps) <= Len(maps') /\ Len(maps') <= MaxMaps
          /\ m \in 1..Len(maps')
      BY <2>2, <1>1, <1>2
    <3>2. bset' = bset /\ removed' = removed /\ load[l].pc = "pin"
      BY Zenon, <1>1
    <3> QED
      BY <3>1, <3>2, <2>1, <2>2, <2>3, AttachStep, Zenon
  <2>5. m \in 1..MaxMaps
    BY <2>2, <1>2, BpfAssumption
  <2> QED
    BY Zenon, <2>4, <2>5, <1>3 DEF RegStep, Registry!RegNext
<1> QED
  BY Zenon, <1>4, <1>5, <1>6

\* InsertInner changes the contents of maps only.
LEMMA InsertInnerStep ==
  ASSUME BpfInv, NEW l \in Loaders, InsertInner(l)
  PROVE  BpfInv' /\ RegStep
<1> DEFINE r == load[l]
           o == Object(l)
<1>1. r.pc = "insert" /\ UNCHANGED <<bset, pins, removed>> /\ Upd(l, NextMap(l, r))
      /\ maps' = Inserted(l)
  BY Zenon DEF InsertInner
<1>2. /\ maps \in Seq(MapRec) /\ Len(maps) \in Nat /\ r \in LoadRec
      /\ r.fds \in [1..Len(o) -> (-1)..Len(maps)]
  BY DEF BpfInv, LoadOK
<1>3. r.i \in 1..Len(o) /\ DOMAIN o = 1..Len(o)
  BY Zenon, <1>1, CurrentType
<1>4. maps' \in Seq(MapRec) /\ Len(maps') = Len(maps)
  <2>1. CASE Current(l).outer
    BY Zenon, <2>1, <1>1, <1>2 DEF Inserted
  <2>2. CASE ~Current(l).outer
    <3> DEFINE v == r.fds[r.i]
               Entered(m) == [maps[m] EXCEPT !.inner[r.i] = v]
    <3>1. v \in Int
      BY <1>2, <1>3
    <3>2. \A m \in 1..Len(maps) : Entered(m) \in MapRec
      <4> SUFFICES ASSUME NEW m \in 1..Len(maps) PROVE Entered(m) \in MapRec
        BY Zenon
      <4>1. maps[m] \in MapRec
        BY <1>2
      <4>2. PICK n \in Nat : maps[m].inner \in [1..n -> Int]
        BY Zenon, <4>1 DEF MapRec, Fds
      <4>3. [maps[m].inner EXCEPT ![r.i] = v] \in [1..n -> Int]
        BY <4>2, <3>1, Zenon
      <4>4. [maps[m].inner EXCEPT ![r.i] = v] \in Fds
        BY Zenon, <4>2, <4>3 DEF Fds
      <4>5. Entered(m) = [maps[m] EXCEPT !.inner = [maps[m].inner EXCEPT ![r.i] = v]]
        BY Zenon, <4>1 DEF MapRec
      <4> QED
        BY Zenon, <4>1, <4>4, <4>5 DEF MapRec
    <3>3. maps' = [m \in 1..Len(maps) |-> IF m \in Outers(l) THEN Entered(m) ELSE maps[m]]
      BY <2>2, <1>1, <1>2 DEF Inserted
    <3>4. \A m \in 1..Len(maps) : maps[m] \in MapRec
      BY <1>2
    <3> HIDE DEF Entered
    <3> QED
      BY <3>2, <3>3, <3>4, <1>2
  <2> QED
    BY Zenon, <2>1, <2>2
<1>5. \A i \in DOMAIN o : r.fds[i] = load[l].fds[i] \/ {r.fds[i], load[l].fds[i]} \subseteq {-1, 0}
  BY Zenon
<1>6. r.pc # "probe"
  BY Zenon, <1>1
<1> HIDE DEF r
<1> QED
  BY <1>1, <1>2, <1>3, <1>4, <1>5, <1>6, AdvanceStep, Zenon

\* Removing a pin is what the registry forgets.
LEMMA RemovePinStep ==
  ASSUME BpfInv, NEW n \in MapNames, RemovePin(n)
  PROVE  BpfInv' /\ RegStep
<1>1. /\ pins[n] # 0 /\ pins' = [pins EXCEPT ![n] = 0] /\ removed' = removed + 1
      /\ UNCHANGED <<bset, maps, load>>
  BY Zenon DEF RemovePin
<1>2. \A l \in Loaders : Object(l)' = Object(l)
  BY Zenon, <1>1 DEF Object
<1>3. Held' = Held
  BY Zenon, <1>1, <1>2 DEF Held, PinnedOf
<1>4. pins' \in [MapNames -> 0..Len(maps)] /\ Len(maps) \in Nat
  BY <1>1 DEF BpfInv
<1>5. removed' \in Nat /\ removed' # 0
  BY <1>1 DEF BpfInv
<1>6. \A l \in Loaders : load[l].pc = "pin" => Private(l)'
  <2> SUFFICES ASSUME NEW l \in Loaders, load[l].pc = "pin" PROVE Private(l)'
    BY Zenon
  <2>1. Private(l) /\ load[l].new # 0
    BY DEF BpfInv, LoadOK
  <2>2. \A k \in MapNames : pins'[k] # load[l].new
    BY Zenon, <2>1, <1>1 DEF Private, BpfInv
  <2> QED
    BY Zenon, <2>1, <2>2, <1>1, <1>2 DEF Private
<1>7. BpfInv'
  BY Zenon, <1>1, <1>2, <1>4, <1>5, <1>6 DEF BpfInv, Sharing
<1>8. Registry!Forget(n)
  BY Zenon, <1>1, <1>3 DEF Registry!Forget
<1> QED
  BY Zenon, <1>7, <1>8 DEF RegStep, Registry!RegNext

\* At the start nothing is pinned and nothing attached.
LEMMA BpfInitInv == BpfInit => BpfInv /\ Registry!RegInit
<1> SUFFICES ASSUME BpfInit PROVE BpfInv /\ Registry!RegInit
  BY Zenon
<1>1. bset \in BpfSetups /\ maps = <<>> /\ removed = 0 /\ pins = [n \in MapNames |-> 0]
      /\ load = [l \in Loaders |-> Load0(Object(l))]
  BY Zenon DEF BpfInit, Object
<1>2. ASSUME NEW l \in Loaders
      PROVE  /\ load[l] \in LoadRec /\ LoadOK(load[l], Object(l), 0) /\ load[l].pc # "pin"
             /\ \A k \in DOMAIN Object(l) : load[l].fds[k] = 0
  <2> DEFINE o == Object(l)
             f == [k \in DOMAIN o |-> 0]
  <2>1. o \in Seq(MapDef) /\ Len(o) \in Nat /\ DOMAIN o = 1..Len(o)
    BY Zenon, <1>1, ObjectType
  <2>2. f \in [1..Len(o) -> Int] /\ \A k \in DOMAIN o : f[k] = 0
    BY <2>1
  <2>3. f \in [1..Len(o) -> (-1)..0]
    BY <2>1
  <2>4. load[l] = [pc |-> IF o = <<>> THEN "done" ELSE "probe", pass |-> 1, i |-> 1,
                   fds |-> f, new |-> 0, have |-> 0, retried |-> FALSE]
    BY Zenon, <1>1 DEF Load0
  <2> HIDE DEF f
  <2>5. f \in Fds
    BY <2>1, <2>2, Zenon DEF Fds
  <2>6. load[l] \in LoadRec
    BY <2>4, <2>5 DEF LoadRec, Pcs
  <2>7. load[l].fds = f /\ load[l].i = 1 /\ load[l].pc \in {"done", "probe"}
        /\ (load[l].pc = "probe" => o # <<>>)
    BY <2>4
  <2>8. load[l].pc = "probe" => 1 \in 1..Len(o)
    BY <2>1, <2>7
  <2>9. LoadOK(load[l], o, 0)
    BY Zenon, <2>1, <2>2, <2>3, <2>6, <2>7, <2>8 DEF LoadOK, AtMap
  <2> QED
    BY Zenon, <2>2, <2>6, <2>7, <2>9
<1>3. load \in [Loaders -> LoadRec]
  BY Zenon, <1>1, <1>2
<1>4. maps \in Seq(MapRec) /\ Len(maps) = 0 /\ 0 <= MaxMaps
  BY <1>1, BpfAssumption
<1>5. Sharing
  BY <1>2 DEF Sharing
<1>6. BpfInv
  BY <1>1, <1>2, <1>3, <1>4, <1>5 DEF BpfInv
<1>7. Held = [l \in Loaders |-> {}]
  BY <1>2 DEF Held, PinnedOf
<1> QED
  BY Zenon, <1>1, <1>6, <1>7 DEF Registry!RegInit

\* Every step keeps the invariant and is a step of the registry, or none.
LEMMA BpfStepInv ==
  ASSUME BpfInv, [BpfNext]_bpfVars
  PROVE  BpfInv' /\ [Registry!RegNext]_(Registry!regVars)
<1> SUFFICES BpfInv' /\ RegStep
  BY Zenon DEF RegStep, Registry!regVars
<1>1. CASE UNCHANGED bpfVars
  <2>1. \A l \in Loaders : Object(l)' = Object(l)
    BY Zenon, <1>1 DEF bpfVars, Object
  <2>2. Held' = Held
    BY Zenon, <2>1, <1>1 DEF Held, PinnedOf, bpfVars
  <2>3. BpfInv'
    BY <2>1, <1>1 DEF BpfInv, Sharing, Private, bpfVars
  <2> QED
    BY Zenon, <2>2, <2>3, <1>1 DEF RegStep, bpfVars
<1>2. ASSUME NEW l \in Loaders, LoadStep(l) \/ KillLoader(l) PROVE BpfInv' /\ RegStep
  <2>1. CASE ProbePinned(l)
    BY Zenon, <2>1, ProbePinnedStep
  <2>2. CASE ProbeMissing(l)
    BY Zenon, <2>2, ProbeMissingStep
  <2>3. CASE ProbeSkip(l)
    BY Zenon, <2>3, ProbeSkipStep
  <2>4. CASE CreateMap(l)
    BY Zenon, <2>4, CreateMapStep
  <2>5. CASE KernelRefuses(l)
    BY <2>5, StopStep, Zenon DEF KernelRefuses, Fail
  <2>6. CASE PlacePinned(l)
    BY Zenon, <2>6, PlacePinnedStep
  <2>7. CASE InsertInner(l)
    BY Zenon, <2>7, InsertInnerStep
  <2>8. CASE KillLoader(l)
    BY <2>8, StopStep, Zenon DEF KillLoader
  <2> QED
    BY Zenon, <1>2, <2>1, <2>2, <2>3, <2>4, <2>5, <2>6, <2>7, <2>8 DEF LoadStep
<1>3. ASSUME NEW n \in MapNames, RemovePin(n) PROVE BpfInv' /\ RegStep
  BY Zenon, <1>3, RemovePinStep
<1> QED
  BY Zenon, <1>1, <1>2, <1>3 DEF BpfNext

----------------------------------------------------------------------------

\* Pinning is atomic to the loaders of BPF objects: whatever their number, their objects and
\* the interleaving of the steps of bpf_map_attach, and although pins are removed and
\* loaders die in between, they see a registry of maps.
THEOREM PinningIsAtomic == BpfSpec => PinningAtomic
<1>1. BpfInit => BpfInv /\ Registry!RegInit
  BY Zenon, BpfInitInv
<1>2. BpfInv /\ [BpfNext]_bpfVars => BpfInv' /\ [Registry!RegNext]_(Registry!regVars)
  BY Zenon, BpfStepInv
<1> QED
  BY <1>1, <1>2, PTL DEF BpfSpec, PinningAtomic, Registry!RegSpec

----------------------------------------------------------------------------
(* A loader that is through has attached every map of its object, each of  *)
(* the shape the object asks for.                                          *)

Attaching(r) == r.pc \in {"probe", "create", "pin"}

\* The maps up to the place n are attached, or left to the second loop.
FilledTo(r, n, len) ==
  /\ r.pass = 1 => \A k \in 1..len : k <= n => r.fds[k] > 0 \/ (r.fds[k] = -1 /\ r.have > 0)
  /\ r.pass = 2 => /\ r.have > 0
                   /\ \A k \in 1..len : r.fds[k] # 0 /\ (k <= n => r.fds[k] > 0)

Filled(r, len) ==
  /\ Attaching(r) => FilledTo(r, r.i - 1, len)
  /\ r.pc \in {"insert", "done"} => \A k \in 1..len : r.fds[k] > 0

Fits(r, o, ms, s) ==
  /\ s.fdinfo # "zero" => \A k \in 1..Len(o) : r.fds[k] > 0 => ms[r.fds[k]].spec = o[k].spec
  /\ r.pc = "pin" => ms[r.new].spec = o[r.i].spec

DoneInv == \A l \in Loaders : Filled(load[l], Len(Object(l))) /\ Fits(load[l], Object(l), maps, bset)

\* Going on from a place up to which the maps are attached.
LEMMA FilledNext ==
  ASSUME NEW l, NEW r \in LoadRec, Len(Object(l)) \in Nat, r.i \in 1..Len(Object(l)),
         r.fds \in [1..Len(Object(l)) -> Int],
         \/ r.pc = "probe" /\ FilledTo(r, r.i, Len(Object(l)))
         \/ r.pc = "insert" /\ \A k \in 1..Len(Object(l)) : r.fds[k] > 0,
         NEW q, q = NextMap(l, r)
  PROVE  Filled(q, Len(Object(l))) /\ q.pc # "pin" /\ q.fds = r.fds
<1> DEFINE len == Len(Object(l))
<1>1. CASE r.i < len
  <2>1. q = [r EXCEPT !.i = r.i + 1]
    BY Zenon, <1>1 DEF NextMap
  <2>2. q.i - 1 = r.i /\ q.fds = r.fds /\ q.pc = r.pc /\ q.pass = r.pass /\ q.have = r.have
    BY <2>1 DEF LoadRec
  <2> QED
    BY Zenon, <2>2 DEF Filled, FilledTo, Attaching
<1>2. CASE ~(r.i < len) /\ (r.pc = "insert" \/ r.have = 0)
  <2>1. q = [r EXCEPT !.pc = "done"]
    BY Zenon, <1>2 DEF NextMap
  <2>2. q.fds = r.fds /\ q.pc = "done" /\ r.pass \in {1, 2} /\ r.i = len
    BY <2>1, <1>2 DEF LoadRec
  <2>3. \A k \in 1..len : r.fds[k] > 0
    BY <1>2, <2>2 DEF FilledTo
  <2> QED
    BY Zenon, <2>2, <2>3 DEF Filled, Attaching
<1>3. CASE ~(r.i < len) /\ ~(r.pc = "insert" \/ r.have = 0) /\ r.pass = 1
  <2>1. q = [r EXCEPT !.i = 1, !.pass = 2]
    BY Zenon, <1>3 DEF NextMap
  <2>2. q.i = 1 /\ q.pass = 2 /\ q.fds = r.fds /\ q.pc = "probe" /\ q.have = r.have /\ r.i = len
    BY <2>1, <1>3 DEF LoadRec
  <2>3. r.have > 0 /\ \A k \in 1..len : r.fds[k] # 0
    BY <1>3, <2>2 DEF FilledTo, LoadRec
  <2> QED
    BY <2>2, <2>3 DEF Filled, FilledTo, Attaching
<1>4. CASE ~(r.i < len) /\ ~(r.pc = "insert" \/ r.have = 0) /\ r.pass # 1
  <2>1. q = [r EXCEPT !.i = 1, !.pc = "insert"]
    BY Zenon, <1>4 DEF NextMap
  <2>2. q.fds = r.fds /\ q.pc = "insert" /\ r.pass = 2 /\ r.i = len
    BY <2>1, <1>4 DEF LoadRec
  <2>3. \A k \in 1..len : r.fds[k] > 0
    BY <1>4, <2>2 DEF FilledTo
  <2> QED
    BY Zenon, <2>2, <2>3 DEF Filled, Attaching
<1> QED
  BY Zenon, <1>1, <1>2, <1>3, <1>4

\* The steps of l leave the other loaders and the shapes of the maps alone.
LEMMA DoneOthers ==
  ASSUME BpfInv, DoneInv, NEW l \in Loaders, NEW q, Upd(l, q), bset' = bset,
         Len(maps) <= Len(maps'), \A m \in 1..Len(maps) : maps'[m].spec = maps[m].spec,
         Filled(q, Len(Object(l))), Fits(q, Object(l), maps', bset)
  PROVE  DoneInv'
<1>1. \A k \in Loaders : Object(k)' = Object(k)
  BY Zenon DEF Object
<1>2. load'[l] = q /\ \A k \in Loaders : k # l => load'[k] = load[k]
  BY Zenon DEF BpfInv, Upd
<1> SUFFICES ASSUME NEW k \in Loaders
             PROVE  Filled(load'[k], Len(Object(k))) /\ Fits(load'[k], Object(k), maps', bset)
  BY Zenon, <1>1 DEF DoneInv
<1>3. CASE k = l
  BY Zenon, <1>2, <1>3
<1>4. CASE k # l
  <2>1. load'[k] = load[k] /\ Filled(load[k], Len(Object(k))) /\ Fits(load[k], Object(k), maps, bset)
    BY Zenon, <1>2, <1>4 DEF DoneInv
  <2>2. load[k].fds \in [1..Len(Object(k)) -> (-1)..Len(maps)] /\ Len(maps) \in Nat
        /\ (load[k].pc = "pin" => load[k].new \in 1..Len(maps))
    BY DEF BpfInv, LoadOK
  <2>3. \A i \in 1..Len(Object(k)) : load[k].fds[i] > 0 => load[k].fds[i] \in 1..Len(maps)
    BY <2>2
  <2> QED
    BY <2>1, <2>2, <2>3, SMTT(30) DEF Fits
<1> QED
  BY Zenon, <1>3, <1>4

\* A loader that attaches a map of the right shape.
LEMMA DoneAttach ==
  ASSUME BpfInv, DoneInv, NEW l \in Loaders, NEW m, Attached(l, m), bset' = bset,
         Len(maps) <= Len(maps'), Len(maps') \in Nat,
         \A k \in 1..Len(maps) : maps'[k].spec = maps[k].spec,
         Attaching(load[l]), m \in 1..Len(maps'),
         bset.fdinfo # "zero" => maps'[m].spec = Current(l).spec
  PROVE  DoneInv'
<1> DEFINE r == load[l]
           o == Object(l)
           s == Bind(r, m)
           q == NextMap(l, s)
<1>1. /\ r \in LoadRec /\ r.fds \in [1..Len(o) -> (-1)..Len(maps)] /\ Len(maps) \in Nat
      /\ Filled(r, Len(o)) /\ Fits(r, o, maps, bset)
  <2>1. LoadOK(r, o, Len(maps)) /\ Len(maps) \in Nat
    BY DEF BpfInv
  <2> QED
    BY Zenon, <2>1 DEF LoadOK, DoneInv
<1>2. r.i \in 1..Len(o) /\ Len(o) \in Nat
  BY Zenon, CurrentType DEF Attaching
<1>3. /\ s.i = r.i /\ s.pc = "probe" /\ s.pass = r.pass /\ s.have = r.have
      /\ s.fds = [r.fds EXCEPT ![r.i] = m]
  BY Zenon, <1>1 DEF Bind, LoadRec
<1>4. s \in LoadRec
  <2> DEFINE n == Len(maps)
             p == Len(maps')
             len == Len(o)
  <2>1. /\ r \in LoadRec /\ n \in Nat /\ p \in Nat /\ m \in 1..p /\ n <= p /\ len \in Nat
        /\ r.i \in 1..len /\ FdsIn(r.fds, len, n)
    BY SMTT(20), <1>1, <1>2 DEF FdsIn
  <2> HIDE DEF r, o, n, p, len
  <2> QED
    BY <2>1, BindFields, Zenon
<1>5. s.fds \in [1..Len(o) -> Int] /\ s.fds[r.i] = m /\ \A k \in 1..Len(o) : k # r.i => s.fds[k] = r.fds[k]
  BY <1>1, <1>2, <1>3
<1> HIDE DEF s
<1>6. FilledTo(s, s.i, Len(o))
  <2>1. FilledTo(r, r.i - 1, Len(o))
    BY Zenon, <1>1 DEF Filled
  <2> QED
    BY <2>1, <1>2, <1>3, <1>5, SMTT(30) DEF FilledTo
<1>7. Filled(q, Len(o)) /\ q.pc # "pin" /\ q.fds = s.fds
  <2>1. s.i \in 1..Len(o) /\ s.fds \in [1..Len(o) -> Int] /\ s.pc = "probe"
    BY Zenon, <1>2, <1>3, <1>5
  <2> QED
    BY <2>1, <1>2, <1>4, <1>6, FilledNext, Zenon
<1>8. Fits(q, o, maps', bset)
  <2> SUFFICES ASSUME bset.fdinfo # "zero", NEW k \in 1..Len(o), q.fds[k] > 0
               PROVE  maps'[q.fds[k]].spec = o[k].spec
    BY Zenon, <1>7 DEF Fits
  <2>1. CASE k = r.i
    BY <2>1, <1>5, <1>7, SMTT(30) DEF Current
  <2>2. CASE k # r.i
    <3>1. q.fds[k] = r.fds[k] /\ r.fds[k] \in 1..Len(maps)
      <4>1. q.fds[k] = r.fds[k]
        BY Zenon, <2>2, <1>5, <1>7
      <4>2. r.fds[k] \in (-1)..Len(maps) /\ Len(maps) \in Nat
        BY Zenon, <1>1
      <4>3. r.fds[k] > 0
        BY Zenon, <4>1
      <4> DEFINE x == r.fds[k]
                 n == Len(maps)
      <4>4. x \in (-1)..n /\ n \in Nat /\ x > 0
        BY Zenon, <4>2, <4>3
      <4> HIDE DEF x, n
      <4>5. x \in 1..n
        BY SMTT(20), <4>4
      <4> QED
        BY Zenon, <4>1, <4>5 DEF x, n
    <3> QED
      BY Zenon, <3>1, <1>1 DEF Fits
  <2> QED
    BY Zenon, <2>1, <2>2
<1>9. Upd(l, q)
  BY Zenon DEF Attached, s, Bind
<1> HIDE DEF q
<1> QED
  BY SMTT(20), <1>7, <1>8, <1>9, DoneOthers

\* A loader that only goes on to another label.
LEMMA DoneLabel ==
  ASSUME BpfInv, DoneInv, NEW l \in Loaders, NEW q, Upd(l, q), bset' = bset,
         Len(maps) <= Len(maps'), \A k \in 1..Len(maps) : maps'[k].spec = maps[k].spec,
         q.fds = load[l].fds,
         Attaching(q) => /\ Attaching(load[l]) /\ q.i = load[l].i /\ q.pass = load[l].pass
                         /\ q.have = load[l].have,
         q.pc \notin {"insert", "done"},
         q.pc = "pin" => maps'[q.new].spec = Current(l).spec
  PROVE  DoneInv'
<1>1. /\ load[l].fds \in [1..Len(Object(l)) -> (-1)..Len(maps)] /\ Len(maps) \in Nat
      /\ Filled(load[l], Len(Object(l))) /\ Fits(load[l], Object(l), maps, bset)
  <2>1. LoadOK(load[l], Object(l), Len(maps)) /\ Len(maps) \in Nat
    BY DEF BpfInv
  <2>2. Filled(load[l], Len(Object(l))) /\ Fits(load[l], Object(l), maps, bset)
    BY Zenon DEF DoneInv
  <2>3. load[l].fds \in [1..Len(Object(l)) -> (-1)..Len(maps)]
    BY Zenon, <2>1 DEF LoadOK
  <2> QED
    BY <2>1, <2>2, <2>3, Zenon
<1>2. Filled(q, Len(Object(l)))
  BY Zenon, <1>1 DEF Filled, FilledTo
<1>3. \A k \in 1..Len(Object(l)) : q.fds[k] > 0 => q.fds[k] \in 1..Len(maps)
  BY <1>1
<1>4. q.pc = "pin" => q.i = load[l].i
  BY SMTT(20) DEF Attaching
<1>5. Fits(q, Object(l), maps', bset)
  BY <1>1, <1>3, <1>4, SMTT(30) DEF Fits, Current
<1> QED
  BY Zenon, <1>2, <1>5, DoneOthers

\* Every step keeps what a loader has attached filled and of the right shape.
LEMMA DoneStep ==
  ASSUME BpfInv, DoneInv, [BpfNext]_bpfVars
  PROVE  DoneInv'
<1>1. CASE UNCHANGED bpfVars
  <2>1. \A k \in Loaders : Object(k)' = Object(k)
    BY Zenon, <1>1 DEF bpfVars, Object
  <2> QED
    BY Zenon, <2>1, <1>1 DEF bpfVars, DoneInv
<1>2. ASSUME NEW n \in MapNames, RemovePin(n) PROVE DoneInv'
  <2>1. \A k \in Loaders : Object(k)' = Object(k)
    BY Zenon, <1>2 DEF RemovePin, Object
  <2> QED
    BY Zenon, <2>1, <1>2 DEF RemovePin, DoneInv
<1>3. ASSUME NEW l \in Loaders, NEW s \in {"failed", "killed"}, Upd(l, [load[l] EXCEPT !.pc = s]),
             UNCHANGED <<bset, maps>>
      PROVE  DoneInv'
  <2> DEFINE q == [load[l] EXCEPT !.pc = s]
  <2>1. load[l] \in LoadRec /\ Len(maps) \in Nat
    BY DEF BpfInv
  <2>2. q.fds = load[l].fds /\ q.pc = s
    BY Zenon, <2>1 DEF LoadRec
  <2>3. Upd(l, q) /\ bset' = bset /\ maps' = maps
    BY Zenon, <1>3
  <2> HIDE DEF q
  <2> QED
    BY <2>1, <2>2, <2>3, DoneLabel DEF Attaching
<1>4. ASSUME NEW l \in Loaders, LoadStep(l) PROVE DoneInv'
  <2> DEFINE r == load[l]
             o == Object(l)
  <2>1. /\ r \in LoadRec /\ LoadOK(r, o, Len(maps)) /\ maps \in Seq(MapRec) /\ Len(maps) \in Nat
        /\ r.fds \in [1..Len(o) -> (-1)..Len(maps)] /\ Filled(r, Len(o)) /\ Fits(r, o, maps, bset)
    <3>1. r \in LoadRec /\ LoadOK(r, o, Len(maps)) /\ maps \in Seq(MapRec) /\ Len(maps) \in Nat
      BY DEF BpfInv
    <3> QED
      BY Zenon, <3>1 DEF LoadOK, DoneInv
  <2>2. CASE ProbePinned(l)
    <3>1. UNCHANGED <<bset, maps>> /\ Attaching(r) /\ Pinned(l)
      BY Zenon, <2>2 DEF ProbePinned, Probes, Attaching
    <3>2. CASE ~Selfcheck(l)
      BY <2>2, <3>1, <3>2, <1>3, Zenon DEF ProbePinned, Fail
    <3>3. CASE Selfcheck(l)
      <4> DEFINE m == pins[Current(l).name]
      <4>1. m \in 1..Len(maps)
        BY <3>1, CurrentType DEF BpfInv, Pinned, Attaching
      <4>2. Attached(l, m) /\ (bset.fdinfo # "zero" => maps[m].spec = Current(l).spec)
        BY Zenon, <2>2, <3>3 DEF ProbePinned, Selfcheck
      <4> HIDE DEF m
      <4> QED
        BY <4>1, <4>2, <3>1, <2>1, DoneAttach
    <3> QED
      BY Zenon, <3>2, <3>3
  <2>3. CASE ProbeMissing(l)
    <3>1. UNCHANGED <<bset, maps>> /\ r.pc = "probe" /\ Attaching(r)
      BY Zenon, <2>3 DEF ProbeMissing, Probes, Attaching
    <3>2. r.i \in 1..Len(o) /\ Len(o) \in Nat
      BY Zenon, <3>1, CurrentType
    <3>3. CASE ~NoInner(l) /\ Current(l).outer /\ r.pass = 1
      <4> DEFINE s == [r EXCEPT !.fds[r.i] = -1, !.have = r.have + 1]
                 f == [r.fds EXCEPT ![r.i] = -1]
                 q == NextMap(l, s)
      <4>1. /\ s.fds = f /\ s.i = r.i /\ s.pc = "probe" /\ s.pass = 1 /\ s.have = r.have + 1
            /\ r.have \in Nat
        BY Zenon, <2>1, <3>1, <3>3 DEF LoadRec
      <4>2. f \in [1..Len(o) -> Int] /\ f[r.i] = -1 /\ \A k \in 1..Len(o) : k # r.i => f[k] = r.fds[k]
        BY <2>1, <3>2
      <4>3. s \in LoadRec
        <5>1. f \in Fds
          BY Zenon, <4>2, <3>2 DEF Fds
        <5>2. [r EXCEPT !.fds = f] \in LoadRec
          BY <5>1, <2>1, Zenon DEF LoadRec
        <5>3. s = [[r EXCEPT !.fds = f] EXCEPT !.have = r.have + 1]
          BY Zenon, <2>1 DEF LoadRec
        <5>4. r.have + 1 \in Nat
          BY <4>1
        <5> HIDE DEF f, s
        <5> QED
          BY <5>2, <5>3, <5>4, Zenon DEF LoadRec
      <4>4. Upd(l, q)
        BY <2>3, <3>3, SMTT(30) DEF ProbeMissing
      <4> HIDE DEF f, s
      <4>5. FilledTo(s, s.i, Len(o))
        <5>1. FilledTo(r, r.i - 1, Len(o))
          BY Zenon, <2>1, <3>1 DEF Filled
        <5> QED
          BY <5>1, <4>1, <4>2, <3>2, <3>3, SMTT(30) DEF FilledTo
      <4>6. Filled(q, Len(o)) /\ q.pc # "pin" /\ q.fds = s.fds
        <5>1. s.i \in 1..Len(o) /\ s.fds \in [1..Len(o) -> Int]
          BY <3>2, <4>1, <4>2, SMTT(30)
        <5> QED
          BY <5>1, <3>2, <4>1, <4>3, <4>5, FilledNext, Zenon
      <4>7. Fits(q, o, maps', bset)
        <5>1. \A k \in 1..Len(o) : q.fds[k] > 0 => q.fds[k] = r.fds[k]
          BY <4>1, <4>2, <4>6, SMTT(30)
        <5> QED
          BY <5>1, <4>6, <2>1, <3>1, SMTT(30) DEF Fits
      <4> HIDE DEF q
      <4> QED
        BY <4>4, <4>6, <4>7, <3>1, <2>1, DoneOthers
    <3>4. CASE ~NoInner(l) /\ ~(Current(l).outer /\ r.pass = 1)
      <4> DEFINE q == [r EXCEPT !.pc = "create"]
      <4>1. Upd(l, q)
        BY Zenon, <2>3, <3>4 DEF ProbeMissing
      <4>2. q.fds = r.fds /\ q.pc = "create" /\ q.i = r.i /\ q.pass = r.pass /\ q.have = r.have
        BY Zenon, <2>1 DEF LoadRec
      <4> HIDE DEF q
      <4> QED
        BY <4>1, <4>2, <3>1, <2>1, DoneLabel
    <3>5. CASE NoInner(l)
      BY <2>3, <3>1, <3>5, <1>3, Zenon DEF ProbeMissing, Fail
    <3> QED
      BY Zenon, <3>3, <3>4, <3>5
  <2>4. CASE ProbeSkip(l)
    <3>1. UNCHANGED <<bset, maps>> /\ r.pc = "probe" /\ ~Probes(l) /\ Upd(l, NextMap(l, r))
      BY <2>4, SMTT(30) DEF ProbeSkip
    <3>2. r.i \in 1..Len(o) /\ Len(o) \in Nat
      BY Zenon, <3>1, CurrentType
    <3>3. FilledTo(r, r.i, Len(o))
      <4>1. r.pass = 2 /\ r.fds[r.i] # -1 /\ r.fds[r.i] \in (-1)..Len(maps)
        <5>1. r.pass = 2 /\ r.fds[r.i] # -1
          BY Zenon, <3>1, <2>1 DEF Probes, LoadRec
        <5>2. r.fds[r.i] \in (-1)..Len(maps)
          BY <3>2, <2>1, Zenon
        <5> QED
          BY Zenon, <5>1, <5>2
      <4>2. FilledTo(r, r.i - 1, Len(o))
        BY Zenon, <2>1, <3>1 DEF Filled, Attaching
      <4>3. r.fds[r.i] > 0
        <5>1. r.fds[r.i] # 0
          BY Zenon, <4>1, <4>2, <3>2 DEF FilledTo
        <5>2. Len(maps) \in Nat
          BY Zenon, <2>1
        <5> QED
          BY <5>1, <5>2, <4>1
      <4>4. \A k \in 1..Len(o) : k <= r.i => k <= r.i - 1 \/ k = r.i
        BY <3>2
      <4> QED
        BY Zenon, <4>1, <4>2, <4>3, <4>4 DEF FilledTo
    <3> DEFINE q == NextMap(l, r)
    <3>4. Filled(q, Len(o)) /\ q.pc # "pin" /\ q.fds = r.fds
      <4>1. r.fds \in [1..Len(o) -> Int] /\ r \in LoadRec /\ r.pc = "probe"
        BY <2>1, <3>1
      <4> HIDE DEF r
      <4> QED
        BY <4>1, <3>2, <3>3, FilledNext, Zenon
    <3> HIDE DEF q
    <3>5. Fits(q, o, maps', bset)
      BY Zenon, <3>1, <3>4, <2>1 DEF Fits
    <3> QED
      BY <3>1, <3>4, <3>5, <2>1, DoneOthers DEF q
  <2>5. CASE CreateMap(l)
    <3> DEFINE x == [spec |-> Current(l).spec, inner |-> [k \in DOMAIN Object(l) |-> 0]]
    <3>1. r.pc = "create" /\ bset' = bset /\ maps' = Append(maps, x)
      BY Zenon, <2>5 DEF CreateMap
    <3>2. x \in MapRec /\ x.spec = Current(l).spec
      BY Zenon, <3>1, NewMapType
    <3> HIDE DEF x
    <3>3. /\ Len(maps') = Len(maps) + 1 /\ Len(maps') \in Nat /\ maps'[Len(maps) + 1] = x
          /\ \A k \in 1..Len(maps) : maps'[k] = maps[k]
      BY <3>1, <3>2, <2>1
    <3>4. Len(maps) <= Len(maps') /\ \A k \in 1..Len(maps) : maps'[k].spec = maps[k].spec
      BY <3>3, <2>1
    <3>5. CASE Current(l).pin
      <4> DEFINE q == [r EXCEPT !.pc = "pin", !.new = Len(maps) + 1]
      <4>1. Upd(l, q)
        BY Zenon, <2>5, <3>5 DEF CreateMap
      <4>2. /\ q.fds = r.fds /\ q.pc = "pin" /\ q.i = r.i /\ q.pass = r.pass /\ q.have = r.have
            /\ q.new = Len(maps) + 1
        BY Zenon, <2>1 DEF LoadRec
      <4> HIDE DEF q
      <4> QED
        BY Zenon, <4>1, <4>2, <3>1, <3>2, <3>3, <3>4, DoneLabel DEF Attaching
    <3>6. CASE ~Current(l).pin
      <4> DEFINE m == Len(maps) + 1
      <4>1. Attached(l, m)
        BY SMTT(20), <2>5, <3>6 DEF CreateMap
      <4>2. m \in 1..Len(maps') /\ maps'[m].spec = Current(l).spec
        BY <3>2, <3>3, <2>1
      <4> HIDE DEF m
      <4> QED
        BY Zenon, <4>1, <4>2, <3>1, <3>3, <3>4, DoneAttach DEF Attaching
    <3> QED
      BY Zenon, <3>5, <3>6
  <2>6. CASE KernelRefuses(l)
    BY <2>6, <1>3, Zenon DEF KernelRefuses, Fail
  <2>7. CASE PlacePinned(l)
    <3>1. r.pc = "pin" /\ UNCHANGED <<bset, maps>> /\ Attaching(r)
      BY Zenon, <2>7 DEF PlacePinned, Attaching
    <3>2. CASE Taken(l) /\ r.retried
      BY <2>7, <3>1, <3>2, <1>3, Zenon DEF PlacePinned, AfterTaken, Fail
    <3>3. CASE Taken(l) /\ ~r.retried
      <4> DEFINE q == [r EXCEPT !.pc = "probe", !.retried = TRUE]
      <4>1. Upd(l, q)
        BY Zenon, <2>7, <3>3 DEF PlacePinned, AfterTaken
      <4>2. q.fds = r.fds /\ q.pc = "probe" /\ q.i = r.i /\ q.pass = r.pass /\ q.have = r.have
        BY Zenon, <2>1 DEF LoadRec
      <4> HIDE DEF q
      <4> QED
        BY <4>1, <4>2, <3>1, <2>1, DoneLabel
    <3>4. CASE ~Taken(l)
      <4> DEFINE m == r.new
      <4>1. Attached(l, m)
        BY SMTT(20), <2>7, <3>4 DEF PlacePinned
      <4>2. m \in 1..Len(maps) /\ maps[m].spec = Current(l).spec
        BY Zenon, <3>1, <2>1 DEF LoadOK, Fits, Current
      <4> HIDE DEF m
      <4> QED
        BY <4>1, <4>2, <3>1, <2>1, DoneAttach
    <3> QED
      BY Zenon, <3>2, <3>3, <3>4
  <2>8. CASE InsertInner(l)
    <3>1. /\ bset' = bset /\ r.pc = "insert" /\ Upd(l, NextMap(l, r)) /\ maps' = Inserted(l)
      BY Zenon, <2>8 DEF InsertInner
    <3>2. r.i \in 1..Len(o) /\ Len(o) \in Nat
      BY Zenon, <3>1, CurrentType
    <3>3. DOMAIN maps' = DOMAIN maps /\ \A k \in 1..Len(maps) : maps'[k].spec = maps[k].spec
      <4>1. \A k \in 1..Len(maps) : maps[k] \in MapRec
        BY <2>1, SMTT(30)
      <4> QED
        BY <4>1, <3>1, <2>1 DEF Inserted, MapRec
    <3>4. Len(maps') = Len(maps)
      BY <2>8, <2>1, <3>1, <3>3, InsertInnerStep, SMTT(30) DEF BpfInv
    <3> DEFINE q == NextMap(l, r)
    <3>5. Filled(q, Len(o)) /\ q.pc # "pin" /\ q.fds = r.fds
      <4>1. r.fds \in [1..Len(o) -> Int] /\ \A k \in 1..Len(o) : r.fds[k] > 0
        BY <2>1, <3>1, SMTT(30) DEF Filled
      <4> QED
        BY <4>1, <3>1, <3>2, <2>1, FilledNext, SMTT(30)
    <3> HIDE DEF q
    <3>6. Fits(q, o, maps', bset)
      <4>1. \A k \in 1..Len(o) : q.fds[k] > 0 => q.fds[k] \in 1..Len(maps)
        BY <3>5, <2>1
      <4> QED
        BY <4>1, <3>3, <3>5, <2>1, SMTT(30) DEF Fits
    <3>7. Upd(l, q) /\ Len(maps) <= Len(maps')
      BY <3>1, <3>4, <2>1 DEF q
    <3> QED
      BY Zenon, <3>1, <3>3, <3>5, <3>6, <3>7, DoneOthers
  <2> QED
    BY SMTT(20), <1>4, <2>2, <2>3, <2>4, <2>5, <2>6, <2>7, <2>8 DEF LoadStep
<1> QED
  BY <1>1, <1>2, <1>3, <1>4, Zenon DEF BpfNext, KillLoader

\* A loader that starts is at its first map and has attached none.
LEMMA DoneInit == BpfInit => DoneInv
<1> SUFFICES ASSUME BpfInit, NEW l \in Loaders
             PROVE  Filled(load[l], Len(Object(l))) /\ Fits(load[l], Object(l), maps, bset)
  BY Zenon DEF DoneInv
<1> DEFINE o == Object(l)
<1>1. o \in Seq(MapDef) /\ Len(o) \in Nat /\ DOMAIN o = 1..Len(o)
  BY Zenon, ObjectType DEF BpfInit
<1>2. load[l] = [pc |-> IF o = <<>> THEN "done" ELSE "probe", pass |-> 1, i |-> 1,
                 fds |-> [k \in DOMAIN o |-> 0], new |-> 0, have |-> 0, retried |-> FALSE]
  BY Zenon DEF BpfInit, Load0, Object
<1>3. /\ load[l].pass = 1 /\ load[l].i = 1 /\ load[l].pc \in {"done", "probe"}
      /\ load[l].pc = "done" => Len(o) = 0
      /\ \A k \in 1..Len(o) : load[l].fds[k] = 0
  BY <1>1, <1>2
<1>4. Filled(load[l], Len(o))
  BY <1>1, <1>3 DEF Filled, FilledTo, Attaching
<1>5. Fits(load[l], o, maps, bset)
  BY <1>3 DEF Fits
<1> QED
  BY Zenon, <1>4, <1>5

\* Both invariants together are inductive.
LEMMA BothInv == BpfSpec => [](BpfInv /\ DoneInv)
<1>1. BpfInv /\ DoneInv /\ [BpfNext]_bpfVars => (BpfInv /\ DoneInv)'
  BY Zenon, BpfStepInv, DoneStep
<1> QED
  BY <1>1, BpfInitInv, DoneInit, PTL DEF BpfSpec

\* As long as nobody removes a pin, all loaders that are through have the same map under a
\* name (the retry of bpf_map_attach).
THEOREM LoadersShare == BpfSpec => []MapsShared
<1>1. BpfInv /\ DoneInv => MapsShared
  <2> SUFFICES ASSUME BpfInv, DoneInv, removed = 0, NEW l \in Loaders, Loaded(l),
                      NEW i \in DOMAIN Object(l), Object(l)[i].pin
               PROVE  load[l].fds[i] = pins[Object(l)[i].name]
    BY Zenon DEF MapsShared
  <2>1. DOMAIN Object(l) = 1..Len(Object(l))
    BY Zenon, ObjectType DEF BpfInv
  <2>2. load[l].fds[i] > 0
    BY Zenon, <2>1 DEF DoneInv, Filled, Loaded
  <2> QED
    BY Zenon, <2>2 DEF BpfInv, Sharing
<1> QED
  BY <1>1, BothInv, PTL

\* Where the kernel shows the shapes of maps, a loader that is through has for every map of its
\* object one of the right shape: the check of bpf_map_attach covers the map that it finds
\* after it lost the race for the name.
THEOREM LoadersFit == BpfSpec => []MapsFit
<1>1. BpfInv /\ DoneInv => MapsFit
  <2> SUFFICES ASSUME BpfInv, DoneInv, NEW l \in Loaders, Loaded(l), NEW i \in DOMAIN Object(l)
               PROVE  bset.fdinfo # "zero" => maps[load[l].fds[i]].spec = Object(l)[i].spec
    BY Zenon DEF MapsFit
  <2>1. DOMAIN Object(l) = 1..Len(Object(l))
    BY Zenon, ObjectType DEF BpfInv
  <2>2. load[l].fds[i] > 0
    BY Zenon, <2>1 DEF DoneInv, Filled, Loaded
  <2> QED
    BY Zenon, <2>1, <2>2 DEF DoneInv, Fits
<1> QED
  BY <1>1, BothInv, PTL

----------------------------------------------------------------------------
(* One retry is enough.                                                    *)

Undisturbed ==
  /\ \A l \in Loaders : \A i \in DOMAIN Object(l) :
       Object(l)[i].outer => Object(l)[i].inner_id /\ InnerFound(l)
  /\ \A l, m \in Loaders : \A i \in DOMAIN Object(l), k \in DOMAIN Object(m) :
       Object(l)[i].name = Object(m)[k].name => Object(l)[i].spec = Object(m)[k].spec
  /\ ~bset.faults /\ bset.removals = 0 /\ bset.fdinfo # "none"

\* Every pinned map has the shape that the objects ask for under its name.
PinsFit(p, ms) == \A l \in Loaders : \A i \in DOMAIN Object(l) :
                    p[Object(l)[i].name] # 0 => ms[p[Object(l)[i].name]].spec = Object(l)[i].spec

\* A loader that probes for the second time finds the map: its name is taken for good.
RetryOK(r, o, p) ==
  /\ r.pc # "failed"
  /\ Attaching(r) /\ r.retried => /\ r.pc = "probe" /\ (r.pass = 1 \/ r.fds[r.i] = -1)
                                  /\ o[r.i].pin /\ p[o[r.i].name] # 0

RetryInv == Undisturbed => /\ PinsFit(pins, maps)
                           /\ \A l \in Loaders : RetryOK(load[l], Object(l), pins)

\* A step of l keeps the invariant when the names stay taken by maps of the right shape.
LEMMA RetryOthers ==
  ASSUME BpfInv, RetryInv, NEW l \in Loaders, NEW q, Upd(l, q), bset' = bset,
         \A n \in MapNames : pins[n] # 0 => pins'[n] # 0,
         Undisturbed => PinsFit(pins', maps') /\ RetryOK(q, Object(l), pins')
  PROVE  RetryInv'
<1>1. \A k \in Loaders : Object(k)' = Object(k)
  BY Zenon DEF Object
<1>2. load'[l] = q /\ \A k \in Loaders : k # l => load'[k] = load[k]
  BY Zenon DEF BpfInv, Upd
<1>3. Undisturbed' = Undisturbed
  BY <1>1 DEF Undisturbed, InnerFound
<1> SUFFICES ASSUME Undisturbed
             PROVE  /\ PinsFit(pins, maps)'
                    /\ \A k \in Loaders : RetryOK(load[k], Object(k), pins)'
  BY Zenon, <1>3 DEF RetryInv
<1>4. PinsFit(pins, maps)'
  BY Zenon, <1>1 DEF PinsFit
<1>5. ASSUME NEW k \in Loaders, k # l PROVE RetryOK(load'[k], Object(k), pins')
  <2>1. RetryOK(load[k], Object(k), pins) /\ load'[k] = load[k]
    BY Zenon, <1>2, <1>5 DEF RetryInv
  <2>2. Attaching(load[k]) => Object(k)[load[k].i].name \in MapNames
    BY Zenon, CurrentType DEF Attaching, Current
  <2> QED
    BY Zenon, <2>1, <2>2 DEF RetryOK
<1> QED
  BY Zenon, <1>1, <1>2, <1>4, <1>5

\* Going on to the next map is no retry.
LEMMA NextMapRetries ==
  ASSUME NEW l, NEW r \in LoadRec, NEW q, q = NextMap(l, r)
  PROVE  q.retried = r.retried /\ (q.pc = "failed" => r.pc = "failed")
  BY Zenon DEF NextMap, LoadRec

\* Attaching a map ends the retry.
LEMMA RetryAttach ==
  ASSUME BpfInv, RetryInv, NEW l \in Loaders, NEW m, Attached(l, m), bset' = bset,
         Attaching(load[l]), m \in 1..Len(maps'), Len(maps) <= Len(maps'), Len(maps') \in Nat,
         \A n \in MapNames : pins[n] # 0 => pins'[n] # 0,
         Undisturbed => PinsFit(pins', maps')
  PROVE  RetryInv'
<1> DEFINE r == load[l]
           s == Bind(r, m)
           q == NextMap(l, s)
<1>1. r \in LoadRec /\ r.i \in 1..Len(Object(l)) /\ Len(Object(l)) \in Nat /\ Len(maps) \in Nat
      /\ FdsIn(r.fds, Len(Object(l)), Len(maps))
  BY CurrentType DEF BpfInv, LoadOK, FdsIn, Attaching
<1>2. s \in LoadRec
  <2> DEFINE n == Len(maps)
             p == Len(maps')
             len == Len(Object(l))
  <2>1. /\ r \in LoadRec /\ n \in Nat /\ p \in Nat /\ m \in 1..p /\ n <= p /\ len \in Nat
        /\ r.i \in 1..len /\ FdsIn(r.fds, len, n)
    BY Zenon, <1>1
  <2> HIDE DEF r, n, p, len
  <2> QED
    BY <2>1, BindFields, Zenon
<1>3. s.retried = FALSE /\ s.pc = "probe"
  BY Zenon, <1>1 DEF Bind, LoadRec
<1>4. Upd(l, q)
  BY Zenon DEF Attached, Bind
<1> HIDE DEF s
<1>5. q.retried = FALSE /\ q.pc # "failed"
  BY Zenon, <1>2, <1>3, NextMapRetries
<1> HIDE DEF q
<1> QED
  BY Zenon, <1>4, <1>5, RetryOthers DEF RetryOK

\* No step makes a loader fail that nothing disturbs.
LEMMA RetryStep ==
  ASSUME BpfInv, DoneInv, RetryInv, [BpfNext]_bpfVars
  PROVE  RetryInv'
<1>1. CASE UNCHANGED bpfVars
  <2>1. \A k \in Loaders : Object(k)' = Object(k)
    BY Zenon, <1>1 DEF bpfVars, Object
  <2>2. bset' = bset /\ maps' = maps /\ pins' = pins /\ load' = load
    BY Zenon, <1>1 DEF bpfVars
  <2> QED
    BY <2>1, <2>2 DEF RetryInv, Undisturbed, InnerFound, PinsFit, RetryOK, Attaching
<1>2. ASSUME NEW n \in MapNames, RemovePin(n) PROVE RetryInv'
  <2>1. removed < bset.removals /\ removed \in Nat /\ bset' = bset
    BY Zenon, <1>2 DEF RemovePin, BpfInv
  <2> QED
    BY <2>1 DEF RetryInv, Undisturbed
<1>3. ASSUME NEW l \in Loaders, KillLoader(l) PROVE RetryInv'
  <2> DEFINE q == [load[l] EXCEPT !.pc = "killed"]
  <2>1. Upd(l, q) /\ bset' = bset /\ maps' = maps /\ pins' = pins
    BY Zenon, <1>3 DEF KillLoader
  <2>2. q.pc = "killed"
    BY Zenon DEF BpfInv, LoadRec
  <2> HIDE DEF q
  <2> QED
    BY Zenon, <2>1, <2>2, RetryOthers DEF RetryOK, Attaching, RetryInv
<1>4. ASSUME NEW l \in Loaders, LoadStep(l) PROVE RetryInv'
  <2> DEFINE r == load[l]
             o == Object(l)
  <2>1. /\ r \in LoadRec /\ LoadOK(r, o, Len(maps)) /\ maps \in Seq(MapRec) /\ Len(maps) \in Nat
        /\ Filled(r, Len(o)) /\ Fits(r, o, maps, bset)
    BY DEF BpfInv, DoneInv
  <2>2. Undisturbed => PinsFit(pins, maps) /\ RetryOK(r, o, pins)
    BY Zenon DEF RetryInv
  <2>3. CASE ProbePinned(l)
    <3>1. UNCHANGED <<bset, maps, pins>> /\ Attaching(r) /\ Pinned(l)
      BY Zenon, <2>3 DEF ProbePinned, Probes, Attaching
    <3>2. CASE ~Selfcheck(l)
      <4>1. ~Undisturbed
        <5>1. r.i \in DOMAIN o
          BY Zenon, <3>1, CurrentType DEF Attaching
        <5> QED
          <6>1. bset.fdinfo \in {"shown", "zero", "none"}
            BY Zenon, BpfAssumption DEF BpfInv
          <6> QED
            BY Zenon, <5>1, <6>1, <2>2, <3>1, <3>2
               DEF Undisturbed, PinsFit, Selfcheck, Pinned, Current
      <4>2. Undisturbed' = Undisturbed
        BY <3>1 DEF Undisturbed, Object, InnerFound
      <4> QED
        BY Zenon, <4>1, <4>2 DEF RetryInv
    <3>3. CASE Selfcheck(l)
      <4> DEFINE m == pins[Current(l).name]
      <4>1. m \in 1..Len(maps)
        BY <3>1, CurrentType DEF BpfInv, Pinned, Attaching
      <4>2. Attached(l, m)
        BY Zenon, <2>3, <3>3 DEF ProbePinned
      <4> HIDE DEF m
      <4> QED
        BY <4>1, <4>2, <3>1, <2>1, <2>2, RetryAttach
    <3> QED
      BY Zenon, <3>2, <3>3
  <2>4. CASE ProbeMissing(l)
    <3>1. UNCHANGED <<bset, maps, pins>> /\ r.pc = "probe" /\ Attaching(r) /\ ~Pinned(l)
      BY Zenon, <2>4 DEF ProbeMissing, Probes, Attaching
    <3>2. Undisturbed => r.retried # TRUE
      BY Zenon, <2>2, <3>1 DEF RetryOK, Pinned, Current
    <3>3. CASE ~NoInner(l) /\ Current(l).outer /\ r.pass = 1
      <4> DEFINE s == [r EXCEPT !.fds[r.i] = -1, !.have = r.have + 1]
                 q == NextMap(l, s)
      <4>1. Upd(l, q)
        BY <2>4, <3>3, SMTT(30) DEF ProbeMissing
      <4>2. q.retried = r.retried /\ q.pc # "failed"
        BY <3>1, <2>1, SMTT(30) DEF NextMap, LoadRec
      <4> HIDE DEF q
      <4> QED
        BY Zenon, <4>1, <4>2, <3>1, <3>2, <2>2, RetryOthers DEF RetryOK
    <3>4. CASE ~NoInner(l) /\ ~(Current(l).outer /\ r.pass = 1)
      <4> DEFINE q == [r EXCEPT !.pc = "create"]
      <4>1. Upd(l, q)
        BY Zenon, <2>4, <3>4 DEF ProbeMissing
      <4>2. q.pc = "create" /\ q.retried = r.retried
        BY Zenon, <2>1 DEF LoadRec
      <4> HIDE DEF q
      <4> QED
        BY Zenon, <4>1, <4>2, <3>1, <3>2, <2>2, RetryOthers DEF RetryOK
    <3>5. CASE NoInner(l)
      <4>1. ~Undisturbed
        <5>1. r.i \in DOMAIN o
          BY Zenon, <3>1, CurrentType DEF Attaching
        <5> QED
          BY Zenon, <5>1, <3>5 DEF Undisturbed, NoInner, Current
      <4>2. Undisturbed' = Undisturbed
        BY <3>1 DEF Undisturbed, Object, InnerFound
      <4> QED
        BY Zenon, <4>1, <4>2 DEF RetryInv
    <3> QED
      BY Zenon, <3>3, <3>4, <3>5
  <2>5. CASE ProbeSkip(l)
    <3> DEFINE q == NextMap(l, r)
    <3>1. UNCHANGED <<bset, maps, pins>> /\ r.pc = "probe" /\ ~Probes(l) /\ Upd(l, q)
      BY <2>5, SMTT(30) DEF ProbeSkip
    <3>2. Undisturbed => r.retried # TRUE
      BY Zenon, <2>2, <3>1 DEF RetryOK, Probes, Attaching
    <3>3. q.retried = r.retried /\ q.pc # "failed"
      BY <2>1, <3>1, NextMapRetries
    <3> HIDE DEF q
    <3> QED
      BY Zenon, <3>1, <3>2, <3>3, <2>2, RetryOthers DEF RetryOK
  <2>6. CASE CreateMap(l)
    <3> DEFINE x == [spec |-> Current(l).spec, inner |-> [k \in DOMAIN Object(l) |-> 0]]
    <3>1. r.pc = "create" /\ bset' = bset /\ pins' = pins /\ maps' = Append(maps, x)
      BY Zenon, <2>6 DEF CreateMap
    <3>2. x \in MapRec
      BY Zenon, <3>1, NewMapType
    <3> HIDE DEF x
    <3>3. /\ Len(maps') = Len(maps) + 1 /\ Len(maps') \in Nat
          /\ \A k \in 1..Len(maps) : maps'[k] = maps[k]
      BY <3>1, <3>2, <2>1
    <3>4. Undisturbed => PinsFit(pins', maps')
      <4>1. \A k \in Loaders : \A i \in DOMAIN Object(k) : Object(k)[i].name \in MapNames
        BY Zenon, ObjectType DEF BpfInv, MapDef
      <4>2. \A n \in MapNames : pins[n] # 0 => pins[n] \in 1..Len(maps)
        BY <2>1 DEF BpfInv
      <4> QED
        BY ZenonT(30), <4>1, <4>2, <3>1, <3>3, <2>2 DEF PinsFit
    <3>5. CASE Current(l).pin
      <4> DEFINE q == [r EXCEPT !.pc = "pin", !.new = Len(maps) + 1]
      <4>1. Upd(l, q)
        BY Zenon, <2>6, <3>5 DEF CreateMap
      <4>2. q.pc = "pin" /\ q.retried = r.retried
        BY Zenon, <2>1 DEF LoadRec
      <4>3. Undisturbed => r.retried # TRUE
        BY Zenon, <2>2, <3>1 DEF RetryOK, Attaching
      <4> HIDE DEF q
      <4> QED
        BY Zenon, <4>1, <4>2, <4>3, <3>1, <3>4, RetryOthers DEF RetryOK
    <3>6. CASE ~Current(l).pin
      <4> DEFINE m == Len(maps) + 1
      <4>1. Attached(l, m)
        BY Zenon, <2>6, <3>6 DEF CreateMap
      <4>2. m \in 1..Len(maps')
        BY <3>3, <2>1
      <4> HIDE DEF m
      <4> QED
        BY <4>1, <4>2, <3>1, <3>3, <3>4, <2>1, RetryAttach DEF Attaching
    <3> QED
      BY Zenon, <3>5, <3>6
  <2>7. CASE KernelRefuses(l)
    BY Zenon, <2>7 DEF KernelRefuses, RetryInv, Undisturbed
  <2>8. CASE PlacePinned(l)
    <3>1. r.pc = "pin" /\ UNCHANGED <<bset, maps>> /\ Attaching(r)
      BY Zenon, <2>8 DEF PlacePinned, Attaching
    <3>2. r.i \in 1..Len(o) /\ DOMAIN o = 1..Len(o) /\ Current(l).name \in MapNames
      BY Zenon, <3>1, CurrentType
    <3>3. Undisturbed => ~r.retried
      BY Zenon, <2>2, <3>1 DEF RetryOK
    <3>4. CASE Taken(l) /\ r.retried
      <4>1. Undisturbed' = Undisturbed
        BY SMTT(20), <3>1 DEF Undisturbed, Object, InnerFound
      <4> QED
        BY Zenon, <4>1, <3>3, <3>4 DEF RetryInv
    <3>5. CASE Taken(l) /\ ~r.retried
      <4> DEFINE q == [r EXCEPT !.pc = "probe", !.retried = TRUE]
      <4>1. Upd(l, q) /\ pins' = pins
        BY Zenon, <2>8, <3>5 DEF PlacePinned, AfterTaken
      <4>2. q.fds = r.fds /\ q.pc = "probe" /\ q.i = r.i /\ q.pass = r.pass
        BY Zenon, <2>1 DEF LoadRec
      <4>3. o[r.i].pin /\ pins[o[r.i].name] # 0
        BY Zenon, <2>1, <3>1, <3>5 DEF LoadOK, Taken, Current
      <4>4. r.pass = 1 \/ r.fds[r.i] = -1
        <5>1. r.pass \in {1, 2} /\ r.fds[r.i] \in {-1, 0}
          BY Zenon, <2>1, <3>1 DEF LoadOK, LoadRec
        <5>2. r.pass = 2 => r.fds[r.i] # 0
          BY Zenon, <2>1, <3>1, <3>2 DEF Filled, FilledTo
        <5> QED
          BY Zenon, <5>1, <5>2
      <4> HIDE DEF q
      <4> QED
        BY Zenon, <4>1, <4>2, <4>3, <4>4, <3>1, <2>2, RetryOthers DEF RetryOK
    <3>6. CASE ~Taken(l)
      <4> DEFINE m == r.new
      <4>1. Attached(l, m) /\ pins' = [pins EXCEPT ![Current(l).name] = m]
        BY Zenon, <2>8, <3>6 DEF PlacePinned
      <4>2. m \in 1..Len(maps) /\ maps[m].spec = Current(l).spec
        BY Zenon, <3>1, <2>1 DEF LoadOK, Fits, Current
      <4>3. \A n \in MapNames : pins'[n] = IF n = Current(l).name THEN m ELSE pins[n]
        BY Zenon, <4>1 DEF BpfInv
      <4>4. Undisturbed => PinsFit(pins', maps')
        <5> SUFFICES ASSUME Undisturbed, NEW k \in Loaders, NEW i \in DOMAIN Object(k),
                            pins'[Object(k)[i].name] # 0
                     PROVE  maps[pins'[Object(k)[i].name]].spec = Object(k)[i].spec
          BY Zenon, <3>1 DEF PinsFit
        <5>1. Object(k)[i].name \in MapNames
          BY Zenon, ObjectType DEF BpfInv, MapDef
        <5>2. CASE Object(k)[i].name = Current(l).name
          <6>1. Object(k)[i].spec = Current(l).spec
            BY <5>2, <3>2 DEF Undisturbed, Current
          <6> QED
            BY Zenon, <6>1, <5>1, <5>2, <4>2, <4>3
        <5>3. CASE Object(k)[i].name # Current(l).name
          BY Zenon, <5>1, <5>3, <4>3, <2>2 DEF PinsFit
        <5> QED
          BY Zenon, <5>2, <5>3
      <4>5. \A n \in MapNames : pins[n] # 0 => pins'[n] # 0
        BY <4>2, <4>3, <2>1
      <4> HIDE DEF m
      <4> QED
        <5>1. /\ Attached(l, m) /\ bset' = bset /\ Attaching(load[l]) /\ m \in 1..Len(maps')
              /\ Len(maps) <= Len(maps') /\ Len(maps') \in Nat
          BY <4>1, <4>2, <3>1, <2>1
        <5> QED
          BY <5>1, <4>4, <4>5, RetryAttach, Zenon
    <3> QED
      BY Zenon, <3>4, <3>5, <3>6
  <2>9. CASE InsertInner(l)
    <3> DEFINE q == NextMap(l, r)
    <3>1. /\ UNCHANGED <<bset, pins>> /\ r.pc = "insert" /\ Upd(l, q) /\ maps' = Inserted(l)
      BY Zenon, <2>9 DEF InsertInner
    <3>2. \A k \in 1..Len(maps) : maps'[k].spec = maps[k].spec
      <4>1. \A k \in 1..Len(maps) : maps[k] \in MapRec
        BY <2>1, SMTT(30)
      <4> QED
        BY <4>1, <3>1, <2>1 DEF Inserted, MapRec
    <3>3. Undisturbed => PinsFit(pins', maps')
      <4>1. \A k \in Loaders : \A i \in DOMAIN Object(k) : Object(k)[i].name \in MapNames
        BY Zenon, ObjectType DEF BpfInv, MapDef
      <4>2. \A n \in MapNames : pins[n] # 0 => pins[n] \in 1..Len(maps)
        BY <2>1 DEF BpfInv
      <4> QED
        BY Zenon, <4>1, <4>2, <3>1, <3>2, <2>2 DEF PinsFit
    <3>4. r.i \in 1..Len(o) /\ Len(o) \in Nat
      BY Zenon, <3>1, CurrentType
    <3>5. q.pc \in {"insert", "done"}
      BY Zenon, <3>1, <3>4, <2>1 DEF NextMap, LoadRec
    <3> HIDE DEF q
    <3> QED
      BY Zenon, <3>1, <3>3, <3>5, RetryOthers DEF RetryOK, Attaching
  <2> QED
    BY Zenon, <1>4, <2>3, <2>4, <2>5, <2>6, <2>7, <2>8, <2>9 DEF LoadStep
<1> QED
  BY <1>1, <1>2, <1>3, <1>4, Zenon DEF BpfNext

\* When the objects agree, nobody removes pins and the kernel refuses nothing, no load
\* fails: the map that bpf_place_pinned found in its place is there for the one retry of
\* bpf_map_attach and has the right shape.
THEOREM OneRetrySuffices == BpfSpec => []RetryEnough
<1>1. BpfInit => RetryInv
  <2> SUFFICES ASSUME BpfInit PROVE RetryInv
    BY Zenon
  <2>1. bset \in BpfSetups /\ pins = [n \in MapNames |-> 0]
        /\ load = [l \in Loaders |-> Load0(Object(l))]
    BY Zenon DEF BpfInit, Object
  <2>2. PinsFit(pins, maps)
    BY Zenon, <2>1, ObjectType DEF PinsFit, MapDef
  <2>3. ASSUME NEW l \in Loaders PROVE RetryOK(load[l], Object(l), pins)
    <3>1. load[l].pc \in {"done", "probe"} /\ load[l].retried = FALSE
      BY Zenon, <2>1 DEF Load0
    <3> QED
      BY Zenon, <3>1 DEF RetryOK
  <2> QED
    BY Zenon, <2>2, <2>3 DEF RetryInv
<1>2. BpfInv /\ DoneInv /\ RetryInv /\ [BpfNext]_bpfVars => RetryInv'
  BY Zenon, RetryStep
<1>3. RetryInv => RetryEnough
  BY Zenon DEF RetryInv, Undisturbed, RetryOK, RetryEnough
<1> QED
  BY <1>1, <1>2, <1>3, BothInv, PTL DEF BpfSpec

----------------------------------------------------------------------------
(* The maps of maps are filled.                                            *)

\* Loaders that share a map of maps load the same object.  An inner map is known by its place in
\* the object, so that loaders of different objects would mean different maps by one place.
SameLayout ==
  \A l, m \in Loaders : \A i \in DOMAIN Object(l), j \in DOMAIN Object(m) :
    Object(l)[i].outer /\ Object(l)[i].pin /\ Object(m)[j].pin
    /\ Object(l)[i].name = Object(m)[j].name => Object(m) = Object(l)

\* A map has one name, and one that is not pinned has one user.
OneName ==
  /\ \A n, p \in MapNames : pins[n] # 0 /\ pins[n] = pins[p] => n = p
  /\ \A l \in Loaders : \A i \in DOMAIN Object(l) :
       ~Object(l)[i].pin /\ load[l].fds[i] > 0 =>
         /\ \A n \in MapNames : pins[n] # load[l].fds[i]
         /\ \A m \in Loaders : \A k \in DOMAIN Object(m) :
              load[m].fds[k] = load[l].fds[i] => m = l /\ k = i

\* The loader r creates maps of maps in the second loop, with room for the inner maps of o.
Fresh(r, o, ms) ==
  /\ r.pc \in {"create", "pin"} /\ o[r.i].outer => r.pass = 2
  /\ r.pc = "pin" => DOMAIN ms[r.new].inner = DOMAIN o

\* The loader r is yet to enter its inner map k, or has been stopped.
Fills(r, k) == \/ r.pc \in {"failed", "killed"}
               \/ Attaching(r) /\ r.have > 0
               \/ r.pc = "insert" /\ r.i <= k

\* m is the i-th map of l's object, for l or for whoever comes next.
InUse(l, i, m) ==
  m > 0 /\ (load[l].fds[i] = m \/ (Object(l)[i].pin /\ pins[Object(l)[i].name] = m))

HasInner(l, k, m) ==
  maps[m].inner[k] # 0 /\ (Object(l)[k].pin => maps[m].inner[k] = pins[Object(l)[k].name])

\* Somebody has entered the inner map k into m, or is going to.
Tended(l, i, k, m) ==
  /\ DOMAIN maps[m].inner = DOMAIN Object(l)
  /\ \/ HasInner(l, k, m)
     \/ \E c \in Loaders : Object(c) = Object(l) /\ load[c].fds[i] = m /\ Fills(load[c], k)

OuterInv ==
  /\ OneName
  /\ \A l \in Loaders : Fresh(load[l], Object(l), maps)
  /\ SameLayout /\ removed = 0 =>
       \A l \in Loaders : \A i, k \in DOMAIN Object(l) :
         Outer(Object(l), i) /\ ~Object(l)[k].outer =>
           \A m \in 1..Len(maps) : InUse(l, i, m) => Tended(l, i, k, m)

\* A map of maps and a map that l has attached are the same only in objects that agree.
LEMMA SamePlace ==
  ASSUME BpfInv, OneName, SameLayout, removed = 0, NEW c \in Loaders, NEW l \in Loaders,
         NEW i \in DOMAIN Object(c), NEW j \in DOMAIN Object(l), NEW m, Object(c)[i].outer,
         InUse(c, i, m), load[l].fds[j] = m
  PROVE  Object(l) = Object(c)
<1>1. Object(c)[i].name \in MapNames /\ Object(l)[j].name \in MapNames
  BY Zenon, ObjectType DEF BpfInv, MapDef
<1>2. m > 0
  BY Zenon DEF InUse
<1>3. CASE ~Object(l)[j].pin
  BY <1>1, <1>2, <1>3 DEF OneName, InUse
<1>4. CASE Object(l)[j].pin
  <2>1. pins[Object(l)[j].name] = m
    BY Zenon, <1>2, <1>4 DEF BpfInv, Sharing
  <2>2. Object(c)[i].pin /\ pins[Object(c)[i].name] = m
    <3>1. CASE load[c].fds[i] = m
      <4>1. Object(c)[i].pin
        BY <1>1, <1>2, <2>1, <3>1 DEF OneName
      <4> QED
        BY Zenon, <4>1, <1>2, <3>1 DEF BpfInv, Sharing
    <3> QED
      BY Zenon, <3>1 DEF InUse
  <2>3. Object(c)[i].name = Object(l)[j].name
    BY <1>1, <1>2, <2>1, <2>2 DEF OneName
  <2> QED
    BY Zenon, <2>2, <2>3, <1>4 DEF SameLayout
<1> QED
  BY Zenon, <1>3, <1>4

\* Taking names away and attaching nothing leaves every map with one name.
LEMMA OneNameKeeps ==
  ASSUME OneName, bset' = bset, \A n \in MapNames : pins'[n] \in {0, pins[n]},
         \A l \in Loaders : \A i \in DOMAIN Object(l) :
           \/ load'[l].fds[i] = load[l].fds[i]
           \/ {load'[l].fds[i], load[l].fds[i]} \subseteq {-1, 0}
  PROVE  OneName'
<1>1. \A k \in Loaders : Object(k)' = Object(k)
  BY Zenon DEF Object
<1>2. \A n, p \in MapNames : pins'[n] # 0 /\ pins'[n] = pins'[p] => n = p
  BY Zenon DEF OneName
<1>3. ASSUME NEW l \in Loaders, NEW i \in DOMAIN Object(l), ~Object(l)[i].pin, load'[l].fds[i] > 0
      PROVE  /\ \A n \in MapNames : pins'[n] # load'[l].fds[i]
             /\ \A m \in Loaders : \A k \in DOMAIN Object(m) :
                  load'[m].fds[k] = load'[l].fds[i] => m = l /\ k = i
  <2>1. load'[l].fds[i] = load[l].fds[i]
    BY <1>3
  <2>2. ASSUME NEW n \in MapNames PROVE pins'[n] # load'[l].fds[i]
    BY <1>3, <2>1 DEF OneName
  <2>3. ASSUME NEW m \in Loaders, NEW k \in DOMAIN Object(m), load'[m].fds[k] = load'[l].fds[i]
        PROVE  m = l /\ k = i
    <3>1. load[m].fds[k] = load[l].fds[i]
      BY <2>1, <2>3, <1>3
    <3> QED
      BY <3>1, <2>1, <1>3 DEF OneName
  <2> QED
    BY Zenon, <2>2, <2>3
<1> QED
  BY <1>1, <1>2, <1>3 DEF OneName

\* A loader with a map of maps to fill goes on until it has entered the inner maps.
LEMMA NextMapFills ==
  ASSUME NEW l, NEW r \in LoadRec, Len(Object(l)) \in Nat, r.i \in 1..Len(Object(l)),
         NEW k \in 1..Len(Object(l)), NEW q, q = NextMap(l, r),
         (r.pc = "probe" /\ r.have > 0) \/ (r.pc = "insert" /\ r.i < k)
  PROVE  Fills(q, k)
<1>1. CASE r.i < Len(Object(l))
  BY <1>1 DEF NextMap, LoadRec, Fills, Attaching
<1>2. CASE ~(r.i < Len(Object(l))) /\ r.pass = 1
  <2>1. r.pc = "probe" /\ r.have > 0 /\ r.have # 0
    BY <1>2
  <2>2. q = [r EXCEPT !.i = 1, !.pass = 2]
    BY Zenon, <1>2, <2>1 DEF NextMap
  <2> QED
    BY Zenon, <2>1, <2>2 DEF LoadRec, Fills, Attaching
<1>3. CASE ~(r.i < Len(Object(l))) /\ r.pass # 1
  <2>1. r.pc = "probe" /\ r.have > 0 /\ r.have # 0
    BY <1>3
  <2>2. q = [r EXCEPT !.i = 1, !.pc = "insert"]
    BY Zenon, <1>3, <2>1 DEF NextMap
  <2>3. q.pc = "insert" /\ q.i = 1
    BY Zenon, <2>2 DEF LoadRec
  <2> QED
    BY <2>3 DEF Fills
<1> QED
  BY Zenon, <1>1, <1>2, <1>3

\* A step of l to q that enters no inner map.
MapsGrow == /\ Len(maps) \in Nat /\ Len(maps') \in Nat /\ Len(maps) <= Len(maps')
            /\ \A m \in 1..Len(maps) : maps'[m] = maps[m]
StepTo(l, q) == Upd(l, q) /\ bset' = bset /\ removed' = removed /\ MapsGrow

\* The names and what is attached stay, and l fills what it was going to.
Keeps(l, q) ==
  /\ \A n \in MapNames : pins[n] # 0 => pins'[n] = pins[n]
  /\ \A i \in DOMAIN Object(l) : load[l].fds[i] > 0 => q.fds[i] = load[l].fds[i]
  /\ \A k \in DOMAIN Object(l) : Fills(load[l], k) => Fills(q, k)

\* A map of maps that comes into use is tended.
NewTended ==
  SameLayout /\ removed = 0 =>
    \A c \in Loaders : \A i \in DOMAIN Object(c) : \A m \in 1..Len(maps') :
      Outer(Object(c), i) /\ InUse(c, i, m)' =>
        InUse(c, i, m) \/ \A k \in DOMAIN Object(c) : Tended(c, i, k, m)'

\* Such a step keeps the maps of maps tended.
LEMMA OuterKeeps ==
  ASSUME BpfInv, OuterInv, NEW l \in Loaders, NEW q, StepTo(l, q), Keeps(l, q), OneName',
         Fresh(q, Object(l), maps'), NewTended
  PROVE  OuterInv'
<1>1. \A k \in Loaders : Object(k)' = Object(k)
  BY Zenon DEF Object, StepTo
<1>2. load'[l] = q /\ \A k \in Loaders : k # l => load'[k] = load[k]
  BY Zenon DEF BpfInv, Upd, StepTo
<1>3. SameLayout' = SameLayout
  BY Zenon, <1>1 DEF SameLayout
<1>4. ASSUME NEW c \in Loaders PROVE Fresh(load'[c], Object(c), maps')
  <2>1. CASE c = l
    BY Zenon, <1>2, <2>1
  <2>2. CASE c # l
    <3>1. Fresh(load[c], Object(c), maps) /\ load'[c] = load[c]
      BY Zenon, <1>2, <2>2 DEF OuterInv
    <3>2. load[c].pc = "pin" => load[c].new \in 1..Len(maps)
      BY DEF BpfInv, LoadOK
    <3> QED
      BY Zenon, <3>1, <3>2 DEF Fresh, StepTo, MapsGrow
  <2> QED
    BY Zenon, <2>1, <2>2
<1>5. ASSUME SameLayout, removed = 0, NEW c \in Loaders,
             NEW i \in DOMAIN Object(c), NEW k \in DOMAIN Object(c),
             Outer(Object(c), i), ~Object(c)[k].outer, NEW m \in 1..Len(maps'), InUse(c, i, m)'
      PROVE  Tended(c, i, k, m)'
  <2>1. CASE ~InUse(c, i, m)
    BY Zenon, <1>5, <2>1 DEF NewTended
  <2>2. CASE InUse(c, i, m)
    <3>1. DOMAIN Object(c) = 1..Len(Object(c)) /\ Object(c)[i].name \in MapNames
          /\ Object(c)[k].name \in MapNames
      BY Zenon, ObjectType DEF BpfInv, MapDef
    <3>2. m \in 1..Len(maps)
      <4>1. load[c].fds[i] \in (-1)..Len(maps) /\ pins[Object(c)[i].name] \in 0..Len(maps)
        BY Zenon, <3>1 DEF BpfInv, LoadOK
      <4> QED
        BY <4>1, <2>2 DEF InUse, StepTo, MapsGrow
    <3>3. Tended(c, i, k, m) /\ maps'[m] = maps[m]
      BY Zenon, <1>5, <2>2, <3>2 DEF OuterInv, StepTo, MapsGrow
    <3>4. CASE HasInner(c, k, m)
      <4>1. HasInner(c, k, m)'
        BY Zenon, <1>1, <3>1, <3>3, <3>4 DEF HasInner, Keeps
      <4> QED
        BY Zenon, <4>1, <1>1, <3>3 DEF Tended
    <3>5. CASE ~HasInner(c, k, m)
      <4>1. PICK w \in Loaders : Object(w) = Object(c) /\ load[w].fds[i] = m /\ Fills(load[w], k)
        BY Zenon, <3>3, <3>5 DEF Tended
      <4>2. load'[w].fds[i] = m /\ Fills(load'[w], k)
        BY <4>1, <1>2, <3>2, <3>1 DEF Keeps
      <4> QED
        BY Zenon, <4>1, <4>2, <1>1, <3>3 DEF Tended
    <3> QED
      BY Zenon, <3>4, <3>5
  <2> QED
    BY Zenon, <2>1, <2>2
<1> QED
  BY Zenon, <1>1, <1>3, <1>4, <1>5 DEF OuterInv, StepTo

\* A loader that goes on to q attaches nothing, and fills what it was going to.
GoesOn(l, q) ==
  /\ \A i \in DOMAIN Object(l) :
       q.fds[i] = load[l].fds[i] \/ {q.fds[i], load[l].fds[i]} \subseteq {-1, 0}
  /\ \A k \in DOMAIN Object(l) : Fills(load[l], k) => Fills(q, k)

\* A step that attaches nothing.
LEMMA OuterQuiet ==
  ASSUME BpfInv, OuterInv, NEW l \in Loaders, NEW q, StepTo(l, q), pins' = pins, GoesOn(l, q),
         Fresh(q, Object(l), maps')
  PROVE  OuterInv'
<1>1. \A k \in Loaders : Object(k)' = Object(k)
  BY Zenon DEF Object, StepTo
<1>2. load'[l] = q /\ \A k \in Loaders : k # l => load'[k] = load[k]
  BY Zenon DEF BpfInv, Upd, StepTo
<1>3. \A c \in Loaders : \A i \in DOMAIN Object(c) :
        load'[c].fds[i] = load[c].fds[i] \/ {load'[c].fds[i], load[c].fds[i]} \subseteq {-1, 0}
  BY Zenon, <1>2 DEF GoesOn
<1>4. OneName'
  BY Zenon, <1>3, OneNameKeeps DEF OuterInv, StepTo
<1>5. NewTended
  BY <1>1, <1>3 DEF InUse, NewTended
<1>6. Keeps(l, q)
  BY DEF Keeps, GoesOn
<1> QED
  BY Zenon, <1>4, <1>5, <1>6, OuterKeeps

\* The map m that l attaches has l's name for it already, or is l's alone.
ByName(l, m) == Probes(l) /\ Current(l).pin /\ pins[Current(l).name] = m /\ pins' = pins
ByCreation(l, m) ==
  /\ load[l].pc \in {"create", "pin"}
  /\ \A n \in MapNames : pins[n] # m
  /\ \A c \in Loaders : \A i \in DOMAIN Object(c) : load[c].fds[i] # m
  /\ DOMAIN maps'[m].inner = DOMAIN Object(l)
  /\ \/ ~Current(l).pin /\ pins' = pins
     \/ /\ Current(l).pin /\ pins[Current(l).name] = 0
        /\ pins' = [pins EXCEPT ![Current(l).name] = m]

\* Attaching a map.
LEMMA OuterAttach ==
  ASSUME BpfInv, DoneInv, OuterInv, NEW l \in Loaders, NEW m, Attached(l, m),
         bset' = bset, removed' = removed, Attaching(load[l]), MapsGrow, m \in 1..Len(maps'),
         ByName(l, m) \/ ByCreation(l, m)
  PROVE  OuterInv'
<1> DEFINE r == load[l]
           o == Object(l)
           s == Bind(r, m)
           q == NextMap(l, s)
<1>1. /\ r \in LoadRec /\ LoadOK(r, o, Len(maps)) /\ FdsIn(r.fds, Len(o), Len(maps))
      /\ Filled(r, Len(o))
  BY DEF BpfInv, LoadOK, FdsIn, DoneInv
<1>2. r.i \in 1..Len(o) /\ Len(o) \in Nat /\ DOMAIN o = 1..Len(o) /\ Current(l).name \in MapNames
      /\ Current(l) = o[r.i]
  BY Zenon, CurrentType DEF Attaching, Current
<1>3. /\ s \in LoadRec /\ s.fds = [r.fds EXCEPT ![r.i] = m] /\ s.i = r.i /\ s.pc = "probe"
      /\ s.have = r.have
  <2>1. s.fds = [r.fds EXCEPT ![r.i] = m] /\ s.i = r.i /\ s.pc = "probe" /\ s.have = r.have
    BY Zenon, <1>1 DEF Bind, LoadRec
  <2>2. s \in LoadRec
    <3> DEFINE n == Len(maps)
               p == Len(maps')
               len == Len(o)
    <3>1. /\ r \in LoadRec /\ n \in Nat /\ p \in Nat /\ m \in 1..p /\ n <= p /\ len \in Nat
          /\ r.i \in 1..len /\ FdsIn(r.fds, len, n)
      BY <1>1, <1>2 DEF MapsGrow
    <3> HIDE DEF r, o, n, p, len
    <3> QED
      BY <3>1, BindFields, Zenon
  <2> QED
    BY Zenon, <2>1, <2>2
<1>4. Upd(l, q)
  BY Zenon DEF Attached, Bind
<1> HIDE DEF s
<1>5. q.fds = s.fds /\ q.pc \in {"probe", "insert", "done"}
  BY <1>2, <1>3, NextMapKeeps
<1>6. \A k \in DOMAIN o : r.have > 0 => Fills(q, k)
  BY Zenon, <1>2, <1>3, NextMapFills
<1> HIDE DEF q
<1>7. load'[l] = q /\ \A k \in Loaders : k # l => load'[k] = load[k]
  BY Zenon, <1>4 DEF BpfInv, Upd
<1>8. \A c \in Loaders : \A i \in DOMAIN Object(c) :
        load'[c].fds[i] = IF c = l /\ i = r.i THEN m ELSE load[c].fds[i]
  BY SMTT(20), <1>1, <1>2, <1>3, <1>5, <1>7 DEF FdsIn
<1>9. r.fds[r.i] \in {-1, 0}
  <2>1. CASE r.pc = "probe"
    <3>1. r.pass = 1 \/ r.fds[r.i] = -1
      BY Zenon, <2>1 DEF Probes, ByName, ByCreation
    <3>2. r.pass = 1 => \A k \in r.i..Len(o) : r.fds[k] = 0
      BY Zenon, <2>1, <1>1 DEF LoadOK
    <3>3. r.i \in r.i..Len(o)
      BY <1>2
    <3> QED
      BY Zenon, <3>1, <3>2, <3>3
  <2>2. CASE r.pc \in {"create", "pin"}
    BY Zenon, <2>2, <1>1 DEF LoadOK
  <2> QED
    BY Zenon, <2>1, <2>2 DEF Attaching
<1>10. \A k \in Loaders : Object(k)' = Object(k)
  BY Zenon DEF Object
<1>11. OneName
  BY Zenon DEF OuterInv
<1>12. Fresh(q, o, maps')
  BY Zenon, <1>5 DEF Fresh
<1>13. \A k \in DOMAIN o : Fills(r, k) => Fills(q, k)
  BY Zenon, <1>6 DEF Fills, Attaching
<1>14. \A i \in DOMAIN o : r.fds[i] > 0 => q.fds[i] = r.fds[i]
  BY <1>2, <1>7, <1>8, <1>9
<1>15. CASE ByName(l, m)
  <2>0. Current(l).pin /\ pins[Current(l).name] = m /\ pins' = pins
    BY Zenon, <1>15 DEF ByName
  <2>1. OneName'
    <3>1. ASSUME NEW c \in Loaders, NEW i \in DOMAIN Object(c), ~Object(c)[i].pin,
                 load'[c].fds[i] > 0
          PROVE  /\ \A n \in MapNames : pins[n] # load'[c].fds[i]
                 /\ \A w \in Loaders : \A k \in DOMAIN Object(w) :
                      load'[w].fds[k] = load'[c].fds[i] => w = c /\ k = i
      <4>1. load'[c].fds[i] = load[c].fds[i]
        BY <1>2, <1>8, <2>0, <3>1
      <4>2. /\ \A n \in MapNames : pins[n] # load[c].fds[i]
            /\ \A w \in Loaders : \A k \in DOMAIN Object(w) :
                 load[w].fds[k] = load[c].fds[i] => w = c /\ k = i
        BY Zenon, <4>1, <3>1, <1>11 DEF OneName
      <4> QED
        BY SMTT(20), <4>1, <4>2, <1>2, <1>8, <2>0
    <3> QED
      BY SMTT(20), <3>1, <1>10, <1>11, <2>0 DEF OneName
  <2>2. \A c \in Loaders : \A i \in DOMAIN Object(c) : \A k \in 1..Len(maps') :
          InUse(c, i, k)' => InUse(c, i, k)
    BY SMTT(20), <1>2, <1>8, <1>10, <2>0 DEF InUse
  <2> QED
    <3>1. NewTended
      BY Zenon, <2>2 DEF NewTended
    <3>2. Keeps(l, q)
      BY Zenon, <2>0, <1>13, <1>14 DEF Keeps
    <3> QED
      BY Zenon, <2>1, <3>1, <3>2, <1>4, <1>12, OuterKeeps DEF StepTo
<1>16. CASE ByCreation(l, m)
  <2>0. /\ load[l].pc \in {"create", "pin"} /\ DOMAIN maps'[m].inner = DOMAIN Object(l)
        /\ \A n \in MapNames : pins[n] # m
        /\ \A c \in Loaders : \A i \in DOMAIN Object(c) : load[c].fds[i] # m
    BY Zenon, <1>16 DEF ByCreation
  <2>1. \A n \in MapNames : pins'[n] = IF Current(l).pin /\ n = Current(l).name THEN m ELSE pins[n]
    BY SMTT(20), <1>16 DEF BpfInv, ByCreation
  <2>2. \A n \in MapNames : pins[n] # 0 => pins'[n] = pins[n]
    BY <1>16, <2>1 DEF ByCreation
  <2>3. OneName'
    <3>1. \A n, p \in MapNames : pins'[n] # 0 /\ pins'[n] = pins'[p] => n = p
      BY <2>1, <1>11, <2>0 DEF OneName
    <3>2. ASSUME NEW c \in Loaders, NEW i \in DOMAIN Object(c), ~Object(c)[i].pin,
                 load'[c].fds[i] > 0
          PROVE  /\ \A n \in MapNames : pins'[n] # load'[c].fds[i]
                 /\ \A w \in Loaders : \A k \in DOMAIN Object(w) :
                      load'[w].fds[k] = load'[c].fds[i] => w = c /\ k = i
      <4>1. CASE c = l /\ i = r.i
        <5>1. load'[c].fds[i] = m /\ ~Current(l).pin
          BY Zenon, <4>1, <3>2, <1>2, <1>8
        <5>2. \A n \in MapNames : pins'[n] # m
          BY Zenon, <5>1, <2>1, <2>0
        <5>3. \A w \in Loaders : \A k \in DOMAIN Object(w) : load'[w].fds[k] = m => w = l /\ k = r.i
          BY <1>8, <2>0
        <5> QED
          BY Zenon, <4>1, <5>1, <5>2, <5>3
      <4>2. CASE ~(c = l /\ i = r.i)
        <5>1. load'[c].fds[i] = load[c].fds[i] /\ load[c].fds[i] # m
          BY Zenon, <4>2, <1>8, <2>0
        <5>2. /\ \A n \in MapNames : pins[n] # load[c].fds[i]
              /\ \A w \in Loaders : \A k \in DOMAIN Object(w) :
                   load[w].fds[k] = load[c].fds[i] => w = c /\ k = i
          BY Zenon, <5>1, <3>2, <1>11 DEF OneName
        <5>3. \A n \in MapNames : pins'[n] # load[c].fds[i]
          BY Zenon, <5>1, <5>2, <2>1
        <5>4. \A w \in Loaders : \A k \in DOMAIN Object(w) :
                load'[w].fds[k] = load[c].fds[i] => w = c /\ k = i
          BY Zenon, <5>1, <5>2, <1>8
        <5> QED
          BY Zenon, <5>1, <5>3, <5>4
      <4> QED
        BY Zenon, <4>1, <4>2
    <3> QED
      BY Zenon, <3>1, <3>2, <1>10 DEF OneName
  <2>4. ASSUME SameLayout, NEW c \in Loaders, NEW i \in DOMAIN Object(c), NEW n \in 1..Len(maps'),
               Outer(Object(c), i), InUse(c, i, n)', ~InUse(c, i, n), NEW k \in DOMAIN Object(c)
        PROVE  Tended(c, i, k, n)'
    <3>1. Object(c)[i].name \in MapNames
      BY SMTT(20), ObjectType DEF BpfInv, MapDef
    <3>2. n = m /\ \/ c = l /\ i = r.i
                   \/ Object(c)[i].pin /\ Current(l).pin /\ Object(c)[i].name = Current(l).name
      BY <2>1, <2>4, <3>1, <1>8, <1>10 DEF InUse
    <3>3. Object(c) = o /\ i = r.i
      <4>1. Object(c) = o
        BY <2>4, <3>2, <1>2 DEF SameLayout, Outer
      <4>2. \A j, w \in DOMAIN o : o[j].name = o[w].name => j = w
        BY Zenon, ObjectType DEF BpfInv
      <4> QED
        BY Zenon, <4>1, <4>2, <3>2, <1>2
    <3>4. r.have > 0
      <4>1. Fresh(r, o, maps)
        BY Zenon DEF OuterInv
      <4>2. r.pass = 2
        BY Zenon, <4>1, <3>3, <2>4, <2>0 DEF Fresh, Outer
      <4> QED
        BY Zenon, <4>2, <1>1 DEF Filled, FilledTo
    <3>5. load'[l].fds[i] = n /\ Fills(load'[l], k)
      BY Zenon, <3>2, <3>3, <3>4, <1>2, <1>6, <1>7, <1>8
    <3> QED
      BY SMTT(20), <3>2, <3>3, <3>5, <1>10, <2>0 DEF Tended
  <2> QED
    <3>1. NewTended
      BY Zenon, <2>4 DEF NewTended
    <3>2. Keeps(l, q)
      BY Zenon, <2>2, <1>13, <1>14 DEF Keeps
    <3> QED
      BY Zenon, <2>3, <3>1, <3>2, <1>4, <1>12, OuterKeeps DEF StepTo
<1> QED
  BY Zenon, <1>15, <1>16

\* Entering an inner map: what was entered before is replaced by what is as good.
LEMMA OuterInsert ==
  ASSUME BpfInv, DoneInv, OuterInv, NEW l \in Loaders, InsertInner(l)
  PROVE  OuterInv'
<1> DEFINE r == load[l]
           o == Object(l)
           q == NextMap(l, r)
<1>1. /\ UNCHANGED <<bset, pins, removed>> /\ r.pc = "insert" /\ Upd(l, q) /\ maps' = Inserted(l)
  BY Zenon DEF InsertInner
<1>2. /\ r \in LoadRec /\ maps \in Seq(MapRec) /\ Len(maps) \in Nat
      /\ r.fds \in [1..Len(o) -> (-1)..Len(maps)] /\ \A k \in 1..Len(o) : r.fds[k] > 0
  <2>1. r \in LoadRec /\ maps \in Seq(MapRec) /\ Len(maps) \in Nat
        /\ LoadOK(r, o, Len(maps)) /\ Filled(r, Len(o))
    BY DEF BpfInv, DoneInv
  <2> QED
    BY Zenon, <2>1, <1>1 DEF LoadOK, Filled
<1>3. r.i \in 1..Len(o) /\ Len(o) \in Nat /\ DOMAIN o = 1..Len(o) /\ Current(l) = o[r.i]
  BY Zenon, <1>1, CurrentType DEF Current
<1>4. Len(maps') = Len(maps)
  <2>1. DOMAIN maps' = DOMAIN maps
    BY Zenon, <1>1 DEF Inserted
  <2>2. maps' \in Seq(MapRec)
    BY Zenon, InsertInnerStep DEF BpfInv
  <2> QED
    BY <2>1, <2>2, <1>2
<1>5. ASSUME NEW m \in 1..Len(maps)
      PROVE  /\ DOMAIN maps'[m].inner = DOMAIN maps[m].inner
             /\ \A k \in DOMAIN maps[m].inner :
                  maps'[m].inner[k] = IF ~o[r.i].outer /\ m \in Outers(l) /\ k = r.i
                                      THEN r.fds[r.i] ELSE maps[m].inner[k]
  <2>1. maps[m] \in MapRec /\ DOMAIN maps = 1..Len(maps)
    BY <1>2
  <2>2. CASE ~o[r.i].outer /\ m \in Outers(l)
    <3>1. maps'[m] = [maps[m] EXCEPT !.inner[r.i] = r.fds[r.i]]
      BY Zenon, <1>1, <1>3, <2>1, <2>2 DEF Inserted
    <3>2. maps'[m].inner = [maps[m].inner EXCEPT ![r.i] = r.fds[r.i]]
      BY Zenon, <2>1, <3>1 DEF MapRec
    <3> QED
      BY Zenon, <3>2, <2>2
  <2>3. CASE ~(~o[r.i].outer /\ m \in Outers(l))
    <3>1. maps'[m] = maps[m]
      BY Zenon, <1>1, <1>3, <2>1, <2>3 DEF Inserted
    <3> QED
      BY Zenon, <3>1, <2>3
  <2> QED
    BY Zenon, <2>2, <2>3
<1>6. \A k \in Loaders : Object(k)' = Object(k)
  BY Zenon, <1>1 DEF Object
<1>7. q.fds = r.fds /\ q.pc \in {"insert", "done"}
  BY Zenon, <1>1, <1>2, <1>3 DEF NextMap, LoadRec
<1>8. \A k \in DOMAIN o : r.i < k => Fills(q, k)
  BY Zenon, <1>1, <1>2, <1>3, NextMapFills
<1> HIDE DEF q
<1>9. load'[l] = q /\ \A k \in Loaders : k # l => load'[k] = load[k]
  BY Zenon, <1>1 DEF BpfInv, Upd
<1>10. \A c \in Loaders : load'[c].fds = load[c].fds
  BY Zenon, <1>7, <1>9
<1>11. OneName'
  BY <1>1, <1>10, OneNameKeeps DEF OuterInv
<1>12. ASSUME NEW c \in Loaders PROVE Fresh(load'[c], Object(c), maps')
  <2>1. CASE c = l
    BY Zenon, <2>1, <1>7, <1>9 DEF Fresh
  <2>2. CASE c # l
    <3>1. Fresh(load[c], Object(c), maps) /\ load'[c] = load[c]
      BY Zenon, <1>9, <2>2 DEF OuterInv
    <3>2. load[c].pc = "pin" => load[c].new \in 1..Len(maps)
      BY Zenon DEF BpfInv, LoadOK
    <3> QED
      BY Zenon, <3>1, <3>2, <1>5 DEF Fresh
  <2> QED
    BY Zenon, <2>1, <2>2
<1>13. ASSUME SameLayout, removed = 0, NEW c \in Loaders,
              NEW i \in DOMAIN Object(c), NEW k \in DOMAIN Object(c),
              Outer(Object(c), i), ~Object(c)[k].outer, NEW m \in 1..Len(maps), InUse(c, i, m)
       PROVE  Tended(c, i, k, m)'
  <2>1. Tended(c, i, k, m)
    BY Zenon, <1>13 DEF OuterInv
  <2>2. /\ DOMAIN maps'[m].inner = DOMAIN Object(c)
        /\ maps'[m].inner[k] = IF ~o[r.i].outer /\ m \in Outers(l) /\ k = r.i
                               THEN r.fds[r.i] ELSE maps[m].inner[k]
    BY Zenon, <2>1, <1>5 DEF Tended
  <2>3. CASE ~o[r.i].outer /\ m \in Outers(l) /\ k = r.i
    <3>1. PICK j \in DOMAIN o : r.fds[j] = m
      BY Zenon, <2>3 DEF Outers
    <3>2. o = Object(c)
      BY Zenon, <3>1, <1>13, SamePlace DEF OuterInv, Outer
    <3>3. maps'[m].inner[k] = r.fds[k] /\ r.fds[k] > 0
      BY SMTT(20), <2>2, <2>3, <1>2, <1>3
    <3>4. Object(c)[k].pin => pins[Object(c)[k].name] = r.fds[k]
      BY SMTT(20), <3>2, <3>3, <1>13 DEF BpfInv, Sharing
    <3>5. HasInner(c, k, m)'
      BY <3>3, <3>4, <1>1, <1>6 DEF HasInner
    <3> QED
      BY Zenon, <3>5, <2>2, <1>6 DEF Tended
  <2>4. CASE ~(~o[r.i].outer /\ m \in Outers(l) /\ k = r.i)
    <3>1. maps'[m].inner[k] = maps[m].inner[k]
      BY Zenon, <2>2, <2>4
    <3>2. CASE HasInner(c, k, m)
      <4>1. HasInner(c, k, m)'
        BY Zenon, <3>1, <3>2, <1>1, <1>6 DEF HasInner
      <4> QED
        BY Zenon, <4>1, <2>2, <1>6 DEF Tended
    <3>3. CASE ~HasInner(c, k, m)
      <4>1. PICK w \in Loaders : Object(w) = Object(c) /\ load[w].fds[i] = m /\ Fills(load[w], k)
        BY Zenon, <2>1, <3>3 DEF Tended
      <4>2. Fills(load'[w], k)
        <5>1. CASE w # l
          BY Zenon, <4>1, <5>1, <1>9
        <5>2. CASE w = l
          <6>1. m \in Outers(l)
            BY Zenon, <4>1, <5>2, <1>13 DEF Outers
          <6>2. r.i <= k /\ k \in DOMAIN o /\ ~o[k].outer
            BY Zenon, <4>1, <5>2, <1>1, <1>13 DEF Fills, Attaching
          <6>3. r.i # k
            BY Zenon, <6>1, <6>2, <2>4
          <6>4. r.i < k
            BY <6>2, <6>3, <1>3
          <6> QED
            BY Zenon, <6>2, <6>4, <5>2, <1>8, <1>9
        <5> QED
          BY Zenon, <5>1, <5>2
      <4> QED
        BY Zenon, <4>1, <4>2, <2>2, <1>6, <1>10 DEF Tended
    <3> QED
      BY Zenon, <3>2, <3>3
  <2> QED
    BY Zenon, <2>3, <2>4
<1>14. SameLayout' = SameLayout
  BY <1>6 DEF SameLayout
<1>15. \A c \in Loaders : \A i \in DOMAIN Object(c) : \A m \in 1..Len(maps) :
         InUse(c, i, m)' => InUse(c, i, m)
  BY Zenon, <1>1, <1>6, <1>10 DEF InUse
<1>16. ASSUME SameLayout', removed' = 0, NEW c \in Loaders,
              NEW i \in DOMAIN Object(c), NEW k \in DOMAIN Object(c),
              Outer(Object(c), i), ~Object(c)[k].outer, NEW m \in 1..Len(maps'), InUse(c, i, m)'
       PROVE  Tended(c, i, k, m)'
  BY Zenon, <1>1, <1>4, <1>13, <1>14, <1>15, <1>16
<1> QED
  BY Zenon, <1>6, <1>11, <1>12, <1>16 DEF OuterInv

\* Each step keeps the maps of maps tended.
LEMMA OuterStep ==
  ASSUME BpfInv, DoneInv, OuterInv, [BpfNext]_bpfVars
  PROVE  OuterInv'
<1>1. CASE UNCHANGED bpfVars
  <2>1. \A k \in Loaders : Object(k)' = Object(k)
    BY Zenon, <1>1 DEF bpfVars, Object
  <2>2. bset' = bset /\ maps' = maps /\ pins' = pins /\ load' = load /\ removed' = removed
    BY Zenon, <1>1 DEF bpfVars
  <2> QED
    BY <2>1, <2>2 DEF OuterInv, OneName, SameLayout, InUse, Tended, HasInner
<1>2. ASSUME NEW n \in MapNames, RemovePin(n) PROVE OuterInv'
  <2>1. /\ pins' = [pins EXCEPT ![n] = 0] /\ UNCHANGED <<bset, maps, load>>
        /\ removed' = removed + 1 /\ removed \in Nat
    BY Zenon, <1>2 DEF RemovePin, BpfInv
  <2>2. \A k \in Loaders : Object(k)' = Object(k)
    BY Zenon, <2>1 DEF Object
  <2>3. \A p \in MapNames : pins'[p] \in {0, pins[p]}
    BY Zenon, <2>1 DEF BpfInv
  <2>4. OneName'
    BY Zenon, <2>1, <2>3, OneNameKeeps DEF OuterInv
  <2>5. removed' # 0
    BY <2>1
  <2> QED
    BY Zenon, <2>1, <2>2, <2>4, <2>5 DEF OuterInv
<1>3. ASSUME NEW l \in Loaders, NEW s \in {"failed", "killed"}, Upd(l, [load[l] EXCEPT !.pc = s]),
             UNCHANGED <<bset, maps, pins, removed>>
      PROVE  OuterInv'
  <2> DEFINE q == [load[l] EXCEPT !.pc = s]
  <2>1. load[l] \in LoadRec /\ Len(maps) \in Nat
    BY DEF BpfInv
  <2>2. q.fds = load[l].fds /\ q.pc = s
    BY Zenon, <2>1 DEF LoadRec
  <2>3. Upd(l, q) /\ UNCHANGED <<bset, maps, pins, removed>>
    BY Zenon, <1>3
  <2> HIDE DEF q
  <2>4. Fresh(q, Object(l), maps') /\ GoesOn(l, q)
    BY Zenon, <2>2 DEF Fresh, GoesOn, Fills
  <2>5. StepTo(l, q)
    BY SMTT(20), <2>1, <2>3 DEF StepTo, MapsGrow
  <2> QED
    BY Zenon, <2>3, <2>4, <2>5, OuterQuiet
<1>4. ASSUME NEW l \in Loaders, LoadStep(l) PROVE OuterInv'
  <2> DEFINE r == load[l]
             o == Object(l)
  <2>1. /\ r \in LoadRec /\ LoadOK(r, o, Len(maps)) /\ maps \in Seq(MapRec) /\ Len(maps) \in Nat
        /\ Fresh(r, o, maps) /\ r.fds \in [1..Len(o) -> (-1)..Len(maps)]
    <3>1. r \in LoadRec /\ LoadOK(r, o, Len(maps)) /\ maps \in Seq(MapRec) /\ Len(maps) \in Nat
      BY DEF BpfInv
    <3> QED
      BY <3>1 DEF LoadOK, OuterInv
  <2>2. CASE ProbePinned(l)
    <3>1. UNCHANGED <<bset, maps, pins, removed>> /\ Attaching(r) /\ Pinned(l) /\ Probes(l)
      BY Zenon, <2>2 DEF ProbePinned, Probes, Attaching
    <3>2. CASE ~Selfcheck(l)
      BY <2>2, <3>2, <1>3, Zenon DEF ProbePinned, Fail
    <3>3. CASE Selfcheck(l)
      <4> DEFINE m == pins[Current(l).name]
      <4>1. m \in 1..Len(maps) /\ Current(l).pin
        BY <3>1, CurrentType DEF BpfInv, Pinned, Attaching
      <4>2. Attached(l, m) /\ pins[Current(l).name] = m
        BY Zenon, <2>2, <3>3 DEF ProbePinned
      <4> HIDE DEF m
      <4> QED
        <5>1. MapsGrow /\ ByName(l, m) /\ m \in 1..Len(maps')
          BY <4>1, <4>2, <3>1, <2>1 DEF MapsGrow, ByName
        <5> QED
          BY Zenon, <4>2, <5>1, <3>1, OuterAttach
    <3> QED
      BY Zenon, <3>2, <3>3
  <2>3. CASE ProbeMissing(l)
    <3>1. UNCHANGED <<bset, maps, pins, removed>> /\ r.pc = "probe" /\ Attaching(r) /\ Probes(l)
      BY Zenon, <2>3 DEF ProbeMissing, Probes, Attaching
    <3>2. r.i \in 1..Len(o) /\ Len(o) \in Nat /\ DOMAIN o = 1..Len(o) /\ Current(l) = o[r.i]
      BY Zenon, <3>1, CurrentType DEF Current
    <3>3. CASE ~NoInner(l) /\ Current(l).outer /\ r.pass = 1
      <4> DEFINE s == [r EXCEPT !.fds[r.i] = -1, !.have = r.have + 1]
                 f == [r.fds EXCEPT ![r.i] = -1]
                 q == NextMap(l, s)
      <4>1. /\ s.fds = f /\ s.i = r.i /\ s.pc = "probe" /\ s.have = r.have + 1
            /\ r.have \in Nat
        BY Zenon, <2>1, <3>1 DEF LoadRec
      <4>2. f \in [1..Len(o) -> Int] /\ f[r.i] = -1 /\ \A k \in 1..Len(o) : k # r.i => f[k] = r.fds[k]
        BY <2>1, <3>2
      <4>3. s \in LoadRec
        <5>1. f \in Fds
          BY Zenon, <4>2, <3>2 DEF Fds
        <5>2. [r EXCEPT !.fds = f] \in LoadRec
          BY <5>1, <2>1, Zenon DEF LoadRec
        <5>3. s = [[r EXCEPT !.fds = f] EXCEPT !.have = r.have + 1]
          BY Zenon, <2>1 DEF LoadRec
        <5>4. r.have + 1 \in Nat
          BY <4>1
        <5> HIDE DEF f, s
        <5> QED
          BY <5>2, <5>3, <5>4, Zenon DEF LoadRec
      <4>4. Upd(l, q)
        BY <2>3, <3>3, SMTT(30) DEF ProbeMissing
      <4> HIDE DEF f, s
      <4>5. q.fds = s.fds /\ q.pc \in {"probe", "insert", "done"}
        BY ZenonT(30), <4>1, <4>3, <3>2, NextMapKeeps
      <4>6. \A k \in DOMAIN o : Fills(q, k)
        BY <4>1, <4>3, <3>2, NextMapFills
      <4>7. r.fds[r.i] = 0
        BY <3>1, <3>2, <3>3, <2>1 DEF LoadOK
      <4>8. \A i \in DOMAIN o : q.fds[i] = r.fds[i] \/ {q.fds[i], r.fds[i]} \subseteq {-1, 0}
        BY Zenon, <4>1, <4>2, <4>5, <4>7, <3>2
      <4>9. Fresh(q, o, maps')
        BY Zenon, <4>5 DEF Fresh
      <4> HIDE DEF q
      <4>10. StepTo(l, q) /\ GoesOn(l, q)
        BY <4>4, <4>6, <4>8, <3>1, <2>1 DEF StepTo, MapsGrow, GoesOn
      <4> QED
        BY Zenon, <4>9, <4>10, <3>1, OuterQuiet
    <3>4. CASE ~NoInner(l) /\ ~(Current(l).outer /\ r.pass = 1)
      <4> DEFINE q == [r EXCEPT !.pc = "create"]
      <4>1. Upd(l, q)
        BY Zenon, <2>3, <3>4 DEF ProbeMissing
      <4>2. q.fds = r.fds /\ q.pc = "create" /\ q.i = r.i /\ q.pass = r.pass /\ q.have = r.have
        BY Zenon, <2>1 DEF LoadRec
      <4> HIDE DEF q
      <4>3. Fresh(q, o, maps')
        BY <4>2, <3>2, <3>4, <2>1 DEF Fresh, LoadRec
      <4>4. \A k \in DOMAIN o : Fills(r, k) => Fills(q, k)
        <5>1. Attaching(q) /\ r.pc # "insert" /\ r.pc \notin {"failed", "killed"}
          BY Zenon, <4>2, <3>1 DEF Attaching
        <5> QED
          BY Zenon, <4>2, <5>1 DEF Fills
      <4>5. GoesOn(l, q)
        BY Zenon, <4>2, <4>4 DEF GoesOn
      <4>6. MapsGrow
        BY <3>1, <2>1 DEF MapsGrow
      <4>7. StepTo(l, q)
        BY Zenon, <4>1, <4>6, <3>1 DEF StepTo
      <4> QED
        BY Zenon, <4>3, <4>5, <4>7, <3>1, OuterQuiet
    <3>5. CASE NoInner(l)
      BY <2>3, <3>5, <1>3, Zenon DEF ProbeMissing, Fail
    <3> QED
      BY Zenon, <3>3, <3>4, <3>5
  <2>4. CASE ProbeSkip(l)
    <3> DEFINE q == NextMap(l, r)
    <3>1. UNCHANGED <<bset, maps, pins, removed>> /\ r.pc = "probe" /\ Upd(l, q)
      BY <2>4, SMTT(30) DEF ProbeSkip
    <3>2. r.i \in 1..Len(o) /\ Len(o) \in Nat /\ DOMAIN o = 1..Len(o)
      BY Zenon, <3>1, CurrentType
    <3>3. q.fds = r.fds /\ q.pc \in {"probe", "insert", "done"}
      BY SMTT(20), <2>1, <3>1, <3>2, NextMapKeeps
    <3>4. \A k \in DOMAIN o : r.have > 0 => Fills(q, k)
      BY SMTT(20), <2>1, <3>1, <3>2, NextMapFills
    <3> HIDE DEF q
    <3>5. \A k \in DOMAIN o : Fills(r, k) => Fills(q, k)
      BY Zenon, <3>1, <3>4 DEF Fills
    <3>6. Fresh(q, o, maps')
      BY Zenon, <3>3 DEF Fresh
    <3>7. StepTo(l, q) /\ GoesOn(l, q)
      BY <3>1, <3>3, <3>5, <2>1 DEF StepTo, MapsGrow, GoesOn
    <3> QED
      BY Zenon, <3>1, <3>6, <3>7, OuterQuiet
  <2>5. CASE CreateMap(l)
    <3> DEFINE x == [spec |-> Current(l).spec, inner |-> [k \in DOMAIN Object(l) |-> 0]]
    <3>1. r.pc = "create" /\ UNCHANGED <<bset, pins, removed>> /\ maps' = Append(maps, x)
      BY Zenon, <2>5 DEF CreateMap
    <3>2. x \in MapRec /\ DOMAIN x.inner = DOMAIN o
      BY Zenon, <3>1, NewMapType
    <3> HIDE DEF x
    <3>3. /\ Len(maps') = Len(maps) + 1 /\ Len(maps') \in Nat /\ maps'[Len(maps) + 1] = x
          /\ \A k \in 1..Len(maps) : maps'[k] = maps[k]
      BY <3>1, <3>2, <2>1
    <3>0. MapsGrow
      BY <3>3, <2>1 DEF MapsGrow
    <3>4. CASE Current(l).pin
      <4> DEFINE q == [r EXCEPT !.pc = "pin", !.new = Len(maps) + 1]
      <4>1. Upd(l, q)
        BY Zenon, <2>5, <3>4 DEF CreateMap
      <4>2. /\ q.fds = r.fds /\ q.pc = "pin" /\ q.i = r.i /\ q.pass = r.pass /\ q.have = r.have
            /\ q.new = Len(maps) + 1
        BY Zenon, <2>1 DEF LoadRec
      <4> HIDE DEF q
      <4>3. Fresh(q, o, maps')
        BY Zenon, <4>2, <3>1, <3>2, <3>3, <2>1 DEF Fresh
      <4>4. \A k \in DOMAIN o : Fills(r, k) => Fills(q, k)
        BY Zenon, <4>2, <3>1 DEF Fills, Attaching
      <4>5. StepTo(l, q) /\ GoesOn(l, q)
        BY Zenon, <4>1, <4>2, <4>4, <3>0, <3>1 DEF StepTo, GoesOn
      <4> QED
        BY Zenon, <4>3, <4>5, <3>1, OuterQuiet
    <3>5. CASE ~Current(l).pin
      <4> DEFINE m == Len(maps) + 1
      <4>1. Attached(l, m)
        BY Zenon, <2>5, <3>5 DEF CreateMap
      <4>2. m \in 1..Len(maps') /\ DOMAIN maps'[m].inner = DOMAIN o
        BY SMTT(20), <3>2, <3>3, <2>1
      <4>3. \A n \in MapNames : pins[n] # m
        BY <2>1 DEF BpfInv
      <4>4. \A c \in Loaders : \A i \in DOMAIN Object(c) : load[c].fds[i] # m
        <5> SUFFICES ASSUME NEW c \in Loaders, NEW i \in DOMAIN Object(c) PROVE load[c].fds[i] # m
          BY Zenon
        <5>1. load[c].fds \in [1..Len(Object(c)) -> (-1)..Len(maps)]
          BY Zenon DEF BpfInv, LoadOK
        <5>2. i \in 1..Len(Object(c))
          BY Zenon, ObjectType DEF BpfInv
        <5> QED
          BY <5>1, <5>2, <2>1
      <4> HIDE DEF m
      <4>5. ByCreation(l, m)
        BY Zenon, <4>2, <4>3, <4>4, <3>1, <3>5 DEF ByCreation
      <4> QED
        BY Zenon, <4>1, <4>2, <4>5, <3>0, <3>1, OuterAttach DEF Attaching
    <3> QED
      BY Zenon, <3>4, <3>5
  <2>6. CASE KernelRefuses(l)
    BY <2>6, <1>3, Zenon DEF KernelRefuses, Fail
  <2>7. CASE PlacePinned(l)
    <3>1. r.pc = "pin" /\ UNCHANGED <<bset, maps, removed>> /\ Attaching(r)
      BY Zenon, <2>7 DEF PlacePinned, Attaching
    <3>2. CASE Taken(l) /\ r.retried
      BY <2>7, <3>1, <3>2, <1>3, Zenon DEF PlacePinned, AfterTaken, Fail
    <3>3. CASE Taken(l) /\ ~r.retried
      <4> DEFINE q == [r EXCEPT !.pc = "probe", !.retried = TRUE]
      <4>1. Upd(l, q) /\ pins' = pins
        BY Zenon, <2>7, <3>3 DEF PlacePinned, AfterTaken
      <4>2. q.fds = r.fds /\ q.pc = "probe" /\ q.have = r.have
        BY Zenon, <2>1 DEF LoadRec
      <4> HIDE DEF q
      <4>3. Fresh(q, o, maps')
        BY Zenon, <4>2 DEF Fresh
      <4>4. \A k \in DOMAIN o : Fills(r, k) => Fills(q, k)
        BY Zenon, <4>2, <3>1 DEF Fills, Attaching
      <4>5. StepTo(l, q) /\ GoesOn(l, q)
        BY <4>1, <4>2, <4>4, <3>1, <2>1 DEF StepTo, MapsGrow, GoesOn
      <4> QED
        BY Zenon, <4>1, <4>3, <4>5, OuterQuiet
    <3>4. CASE ~Taken(l)
      <4> DEFINE m == r.new
      <4>1. Attached(l, m) /\ pins' = [pins EXCEPT ![Current(l).name] = m]
            /\ pins[Current(l).name] = 0
        BY Zenon, <2>7, <3>4 DEF PlacePinned, Taken
      <4>2. m \in 1..Len(maps) /\ Current(l).pin /\ DOMAIN maps'[m].inner = DOMAIN o
        BY Zenon, <3>1, <2>1 DEF LoadOK, Current, Fresh
      <4>3. /\ \A n \in MapNames : pins[n] # m
            /\ \A c \in Loaders : \A i \in DOMAIN Object(c) : load[c].fds[i] # m
        BY Zenon, <3>1 DEF BpfInv, Private
      <4> HIDE DEF m
      <4>4. MapsGrow /\ ByCreation(l, m) /\ m \in 1..Len(maps')
        BY <4>1, <4>2, <4>3, <3>1, <2>1 DEF MapsGrow, ByCreation
      <4> QED
        BY Zenon, <4>1, <4>4, <3>1, OuterAttach
    <3> QED
      BY Zenon, <3>2, <3>3, <3>4
  <2>8. CASE InsertInner(l)
    BY Zenon, <2>8, OuterInsert
  <2> QED
    BY Zenon, <1>4, <2>2, <2>3, <2>4, <2>5, <2>6, <2>7, <2>8 DEF LoadStep
<1> QED
  BY <1>1, <1>2, <1>3, <1>4, ZenonT(30) DEF BpfNext, KillLoader

\* When all loaders are through, every map of maps in use has its inner maps: of several
\* loaders of one object, whoever created it in bpf_maps_attach_all has filled it, and what
\* the others entered as well is as good.
THEOREM OutersAreFilled == BpfSpec => [](SameLayout => OuterFilled)
<1>1. BpfInit => OuterInv
  <2> SUFFICES ASSUME BpfInit PROVE OuterInv
    BY Zenon
  <2>1. bset \in BpfSetups /\ maps = <<>> /\ pins = [n \in MapNames |-> 0]
        /\ load = [l \in Loaders |-> Load0(Object(l))]
    BY Zenon DEF BpfInit, Object
  <2>2. ASSUME NEW l \in Loaders
        PROVE  /\ load[l].pc \in {"done", "probe"}
               /\ \A i \in DOMAIN Object(l) : load[l].fds[i] = 0
    BY Zenon, <2>1 DEF Load0
  <2>3. OneName
    BY <2>1, <2>2 DEF OneName
  <2>4. \A l \in Loaders : Fresh(load[l], Object(l), maps)
    BY Zenon, <2>2 DEF Fresh
  <2>5. 1..Len(maps) = {}
    BY <2>1
  <2> QED
    BY Zenon, <2>3, <2>4, <2>5 DEF OuterInv
<1>2. BpfInv /\ DoneInv /\ OuterInv /\ [BpfNext]_bpfVars => OuterInv'
  BY Zenon, OuterStep
<1>3. BpfInv /\ DoneInv /\ OuterInv => (SameLayout => OuterFilled)
  <2> SUFFICES ASSUME BpfInv, DoneInv, OuterInv, SameLayout, \A c \in Loaders : Loaded(c), removed = 0,
                      NEW l \in Loaders, NEW i \in DOMAIN Object(l), NEW k \in DOMAIN Object(l),
                      Outer(Object(l), i), ~Object(l)[k].outer
               PROVE  LET in == maps[load[l].fds[i]].inner[k] IN
                      in # 0 /\ (Object(l)[k].pin => in = load[l].fds[k])
    BY Zenon DEF OuterFilled
  <2> DEFINE m == load[l].fds[i]
  <2>1. DOMAIN Object(l) = 1..Len(Object(l))
    BY Zenon, ObjectType DEF BpfInv
  <2>2. load[l].fds[i] > 0 /\ load[l].fds[k] > 0
    BY Zenon, <2>1 DEF DoneInv, Filled, Loaded
  <2>3. m \in 1..Len(maps) /\ InUse(l, i, m)
    <3>1. load[l].fds \in [1..Len(Object(l)) -> (-1)..Len(maps)] /\ Len(maps) \in Nat
      BY SMTT(20) DEF BpfInv, LoadOK
    <3> QED
      BY SMTT(20), <3>1, <2>1, <2>2 DEF InUse
  <2>4. Tended(l, i, k, m)
    BY <2>3 DEF OuterInv
  <2>5. \A c \in Loaders : ~Fills(load[c], k)
    BY Zenon DEF Fills, Loaded, Attaching
  <2>6. HasInner(l, k, m)
    BY Zenon, <2>4, <2>5 DEF Tended
  <2>7. Object(l)[k].pin => pins[Object(l)[k].name] = load[l].fds[k]
    BY <2>2 DEF BpfInv, Sharing
  <2> QED
    BY Zenon, <2>6, <2>7 DEF HasInner
<1> QED
  BY <1>1, <1>2, <1>3, BothInv, PTL DEF BpfSpec

=============================================================================
