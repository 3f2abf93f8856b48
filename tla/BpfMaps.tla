------------------------------ MODULE BpfMaps -------------------------------
(***************************************************************************)
(* The maps of a BPF object (lib/bpf_legacy.c): several commands load      *)
(* objects at the same time and share the maps that are pinned in the BPF  *)
(* file system.  bpf_maps_attach_all opens or creates every map, then the  *)
(* maps of maps, and then enters the inner maps into the outer ones.       *)
(***************************************************************************)
EXTENDS Integers, Sequences, FiniteSets

CONSTANTS
  Loaders,      \* the commands
  MapNames,     \* names of maps
  MaxMaps,      \* maps that the kernel creates
  BpfSetups     \* the circumstances: see BpfInit

\* A map of an object; outer: it is a map of maps; inner_id: it names its inner maps, which
\* are all the maps of the object that are not maps of maps.
MapDef == [name : MapNames, pin : BOOLEAN, outer : BOOLEAN, inner_id : BOOLEAN, spec : Nat]

ASSUME BpfAssumption ==
  /\ MaxMaps \in Nat
  /\ \A s \in BpfSetups :
       /\ s.removals \in Nat /\ s.faults \in BOOLEAN /\ s.kills \in BOOLEAN
       /\ s.fdinfo \in {"shown", "zero", "none"}
       /\ \A l \in Loaders :
            /\ s.objects[l] \in Seq(MapDef)
            /\ \A i, k \in DOMAIN s.objects[l] : s.objects[l][i].name = s.objects[l][k].name => i = k

VARIABLES
  bset,      \* the object of each loader, the number of pins that others remove,
             \* whether the kernel may refuse a map, whether loaders may be killed; fdinfo:
             \* the kernel shows the shape of a map, or nothing of it, or there is no procfs
  maps,      \* the kernel's maps, in the order of their creation
  pins,      \* the BPF file system: the map of each name, or 0
  load,      \* the loaders
  removed    \* pins that others have removed

bpfVars == <<bset, maps, pins, load, removed>>

Object(l) == bset.objects[l]
Current(l) == Object(l)[load[l].i]

\* have: have_map_in_map; new: the map just created.
Load0(o) == [pc |-> IF o = <<>> THEN "done" ELSE "probe", pass |-> 1, i |-> 1,
             fds |-> [i \in DOMAIN o |-> 0], new |-> 0, have |-> 0, retried |-> FALSE]

Upd(l, r) == load' = [load EXCEPT ![l] = r]
Fail(l) == Upd(l, [load[l] EXCEPT !.pc = "failed"])

\* The next map of the loop, or the next of the three loops: the second and the third are
\* for objects with a map of maps that was not pinned.
NextMap(l, r) ==
  IF r.i < Len(Object(l)) THEN [r EXCEPT !.i = @ + 1]
  ELSE IF r.pc = "insert" \/ r.have = 0 THEN [r EXCEPT !.pc = "done"]
  ELSE IF r.pass = 1 THEN [r EXCEPT !.i = 1, !.pass = 2]
  ELSE [r EXCEPT !.i = 1, !.pc = "insert"]

Attached(l, m) ==
  Upd(l, NextMap(l, [load[l] EXCEPT !.fds[load[l].i] = m, !.pc = "probe", !.retried = FALSE]))

----------------------------------------------------------------------------
(* bpf_map_attach.                                                         *)

Probes(l) == load[l].pc = "probe" /\ (load[l].pass = 1 \/ load[l].fds[load[l].i] = -1)
Pinned(l) == Current(l).pin /\ pins[Current(l).name] # 0

\* bpf_probe_pinned finds the map: bpf_map_selfcheck_pinned compares its type and sizes.  It
\* accepts any map of which the kernel shows nothing.
Selfcheck(l) ==
  \/ bset.fdinfo = "zero"
  \/ bset.fdinfo = "shown" /\ maps[pins[Current(l).name]].spec = Current(l).spec

ProbePinned(l) ==
  /\ Probes(l) /\ Pinned(l)
  /\ IF Selfcheck(l) THEN Attached(l, pins[Current(l).name]) ELSE Fail(l)
  /\ UNCHANGED <<bset, maps, pins, removed>>

\* bpf_find_map_id, in the second loop: the first one has attached the inner maps.
InnerFound(l) == \E k \in DOMAIN Object(l) : ~Object(l)[k].outer

\* A map of maps has no inner map ID, or the object has no map of that ID.
NoInner(l) ==
  Current(l).outer /\ IF load[l].pass = 1 THEN ~Current(l).inner_id ELSE ~InnerFound(l)

\* It does not: a map of maps is left to the second loop, any other is created.
ProbeMissing(l) ==
  /\ Probes(l) /\ ~Pinned(l)
  /\ IF NoInner(l) THEN Fail(l)
     ELSE IF Current(l).outer /\ load[l].pass = 1
     THEN Upd(l, NextMap(l, [load[l] EXCEPT !.fds[load[l].i] = -1, !.have = @ + 1]))
     ELSE Upd(l, [load[l] EXCEPT !.pc = "create"])
  /\ UNCHANGED <<bset, maps, pins, removed>>

\* The second loop passes over what the first one has attached.
ProbeSkip(l) ==
  /\ load[l].pc = "probe" /\ ~Probes(l)
  /\ Upd(l, NextMap(l, load[l]))
  /\ UNCHANGED <<bset, maps, pins, removed>>

CreateMap(l) ==
  /\ load[l].pc = "create"
  /\ Len(maps) < MaxMaps
  /\ maps' = Append(maps, [spec |-> Current(l).spec, inner |-> [k \in DOMAIN Object(l) |-> 0]])
  /\ IF Current(l).pin
     THEN Upd(l, [load[l] EXCEPT !.pc = "pin", !.new = Len(maps) + 1])
     ELSE Attached(l, Len(maps) + 1)
  /\ UNCHANGED <<bset, pins, removed>>

\* The kernel refuses to create the map, to pin it or to enter it into another.
KernelRefuses(l) ==
  /\ load[l].pc \in {"create", "pin", "insert"} /\ bset.faults
  /\ Fail(l)
  /\ UNCHANGED <<bset, maps, pins, removed>>

\* bpf_place_pinned: the name may have been taken since the probe, which is then done
\* once more.
TakenNever(l) == FALSE
Taken(l) == pins[Current(l).name] # 0

AfterTakenFails(l) == Fail(l)
AfterTaken(l) ==
  IF load[l].retried THEN Fail(l) ELSE Upd(l, [load[l] EXCEPT !.pc = "probe", !.retried = TRUE])

PlacePinned(l) ==
  /\ load[l].pc = "pin"
  /\ IF Taken(l)
     THEN AfterTaken(l) /\ UNCHANGED pins
     ELSE /\ pins' = [pins EXCEPT ![Current(l).name] = load[l].new]
          /\ Attached(l, load[l].new)
  /\ UNCHANGED <<bset, maps, removed>>

\* The last loop of bpf_maps_attach_all: an inner map is entered into the maps of maps that
\* name it.
Outer(o, i) == o[i].outer /\ o[i].inner_id
Outers(l) == {load[l].fds[k] : k \in {j \in DOMAIN Object(l) : Outer(Object(l), j)}}
InsertedNot(l) == maps
Inserted(l) ==
  IF Current(l).outer THEN maps
  ELSE [m \in DOMAIN maps |->
          IF m \in Outers(l) THEN [maps[m] EXCEPT !.inner[load[l].i] = load[l].fds[load[l].i]]
          ELSE maps[m]]
InsertInner(l) ==
  /\ load[l].pc = "insert"
  /\ maps' = Inserted(l)
  /\ Upd(l, NextMap(l, load[l]))
  /\ UNCHANGED <<bset, pins, removed>>

----------------------------------------------------------------------------

\* A loader is killed; what it has pinned stays.
KillLoader(l) ==
  /\ bset.kills /\ load[l].pc \notin {"done", "failed", "killed"}
  /\ Upd(l, [load[l] EXCEPT !.pc = "killed"])
  /\ UNCHANGED <<bset, maps, pins, removed>>

\* Somebody removes a pin.
RemovePin(n) ==
  /\ removed < bset.removals /\ pins[n] # 0
  /\ pins' = [pins EXCEPT ![n] = 0]
  /\ removed' = removed + 1
  /\ UNCHANGED <<bset, maps, load>>

BpfInit ==
  /\ bset \in BpfSetups
  /\ maps = <<>>
  /\ pins = [n \in MapNames |-> 0]
  /\ load = [l \in Loaders |-> Load0(bset.objects[l])]
  /\ removed = 0

LoadStep(l) == \/ ProbePinned(l) \/ ProbeMissing(l) \/ ProbeSkip(l) \/ CreateMap(l) \/ KernelRefuses(l)
               \/ PlacePinned(l) \/ InsertInner(l)

BpfNext == \/ \E l \in Loaders : LoadStep(l) \/ KillLoader(l)
           \/ \E n \in MapNames : RemovePin(n)

BpfSpec == BpfInit /\ [][BpfNext]_bpfVars /\ \A l \in Loaders : WF_bpfVars(LoadStep(l))

----------------------------------------------------------------------------
(* Properties.                                                             *)

Loaded(l) == load[l].pc = "done"

\* Loaders that started at the same time end up with the same map under one name: the
\* one that lost the race to pin it gives up its own.
MapsShared ==
  removed = 0 => \A l \in Loaders : Loaded(l) =>
    \A i \in DOMAIN Object(l) : Object(l)[i].pin => load[l].fds[i] = pins[Object(l)[i].name]

\* A program never gets a map of another shape than it was compiled for, where the kernel
\* shows the shapes.
MapsFit == bset.fdinfo # "zero" => \A l \in Loaders : Loaded(l) =>
             \A i \in DOMAIN Object(l) : maps[load[l].fds[i]].spec = Object(l)[i].spec

\* When the objects agree on the shape of the maps and have an inner map for every map of
\* maps, nobody removes pins and the kernel refuses nothing, every load succeeds: one
\* retry of bpf_map_attach is enough.
RetryEnough ==
  /\ \A l \in Loaders : \A i \in DOMAIN Object(l) :
       Object(l)[i].outer => Object(l)[i].inner_id /\ InnerFound(l)
  /\ \A l, m \in Loaders : \A i \in DOMAIN Object(l), k \in DOMAIN Object(m) :
       Object(l)[i].name = Object(m)[k].name => Object(l)[i].spec = Object(m)[k].spec
  /\ ~bset.faults /\ bset.removals = 0 /\ bset.fdinfo # "none"
  => \A l \in Loaders : load[l].pc # "failed"

\* When the loaders are through and none has failed or been killed, every map of maps that
\* is in use has all its inner maps, and the pinned ones of them are those that the
\* programs use directly: whoever created it has filled it.
OuterFilled ==
  (\A l \in Loaders : Loaded(l)) /\ removed = 0 =>
    \A l \in Loaders : \A i, k \in DOMAIN Object(l) :
      Outer(Object(l), i) /\ ~Object(l)[k].outer =>
        LET in == maps[load[l].fds[i]].inner[k] IN
        in # 0 /\ (Object(l)[k].pin => in = load[l].fds[k])

\* To the loaders pinning is atomic: bpf_map_attach, which looks for a map, creates one and
\* then tries to pin it, in steps that those of the others come between, gives what a
\* registry of maps gives in one step.
PinnedOf(l) == {i \in DOMAIN Object(l) : Object(l)[i].pin /\ load[l].fds[i] > 0}
Held == [l \in Loaders |-> {<<Object(l)[i].name, load[l].fds[i]>> : i \in PinnedOf(l)}]
Registry == INSTANCE MapRegistry WITH
  Clients <- Loaders, Keys <- MapNames, Maps <- 1..MaxMaps, reg <- pins,
  held <- Held
PinningAtomic == Registry!RegSpec

=============================================================================
