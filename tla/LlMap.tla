------------------------------- MODULE LlMap --------------------------------
(***************************************************************************)
(* The link cache of lib/ll_map.c, and the links of the kernel it caches.  *)
(*                                                                         *)
(* An entry is in the chain of one bucket of the name hash; the entry that *)
(* holds the device's own name is also in the index hash and owns the list *)
(* of the entries of the alternative names.  New entries go to the head of *)
(* their chain, so one sequence of all entries, the newest first, holds    *)
(* every chain in its order.                                               *)
(***************************************************************************)
EXTENDS Naturals, Sequences, Functions, FiniteSets, FiniteSetsExt

CONSTANTS
  Indexes,  \* interface indexes
  Names,    \* device names and alternative names
  Hash      \* namehash(name) & (IDXMAP_SIZE - 1)

\* No device, and what stands for the name in a message without IFLA_IFNAME.
NoLink == [name |-> "", alts |-> <<>>]
NoName == "(none)"

ASSUME LlMapAssumption ==
  /\ Indexes \subseteq Nat \ {0}
  /\ IsFiniteSet(Names)
  /\ NoLink.name \notin Names /\ NoName \notin Names
  /\ DOMAIN Hash = Names

VARIABLES
  kern,     \* the kernel's links
  cache     \* the entries, the newest first

\* kind: "parent" is in the index hash; "alt" is in the list of its parent;
\* "orphan" was in the list of a parent that has been freed.
Entry(n, i, kind) == [name |-> n, index |-> i, kind |-> kind, bucket |-> Hash[n]]

\* The sequence s without the members of D.
Kept(r, x, D) == IF x \in D THEN r ELSE Append(r, x)
Without(s, D) ==
  LET kept[j \in 0..Len(s)] == IF j = 0 THEN <<>> ELSE Kept(kept[j - 1], s[j], D)
  IN kept[Len(s)]

Kinds == {"parent", "alt", "orphan"}

Alts(l) == {l.alts[j] : j \in DOMAIN l.alts}
NamesOf(l) == IF l = NoLink THEN {} ELSE {l.name} \cup Alts(l)

----------------------------------------------------------------------------
(* The kernel's links.                                                     *)

Used == UNION {NamesOf(kern[i]) : i \in Indexes}

\* The link the kernel finds under a name, 0 when there is none.
KernelIndex(n) ==
  IF n \in Used THEN CHOOSE i \in Indexes : n \in NamesOf(kern[i]) ELSE 0

\* What may become of link i: renamed, given or stripped of an alternative name.
Renamed(i) == {[kern[i] EXCEPT !.name = n] : n \in Names \ Used}
AltAdded(i) == {[kern[i] EXCEPT !.alts = Append(@, n)] : n \in Names \ Used}
AltDeleted(i) == {[kern[i] EXCEPT !.alts = Without(@, {n})] : n \in Alts(kern[i])}
Created == {[name |-> n, alts |-> <<>>] : n \in Names \ Used}

\* What there is when a command starts: some devices, each with names of its own.
Device == [name : Names, alts : {<<>>} \cup {<<a>> : a \in Names}]
OwnNames(k) ==
  \A i \in Indexes : /\ k[i].name \notin Alts(k[i])
                      /\ \A j \in Indexes : i # j => NamesOf(k[i]) \cap NamesOf(k[j]) = {}
FirstLinks == {k \in [Indexes -> Device \cup {NoLink}] : OwnNames(k)}

----------------------------------------------------------------------------
(* The cache.                                                              *)

IsParent(e, i) == e.index = i /\ e.kind = "parent"

Parents(c, i) == {e \in Range(c) : IsParent(e, i)}

Cached(c, i) == \E j \in DOMAIN c : IsParent(c[j], i)

ll_get_by_index(c, i) == c[Min({j \in DOMAIN c : IsParent(c[j], i)})]

\* The position of the entry ll_get_by_name returns, 0 for NULL: the first in
\* the chain of the name's bucket that carries the name.
ll_get_by_name(c, n) ==
  LET found == {j \in DOMAIN c : c[j].bucket = Hash[n] /\ c[j].name = n}
  IN IF found = {} THEN 0 ELSE Min(found)

ll_altname_entries_create(c, i, l) ==
  [j \in DOMAIN l.alts |-> Entry(l.alts[Len(l.alts) - j + 1], i, "alt")] \o c

ll_altname_entries_destroy(c, i) ==
  Without(c, {e \in Range(c) : e.index = i /\ e.kind = "alt"})

ll_entries_create(c, i, l) ==
  IF l.name = NoName THEN c
  ELSE ll_altname_entries_create(<<Entry(l.name, i, "parent")>> \o c, i, l)

ll_entries_destroy(c, i) ==
  Without(ll_altname_entries_destroy(c, i), Parents(c, i))

\* A changed name moves the entry to the chain of the new name; the name it
\* carries stays the old one.
EntryUpdateKept(c, i, l) == c
ll_entry_update(c, i, l) ==
  LET im == ll_get_by_index(c, i) IN
  IF im.name = l.name THEN c
  ELSE <<[im EXCEPT !.bucket = Hash[l.name]]>>
         \o Without(c, Parents(c, i))

\* list_first_entry and list_next_entry never return NULL, so the comparison
\* of the two lists always ends in recreating the cached one.  A message without
\* IFLA_PROP_LIST has no alternative names, and the cached ones go.
AltnameEntriesKept(c, i, l) == c
ll_altname_entries_update(c, i, l) ==
  ll_altname_entries_create(ll_altname_entries_destroy(c, i), i, l)

ll_entries_update(c, i, l) ==
  ll_altname_entries_update(IF l.name = NoName THEN c ELSE ll_entry_update(c, i, l), i, l)

\* A message about link i: RTM_NEWLINK with the names that it carries, or
\* RTM_DELLINK (NoLink).  Neither its family nor its namespace is looked at.
ll_remember_index(c, i, l) ==
  IF l = NoLink THEN ll_entries_destroy(c, i)
  ELSE IF Cached(c, i) THEN ll_entries_update(c, i, l)
  ELSE ll_entries_create(c, i, l)

\* The parent is freed; the entries of its alternative names stay.
DropNothing(c, i) == c
ll_drop_by_index(c, i) ==
  IF ~Cached(c, i) THEN c
  ELSE LET rest == Without(c, Parents(c, i)) IN
       [j \in DOMAIN rest |->
          IF rest[j].index = i THEN [rest[j] EXCEPT !.kind = "orphan"] ELSE rest[j]]

\* ll_link_get on a socket of its own, by name or by index: the answer goes to
\* the cache; 0 when the kernel knows no such link.
LinkGet(i) == IF i = 0 \/ kern[i] = NoLink THEN cache
              ELSE ll_remember_index(cache, i, kern[i])

\* The index ll_name_to_index returns, and the cache it leaves.  if_nametoindex
\* asks the kernel a second time; no name here has the form if<number>, which
\* needs no device.
ll_name_to_index(n) ==
  LET j == ll_get_by_name(cache, n) IN IF j # 0 THEN cache[j].index ELSE KernelIndex(n)
CacheAfterName(n) ==
  IF ll_get_by_name(cache, n) # 0 THEN cache ELSE LinkGet(KernelIndex(n))

\* The name ll_index_to_name returns ("" stands for "if%u"), and the cache it
\* leaves.
CacheAfterIndex(i) == IF Cached(cache, i) THEN cache ELSE LinkGet(i)
ll_index_to_name(i) ==
  IF Cached(CacheAfterIndex(i), i) THEN ll_get_by_index(CacheAfterIndex(i), i).name ELSE ""

----------------------------------------------------------------------------

Links == [name : Names, alts : Seq(Names)] \cup {NoLink}

=============================================================================
