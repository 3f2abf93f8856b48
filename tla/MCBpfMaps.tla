----------------------------- MODULE MCBpfMaps ------------------------------
(* Objects for BpfMaps.                                                    *)
EXTENDS BpfMaps

MapOf(n, p, s) == [name |-> n, pin |-> p, outer |-> FALSE, inner_id |-> FALSE, spec |-> s]
OuterOf(n, p, id, s) == [name |-> n, pin |-> p, outer |-> TRUE, inner_id |-> id, spec |-> s]
OneMap == <<MapOf("m", TRUE, 1)>>
OneMapChanged == <<MapOf("m", TRUE, 2)>>
OuterFirst == <<OuterOf("out", TRUE, TRUE, 3), MapOf("in", FALSE, 1)>>
InnerPinned == <<MapOf("in", TRUE, 1), OuterOf("out", TRUE, TRUE, 3)>>
OuterAlone == <<OuterOf("out", TRUE, TRUE, 3)>>
OuterBare == <<OuterOf("out", TRUE, FALSE, 3)>>

BpfSetup(os, r, f, k, fi) ==
  [objects |-> os, removals |-> r, faults |-> f, kills |-> k, fdinfo |-> fi]

\* Two loaders of an object with a map of maps; three of an object with one map, whose pin
\* others remove, with refusals and kills, or with one object of another version, or where
\* the kernel does not show the maps; a map of maps without inner maps, beside one with them.
SomeBpfSetups ==
  {BpfSetup([l \in Loaders |-> IF l = 1 THEN <<>> ELSE o], 0, FALSE, FALSE, "shown") :
     o \in {OuterFirst, InnerPinned}}
  \cup {BpfSetup([l \in Loaders |-> OneMap], 2, TRUE, TRUE, "shown")}
  \cup {BpfSetup([l \in Loaders |-> IF l = 1 THEN OneMapChanged ELSE OneMap], 2, FALSE, FALSE, fi) :
          fi \in {"shown", "zero", "none"}}
  \cup {BpfSetup([l \in Loaders |-> CASE l = 1 -> <<>> [] l = 2 -> o [] OTHER -> OuterFirst],
                 0, FALSE, FALSE, "shown") : o \in {OuterAlone, OuterBare}}

=============================================================================
