------------------------------ MODULE IpProofs ------------------------------
(***************************************************************************)
(* Proofs about commands of ip: the flushes, "ip route restore", and the   *)
(* link cache under "ip monitor" and under a batch of "ip link" commands,  *)
(* for every table, file and set of devices, and any number of changes by  *)
(* others in the meantime.                                                 *)
(*                                                                         *)
(* FlushInv follows the objects that have been in the table since a round  *)
(* began: as long as the round has deleted nothing each of them is in the  *)
(* kernel's hands, in the queue or before the filter, or the dump has been *)
(* disturbed and NLM_F_DUMP_INTR is on its way to the user.  RestoreInv    *)
(* says that every route whose pass has come past it has been restored.    *)
(* MonitorInv says that the last message about a device tells what its     *)
(* source may say of it, and that the entries of a device without a        *)
(* message are what was said last (Tracked); BatchInv that every entry is  *)
(* that of a present name, up to devices that lost one behind the cache.   *)
(***************************************************************************)
EXTENDS Flush, RouteRestore, LinkMonitor, LinkBatch, WellFoundedInduction, TLAPS

----------------------------------------------------------------------------
(* Induction over the natural numbers, for sets.                           *)

\* A set of natural numbers has a least element.
LEMMA LeastOf ==
  ASSUME NEW T, T \subseteq Nat, T # {}
  PROVE  \E x \in T : \A y \in T : ~(y < x)
<1> DEFINE R == OpToRel(<, Nat)
<1>1. IsWellFoundedOn(R, Nat)
  BY Zenon, NatLessThanWellFounded
<1>2. \A x, y \in Nat : y < x => <<y, x>> \in R
  BY Zenon DEF OpToRel
<1> HIDE DEF R
<1>3. \E x \in T : \A y \in T : ~(<<y, x>> \in R)
  BY Zenon, <1>1, WFMin
<1> QED
  BY Zenon, <1>2, <1>3

\* A set that has 0, and n + 1 whenever it has n, has every natural number.
LEMMA SetInduction ==
  ASSUME NEW S, 0 \in S, \A n \in Nat : n \in S => n + 1 \in S
  PROVE  \A n \in Nat : n \in S
<1>1. SUFFICES ASSUME Nat \ S # {} PROVE FALSE
  BY Zenon
<1>2. PICK x \in Nat \ S : \A y \in Nat \ S : ~(y < x)
  BY Zenon, <1>1, LeastOf
<1>3. x # 0 /\ x - 1 \in Nat /\ x - 1 < x
  BY <1>2
<1>4. x - 1 \in S
  BY Zenon, <1>2, <1>3
<1> QED
  BY <1>3, <1>4

----------------------------------------------------------------------------
(* Sequences.                                                              *)

\* The members of a sequence with one more, of two sequences in a row and of a reversed one.
LEMMA AppendRange ==
  ASSUME NEW S, NEW s \in Seq(S), NEW x \in S
  PROVE  Append(s, x) \in Seq(S) /\ Range(Append(s, x)) = Range(s) \cup {x}
<1> DEFINE t == Append(s, x)
<1>1. Len(s) \in Nat /\ DOMAIN s = 1..Len(s) /\ DOMAIN t = 1..(Len(s) + 1) /\ t[Len(s) + 1] = x
  OBVIOUS
<1>2. \A j \in 1..Len(s) : t[j] = s[j]
  OBVIOUS
<1>3. t \in Seq(S)
  OBVIOUS
<1> HIDE DEF t
<1>4. DOMAIN t = DOMAIN s \cup {Len(s) + 1}
  BY <1>1
<1>5. Range(t) = Range(s) \cup {x}
  BY <1>1, <1>2, <1>4 DEF Range
<1> QED
  BY Zenon, <1>3, <1>5 DEF t

\* The elements of a concatenation are those of its two parts.
LEMMA ConcatRange ==
  ASSUME NEW S, NEW s \in Seq(S), NEW t \in Seq(S)
  PROVE  s \o t \in Seq(S) /\ Range(s \o t) = Range(s) \cup Range(t)
<1> DEFINE u == s \o t
<1>1. /\ Len(s) \in Nat /\ Len(t) \in Nat
      /\ DOMAIN s = 1..Len(s) /\ DOMAIN t = 1..Len(t) /\ DOMAIN u = 1..(Len(s) + Len(t))
  OBVIOUS
<1>2. \A j \in 1..Len(s) : u[j] = s[j]
  OBVIOUS
<1>3. \A j \in 1..Len(t) : u[Len(s) + j] = t[j]
  OBVIOUS
<1>4. u \in Seq(S)
  OBVIOUS
<1> HIDE DEF u
<1>5. ASSUME NEW j \in DOMAIN u PROVE u[j] \in Range(s) \cup Range(t)
  <2>1. CASE j <= Len(s)
    BY <1>1, <1>2, <2>1 DEF Range
  <2>2. CASE ~(j <= Len(s))
    <3>1. j - Len(s) \in 1..Len(t) /\ j = Len(s) + (j - Len(s))
      BY <1>1, <2>2
    <3> QED
      BY Zenon, <1>1, <1>3, <3>1 DEF Range
  <2> QED
    BY Zenon, <2>1, <2>2
<1>6. ASSUME NEW j \in DOMAIN s PROVE s[j] \in Range(u)
  BY <1>1, <1>2 DEF Range
<1>7. ASSUME NEW j \in DOMAIN t PROVE t[j] \in Range(u)
  <2>1. Len(s) + j \in DOMAIN u
    BY <1>1
  <2> QED
    BY Zenon, <1>1, <1>3, <2>1 DEF Range
<1>8. Range(u) = Range(s) \cup Range(t)
  BY Zenon, <1>5, <1>6, <1>7 DEF Range
<1> QED
  BY Zenon, <1>4, <1>8 DEF u

\* hlist_add_head: one more element, at the front of the chain.
LEMMA ConsRange ==
  ASSUME NEW S, NEW s \in Seq(S), NEW x \in S
  PROVE  <<x>> \o s \in Seq(S) /\ Range(<<x>> \o s) = {x} \cup Range(s)
<1> DEFINE t == <<x>>
<1>1. t \in Seq(S) /\ DOMAIN t = {1} /\ t[1] = x
  OBVIOUS
<1> HIDE DEF t
<1>2. Range(t) = {x}
  BY Zenon, <1>1 DEF Range
<1>3. t \o s \in Seq(S) /\ Range(t \o s) = Range(t) \cup Range(s)
  BY <1>1, ConcatRange
<1> QED
  BY Zenon, <1>2, <1>3 DEF t

\* ll_get_by_index and ll_get_by_name take the first match, which is a match.
LEMMA MinOf ==
  ASSUME NEW T, T \subseteq Nat, T # {}
  PROVE  Min(T) \in T
<1>1. PICK x \in T : \A y \in T : ~(y < x)
  BY Zenon, LeastOf
<1>2. \A y \in T : x =< y
  BY <1>1
<1> QED
  BY Zenon, <1>2 DEF Min

----------------------------------------------------------------------------
(* Sequences.                                                              *)

\* The function that Without computes exists, and its value at j is what is left of the first j
\* elements.
LEMMA WithoutSteps ==
  ASSUME NEW S, NEW s \in Seq(S), NEW D
  PROVE  \E g : /\ Without(s, D) = g[Len(s)]
                /\ g[0] = <<>>
                /\ \A j \in 1..Len(s) : g[j] = Kept(g[j - 1], s[j], D)
<1> DEFINE L == Len(s)
           Steps(g, m) == g = [n \in 0..m |-> IF n = 0 THEN <<>> ELSE Kept(g[n - 1], s[n], D)]
           K == {m \in Nat : \E g : Steps(g, m)}
<1>0. L \in Nat
  OBVIOUS
<1>2. 0 \in K
  <2> DEFINE g == [n \in 0..0 |-> <<>>]
  <2>1. Steps(g, 0)
    BY DEF Steps
  <2> QED
    BY Zenon, <2>1
<1>3. ASSUME NEW m \in Nat, m \in K PROVE m + 1 \in K
  <2>1. PICK g : Steps(g, m)
    BY Zenon, <1>3
  <2> DEFINE h == [n \in 0..(m + 1) |-> IF n <= m THEN g[n] ELSE Kept(g[m], s[m + 1], D)]
  <2>2. ASSUME NEW n \in 0..(m + 1)
        PROVE  h[n] = IF n = 0 THEN <<>> ELSE Kept(h[n - 1], s[n], D)
    <3>1. CASE n = 0
      BY SMTT(20), <2>1, <3>1
    <3>2. CASE n \in 1..m
      <4>1. g[n] = Kept(g[n - 1], s[n], D)
        BY <2>1, <3>2
      <4>2. h[n] = g[n] /\ h[n - 1] = g[n - 1]
        BY <3>2
      <4> QED
        BY <3>2, <4>1, <4>2
    <3>3. CASE n = m + 1
      <4>1. h[n] = Kept(g[m], s[n], D) /\ h[n - 1] = g[m]
        BY <3>3
      <4> QED
        BY <3>3, <4>1
    <3> QED
      BY <3>1, <3>2, <3>3
  <2>3. h = [n \in 0..(m + 1) |-> IF n = 0 THEN <<>> ELSE Kept(h[n - 1], s[n], D)]
    BY Zenon, <2>2
  <2>4. Steps(h, m + 1)
    BY Zenon, <2>3
  <2>5. m + 1 \in Nat
    OBVIOUS
  <2> HIDE DEF h
  <2> QED
    BY Zenon, <2>4, <2>5
<1> HIDE DEF K
<1>4. L \in K
  BY SMTT(20), <1>0, <1>2, <1>3, SetInduction
<1>5. \E g : Steps(g, L)
  BY Zenon, <1>0, <1>4 DEF K
<1> DEFINE after == CHOOSE g : Steps(g, L)
<1>6. Steps(after, L)
  BY Zenon, <1>5
<1>7. Without(s, D) = after[L]
  BY Zenon DEF Without
<1> HIDE DEF after
<1>8. after[0] = <<>>
  BY <1>0, <1>6
<1>9. \A j \in 1..L : after[j] = Kept(after[j - 1], s[j], D)
  BY <1>0, <1>6
<1> QED
  BY Zenon, <1>7, <1>8, <1>9

\* Without leaves a sequence of the other members.
LEMMA WithoutRange ==
  ASSUME NEW S, NEW s \in Seq(S), NEW D
  PROVE  Without(s, D) \in Seq(S) /\ Range(Without(s, D)) = Range(s) \ D
<1> DEFINE L == Len(s)
<1>0. L \in Nat /\ DOMAIN s = 1..L /\ \A j \in 1..L : s[j] \in S
  OBVIOUS
<1>1. PICK g : /\ Without(s, D) = g[L]
               /\ g[0] = <<>>
               /\ \A j \in 1..L : g[j] = Kept(g[j - 1], s[j], D)
  BY Zenon, WithoutSteps
<1> DEFINE First(m) == {s[j] : j \in 1..m} \ D
           K == {m \in Nat : m <= L => g[m] \in Seq(S) /\ Range(g[m]) = First(m)}
<1>2. 0 \in K
  <2>1. g[0] \in Seq(S) /\ Range(g[0]) = {}
    BY <1>1 DEF Range
  <2>2. First(0) = {}
    OBVIOUS
  <2> QED
    BY Zenon, <2>1, <2>2
<1>3. ASSUME NEW m \in Nat, m \in K PROVE m + 1 \in K
  <2> SUFFICES ASSUME m + 1 <= L PROVE g[m + 1] \in Seq(S) /\ Range(g[m + 1]) = First(m + 1)
    OBVIOUS
  <2>1. g[m] \in Seq(S) /\ Range(g[m]) = First(m) /\ m + 1 \in 1..L
    BY <1>0, <1>3
  <2>2. s[m + 1] \in S /\ g[m + 1] = IF s[m + 1] \in D THEN g[m] ELSE Append(g[m], s[m + 1])
    BY <1>0, <1>1, <2>1 DEF Kept
  <2>3. 1..(m + 1) = 1..m \cup {m + 1}
    OBVIOUS
  <2>4. First(m + 1) = First(m) \cup ({s[m + 1]} \ D)
    BY Zenon, <2>3
  <2>5. CASE s[m + 1] \in D
    BY Zenon, <2>1, <2>2, <2>4, <2>5
  <2>6. CASE s[m + 1] \notin D
    <3>1. g[m + 1] = Append(g[m], s[m + 1])
      BY Zenon, <2>2, <2>6
    <3>2. Range(Append(g[m], s[m + 1])) = Range(g[m]) \cup {s[m + 1]}
      BY <2>1, <2>2, AppendRange
    <3> QED
      BY <2>1, <2>2, <2>4, <2>6, <3>1, <3>2
  <2> QED
    BY Zenon, <2>5, <2>6
<1> HIDE DEF K
<1>4. L \in K
  BY SMTT(20), <1>0, <1>2, <1>3, SetInduction
<1>5. g[L] \in Seq(S) /\ Range(g[L]) = First(L)
  BY <1>0, <1>4 DEF K
<1>6. First(L) = Range(s) \ D
  BY Zenon, <1>0 DEF Range
<1> QED
  BY Zenon, <1>1, <1>5, <1>6

----------------------------------------------------------------------------
(* The link cache.                                                         *)

\* An entry of the cache.
EntryRec == [name : Names, index : Indexes, kind : Kinds, bucket : {Hash[n] : n \in Names}]

Place(n, i, b) == [name |-> n, index |-> i, kind |-> "parent", bucket |-> b]

\* The entries of device i, and that they are those of l: the one of its name, which after a
\* rename carries the old name in the chain of the new one (or has been back at its old name ever
\* since), and those of its alternative names.
OfLink(c, i) == {e \in Range(c) : e.index = i}
Agrees(c, i, l) ==
  IF l = NoLink THEN OfLink(c, i) = {}
  ELSE \E n, m \in Names :
         /\ n = l.name \/ Hash[m] = Hash[l.name]
         /\ OfLink(c, i) = {Place(n, i, Hash[m])} \cup {Entry(a, i, "alt") : a \in Alts(l)}

Own(i, l) == {Entry(a, i, "alt") : a \in Alts(l)}

\* Agrees is about the entries of one device.
LEMMA AgreesSame ==
  ASSUME NEW c, NEW d, NEW i, NEW l, OfLink(d, i) = OfLink(c, i)
  PROVE  Agrees(d, i, l) <=> Agrees(c, i, l)
BY Zenon DEF Agrees

\* The alternative names of a link.
LEMMA AltsOf ==
  ASSUME NEW l \in Links, l # NoLink
  PROVE  l.name \in Names /\ l.alts \in Seq(Names) /\ Alts(l) \subseteq Names
<1>1. l \in [name : Names, alts : Seq(Names)]
  BY Zenon DEF Links
<1>2. l.name \in Names /\ l.alts \in Seq(Names)
  BY Zenon, <1>1
<1> QED
  BY <1>2 DEF Alts

\* An entry.
LEMMA EntryType ==
  ASSUME NEW n \in Names, NEW i \in Indexes, NEW kind \in Kinds
  PROVE  /\ Entry(n, i, kind) \in EntryRec
         /\ Entry(n, i, kind).name = n /\ Entry(n, i, kind).index = i
         /\ Entry(n, i, kind).kind = kind /\ Entry(n, i, kind).bucket = Hash[n]
BY Zenon DEF Entry, EntryRec

\* ll_altname_entries_create adds the entries of the alternative names.
LEMMA AltnamesCreated ==
  ASSUME NEW c \in Seq(EntryRec), NEW i \in Indexes, NEW l \in Links, l # NoLink
  PROVE  /\ ll_altname_entries_create(c, i, l) \in Seq(EntryRec)
         /\ Range(ll_altname_entries_create(c, i, l)) = Own(i, l) \cup Range(c)
<1> DEFINE L == Len(l.alts)
           s == [j \in DOMAIN l.alts |-> Entry(l.alts[L - j + 1], i, "alt")]
<1>1. l.alts \in Seq(Names)
  BY Zenon, AltsOf
<1>2. DOMAIN l.alts = 1..L /\ L \in Nat
  BY <1>1
<1>3. \A j \in 1..L : L - j + 1 \in 1..L /\ L - (L - j + 1) + 1 = j
  BY <1>2
<1>4. \A j \in 1..L : l.alts[j] \in Names /\ Entry(l.alts[j], i, "alt") \in EntryRec
  BY <1>1, EntryType DEF Kinds
<1> HIDE DEF L
<1>5. s \in Seq(EntryRec)
  <2>1. \A j \in 1..L : Entry(l.alts[L - j + 1], i, "alt") \in EntryRec
    BY Zenon, <1>3, <1>4
  <2>2. s \in [1..L -> EntryRec]
    BY Zenon, <1>2, <2>1
  <2> HIDE DEF s
  <2> QED
    BY <1>2, <2>2
<1>6. Range(s) = Own(i, l)
  <2>1. \A j \in 1..L : s[j] = Entry(l.alts[L - j + 1], i, "alt")
    BY Zenon, <1>2
  <2>2. DOMAIN s = 1..L
    BY Zenon, <1>2
  <2> HIDE DEF s
  <2>3. \A j \in 1..L : s[j] \in Own(i, l)
    BY Zenon, <1>2, <1>3, <2>1 DEF Own, Alts
  <2>4. \A j \in 1..L : Entry(l.alts[j], i, "alt") \in Range(s)
    <3> SUFFICES ASSUME NEW j \in 1..L PROVE Entry(l.alts[j], i, "alt") \in Range(s)
      BY Zenon
    <3>1. L - j + 1 \in DOMAIN s /\ s[L - j + 1] = Entry(l.alts[j], i, "alt")
      BY Zenon, <1>3, <2>1, <2>2
    <3> QED
      BY Zenon, <3>1 DEF Range
  <2> QED
    BY Zenon, <1>2, <2>2, <2>3, <2>4 DEF Own, Alts, Range
<1> HIDE DEF s
<1>7. s \o c \in Seq(EntryRec) /\ Range(s \o c) = Own(i, l) \cup Range(c)
  BY <1>5, <1>6, ConcatRange
<1> QED
  BY Zenon, <1>7 DEF ll_altname_entries_create, s, L

\* ll_altname_entries_destroy takes away the entries of the alternative names, and
\* ll_entries_destroy those of the name as well.
LEMMA AltnamesDestroyed ==
  ASSUME NEW c \in Seq(EntryRec), NEW i
  PROVE  /\ ll_altname_entries_destroy(c, i) \in Seq(EntryRec)
         /\ Range(ll_altname_entries_destroy(c, i)) = {e \in Range(c) : ~(e.index = i /\ e.kind = "alt")}
<1> DEFINE D == {e \in Range(c) : e.index = i /\ e.kind = "alt"}
<1>1. Without(c, D) \in Seq(EntryRec) /\ Range(Without(c, D)) = Range(c) \ D
  <2> HIDE DEF D
  <2> QED
    BY Zenon, WithoutRange
<1> QED
  BY Zenon, <1>1 DEF ll_altname_entries_destroy

\* What is left of a cache without the entry of a device's name.
LEMMA ParentsTaken ==
  ASSUME NEW c \in Seq(EntryRec), NEW d \in Seq(EntryRec), NEW i
  PROVE  /\ Without(d, Parents(c, i)) \in Seq(EntryRec)
         /\ Range(Without(d, Parents(c, i))) = Range(d) \ Parents(c, i)
BY Zenon, WithoutRange

\* ll_entries_destroy takes the entries of one device out, and no others.
LEMMA EntriesDestroyed ==
  ASSUME NEW c \in Seq(EntryRec), NEW i
  PROVE  /\ ll_entries_destroy(c, i) \in Seq(EntryRec)
         /\ Range(ll_entries_destroy(c, i))
              = {e \in Range(c) : ~(e.index = i /\ e.kind \in {"alt", "parent"})}
<1> DEFINE d == ll_altname_entries_destroy(c, i)
<1>1. d \in Seq(EntryRec) /\ Range(d) = {e \in Range(c) : ~(e.index = i /\ e.kind = "alt")}
  BY Zenon, AltnamesDestroyed
<1> HIDE DEF d
<1>2. /\ Without(d, Parents(c, i)) \in Seq(EntryRec)
      /\ Range(Without(d, Parents(c, i))) = Range(d) \ Parents(c, i)
  BY Zenon, <1>1, ParentsTaken
<1>3. Range(d) \ Parents(c, i) = {e \in Range(c) : ~(e.index = i /\ e.kind \in {"alt", "parent"})}
  BY Zenon, <1>1 DEF Parents, IsParent
<1> QED
  BY Zenon, <1>2, <1>3 DEF ll_entries_destroy, d

\* ll_entries_create adds the entry of the name as well.
LEMMA EntriesCreated ==
  ASSUME NEW c \in Seq(EntryRec), NEW i \in Indexes, NEW l \in Links, l # NoLink
  PROVE  /\ ll_entries_create(c, i, l) \in Seq(EntryRec)
         /\ Range(ll_entries_create(c, i, l)) = Own(i, l) \cup {Entry(l.name, i, "parent")} \cup Range(c)
<1> DEFINE e == Entry(l.name, i, "parent")
           d == <<e>> \o c
<1>1. e \in EntryRec
  BY Zenon, AltsOf, EntryType DEF Kinds
<1> HIDE DEF e
<1>3. d \in Seq(EntryRec) /\ Range(d) = {e} \cup Range(c)
  BY Zenon, <1>1, ConsRange
<1> HIDE DEF d
<1>4. /\ ll_altname_entries_create(d, i, l) \in Seq(EntryRec)
      /\ Range(ll_altname_entries_create(d, i, l)) = Own(i, l) \cup Range(d)
  BY Zenon, <1>3, AltnamesCreated
<1>5. ll_entries_create(c, i, l) = ll_altname_entries_create(d, i, l)
  <2>1. l.name # NoName
    BY Zenon, AltsOf, LlMapAssumption
  <2> QED
    BY Zenon, <2>1 DEF ll_entries_create, d, e
<1> QED
  BY Zenon, <1>3, <1>4, <1>5 DEF e

\* The entry of the index hash, when there is one.
LEMMA FoundByIndex ==
  ASSUME NEW c \in Seq(EntryRec), NEW i, Cached(c, i)
  PROVE  ll_get_by_index(c, i) \in Parents(c, i)
<1> DEFINE I == {j \in DOMAIN c : IsParent(c[j], i)}
<1>1. DOMAIN c = 1..Len(c) /\ Len(c) \in Nat
  OBVIOUS
<1>2. I # {} /\ I \subseteq Nat
  BY <1>1 DEF Cached
<1>3. ll_get_by_index(c, i) = c[Min(I)]
  BY Zenon, <1>2 DEF ll_get_by_index
<1>4. Min(I) \in I
  <2> HIDE DEF I
  <2> QED
    BY Zenon, <1>2, MinOf
<1> QED
  BY Zenon, <1>1, <1>3, <1>4 DEF Parents, Range

\* The entry a name is found in.
LEMMA FoundByName ==
  ASSUME NEW c \in Seq(EntryRec), NEW n, ll_get_by_name(c, n) # 0
  PROVE  /\ ll_get_by_name(c, n) \in DOMAIN c
         /\ c[ll_get_by_name(c, n)] \in Range(c)
         /\ c[ll_get_by_name(c, n)].bucket = Hash[n] /\ c[ll_get_by_name(c, n)].name = n
<1> DEFINE I == {j \in DOMAIN c : c[j].bucket = Hash[n] /\ c[j].name = n}
<1>1. DOMAIN c = 1..Len(c) /\ Len(c) \in Nat
  OBVIOUS
<1>2. I # {} /\ ll_get_by_name(c, n) = Min(I)
  BY Zenon DEF ll_get_by_name
<1>3. Min(I) \in I
  <2>1. I \subseteq Nat
    OBVIOUS
  <2> HIDE DEF I
  <2> QED
    BY Zenon, <1>2, <2>1, MinOf
<1> QED
  BY Zenon, <1>1, <1>2, <1>3 DEF Range

\* A link by name and bucket of its entry, as ll_entry_update leaves it.
LEMMA PlaceFields ==
  ASSUME NEW n, NEW i, NEW b
  PROVE  /\ Place(n, i, b).name = n /\ Place(n, i, b).index = i
         /\ Place(n, i, b).kind = "parent" /\ Place(n, i, b).bucket = b
BY Zenon DEF Place

\* The entries of the alternative names are no others.
LEMMA OwnFields ==
  ASSUME NEW i \in Indexes, NEW l \in Links, l # NoLink
  PROVE  \A e \in Own(i, l) : e.index = i /\ e.kind = "alt" /\ e.name \in Alts(l) /\ e.bucket = Hash[e.name]
BY DEF Own, Entry

\* What is cached of a device that agrees with some link: the entry of its name and the entries of
\* its alternative names, or nothing.
LEMMA AgreesKinds ==
  ASSUME NEW c \in Seq(EntryRec), NEW i \in Indexes, NEW l \in Links, Agrees(c, i, l)
  PROVE  /\ \A e \in OfLink(c, i) : e.kind \in {"alt", "parent"}
         /\ l = NoLink => Parents(c, i) = {}
         /\ l # NoLink => \E n, m \in Names :
              /\ n = l.name \/ Hash[m] = Hash[l.name]
              /\ Parents(c, i) = {Place(n, i, Hash[m])}
<1>1. CASE l = NoLink
  BY Zenon, <1>1 DEF Agrees, OfLink, Parents, IsParent
<1>2. CASE l # NoLink
  <2>1. PICK n, m \in Names :
          /\ n = l.name \/ Hash[m] = Hash[l.name]
          /\ OfLink(c, i) = {Place(n, i, Hash[m])} \cup Own(i, l)
    BY Zenon, <1>2 DEF Agrees, Own
  <2>2. Parents(c, i) = {e \in OfLink(c, i) : e.kind = "parent"}
    BY Zenon DEF Parents, OfLink, IsParent
  <2>3. Parents(c, i) = {Place(n, i, Hash[m])}
    BY <1>2, <2>1, <2>2, OwnFields, PlaceFields
  <2>4. \A e \in OfLink(c, i) : e.kind \in {"alt", "parent"}
    BY <1>2, <2>1, OwnFields, PlaceFields
  <2> QED
    BY Zenon, <1>2, <2>1, <2>3, <2>4
<1> QED
  BY Zenon, <1>1, <1>2

\* A device is in the index hash when it has an entry there.
LEMMA CachedParents ==
  ASSUME NEW c \in Seq(EntryRec), NEW i
  PROVE  Cached(c, i) <=> Parents(c, i) # {}
BY Zenon DEF Cached, Parents, Range

\* ll_entry_update leaves one entry of the name, which carries it or is in its chain, and every
\* other entry.
LEMMA EntryUpdated ==
  ASSUME NEW c \in Seq(EntryRec), NEW i \in Indexes, NEW l \in Links, l # NoLink,
         NEW n \in Names, NEW m \in Names, Parents(c, i) = {Place(n, i, Hash[m])}
  PROVE  /\ ll_entry_update(c, i, l) \in Seq(EntryRec)
         /\ \E k \in Names :
              /\ n = l.name \/ Hash[k] = Hash[l.name]
              /\ Range(ll_entry_update(c, i, l)) = {Place(n, i, Hash[k])} \cup (Range(c) \ Parents(c, i))
<1> DEFINE im == ll_get_by_index(c, i)
           p == Place(n, i, Hash[l.name])
           w == Without(c, Parents(c, i))
<1>1. im = Place(n, i, Hash[m])
  BY Zenon, FoundByIndex, CachedParents
<1> HIDE DEF im
<1>2. im.name = n /\ [im EXCEPT !.bucket = Hash[l.name]] = p
  BY <1>1 DEF Place
<1>3. ll_entry_update(c, i, l) = IF n = l.name THEN c ELSE <<p>> \o w
  BY Zenon, <1>2 DEF ll_entry_update, im
<1>4. Parents(c, i) \subseteq Range(c)
  BY Zenon DEF Parents
<1>5. CASE n = l.name
  BY Zenon, <1>3, <1>4, <1>5
<1>6. CASE n # l.name
  <2>1. w \in Seq(EntryRec) /\ Range(w) = Range(c) \ Parents(c, i)
    BY Zenon, ParentsTaken
  <2>2. l.name \in Names
    BY Zenon, AltsOf
  <2>3. p \in EntryRec
    BY Zenon, <2>2 DEF Place, EntryRec, Kinds
  <2> HIDE DEF p, w
  <2>5. <<p>> \o w \in Seq(EntryRec) /\ Range(<<p>> \o w) = {p} \cup Range(w)
    BY Zenon, <2>1, <2>3, ConsRange
  <2>6. ll_entry_update(c, i, l) = <<p>> \o w
    BY Zenon, <1>3, <1>6
  <2>7. Range(ll_entry_update(c, i, l)) = {Place(n, i, Hash[l.name])} \cup (Range(c) \ Parents(c, i))
    BY Zenon, <2>1, <2>5, <2>6 DEF p
  <2> QED
    BY Zenon, <2>2, <2>5, <2>6, <2>7
<1> QED
  BY Zenon, <1>5, <1>6

\* ll_remember_index makes the entries of a device agree with what the message says of it, and
\* leaves those of every other device.
LEMMA Remembered ==
  ASSUME NEW c \in Seq(EntryRec), NEW i \in Indexes, NEW l \in Links, NEW l0 \in Links, Agrees(c, i, l0)
  PROVE  /\ ll_remember_index(c, i, l) \in Seq(EntryRec)
         /\ Agrees(ll_remember_index(c, i, l), i, l)
         /\ \A k \in Indexes : k # i => OfLink(ll_remember_index(c, i, l), k) = OfLink(c, k)
<1> DEFINE r == ll_remember_index(c, i, l)
<1>0. /\ \A e \in OfLink(c, i) : e.kind \in {"alt", "parent"}
      /\ l0 = NoLink => Parents(c, i) = {}
      /\ l0 # NoLink => \E n, m \in Names :
           /\ n = l0.name \/ Hash[m] = Hash[l0.name]
           /\ Parents(c, i) = {Place(n, i, Hash[m])}
  BY Zenon, AgreesKinds
<1>1. CASE l = NoLink
  <2>1. r = ll_entries_destroy(c, i)
    BY Zenon, <1>1 DEF ll_remember_index
  <2>2. r \in Seq(EntryRec) /\ Range(r) = {e \in Range(c) : ~(e.index = i /\ e.kind \in {"alt", "parent"})}
    BY Zenon, <2>1, EntriesDestroyed
  <2> HIDE DEF r
  <2>3. OfLink(r, i) = {}
    BY Zenon, <1>0, <2>2 DEF OfLink
  <2>4. \A k \in Indexes : k # i => OfLink(r, k) = OfLink(c, k)
    BY Zenon, <2>2 DEF OfLink
  <2> QED
    BY Zenon, <1>1, <2>2, <2>3, <2>4 DEF Agrees, r
<1>2. CASE l # NoLink /\ l0 = NoLink
  <2>1. ~Cached(c, i)
    BY Zenon, <1>0, <1>2, CachedParents
  <2>2. r = ll_entries_create(c, i, l)
    BY Zenon, <1>2, <2>1 DEF ll_remember_index
  <2>3. r \in Seq(EntryRec) /\ Range(r) = Own(i, l) \cup {Entry(l.name, i, "parent")} \cup Range(c)
    BY <1>2, <2>2, EntriesCreated
  <2> HIDE DEF r
  <2>4. l.name \in Names /\ Entry(l.name, i, "parent") = Place(l.name, i, Hash[l.name])
    BY Zenon, <1>2, AltsOf DEF Entry, Place
  <2>5. OfLink(c, i) = {}
    BY Zenon, <1>2 DEF Agrees
  <2>6. OfLink(r, i) = {Place(l.name, i, Hash[l.name])} \cup Own(i, l)
    BY <1>2, <2>3, <2>4, <2>5, OwnFields, PlaceFields DEF OfLink
  <2>7. \A k \in Indexes : k # i => OfLink(r, k) = OfLink(c, k)
    BY <1>2, <2>3, <2>4, OwnFields, PlaceFields DEF OfLink
  <2>8. Agrees(r, i, l)
    BY Zenon, <1>2, <2>4, <2>6 DEF Agrees, Own
  <2> QED
    BY Zenon, <2>3, <2>7, <2>8 DEF r
<1>3. CASE l # NoLink /\ l0 # NoLink
  <2>1. PICK n \in Names, m \in Names : Parents(c, i) = {Place(n, i, Hash[m])}
    BY Zenon, <1>0, <1>3
  <2> DEFINE u == ll_entry_update(c, i, l)
             d == ll_altname_entries_destroy(u, i)
  <2>2. Cached(c, i)
    BY Zenon, <2>1, CachedParents
  <2>3. r = ll_altname_entries_create(d, i, l)
    <3>1. l.name # NoName
      BY Zenon, <1>3, AltsOf, LlMapAssumption
    <3> QED
      BY Zenon, <1>3, <2>2, <3>1 DEF ll_remember_index, ll_entries_update, ll_altname_entries_update
  <2>4. /\ u \in Seq(EntryRec)
        /\ \E k \in Names :
              /\ n = l.name \/ Hash[k] = Hash[l.name]
              /\ Range(u) = {Place(n, i, Hash[k])} \cup (Range(c) \ Parents(c, i))
    BY <1>3, <2>1, EntryUpdated
  <2> HIDE DEF r, u
  <2>5. PICK k \in Names :
              /\ n = l.name \/ Hash[k] = Hash[l.name]
              /\ Range(u) = {Place(n, i, Hash[k])} \cup (Range(c) \ Parents(c, i))
    BY Zenon, <2>4
  <2>6. d \in Seq(EntryRec) /\ Range(d) = {e \in Range(u) : ~(e.index = i /\ e.kind = "alt")}
    BY Zenon, <2>4, AltnamesDestroyed
  <2> HIDE DEF d
  <2>7. r \in Seq(EntryRec) /\ Range(r) = Own(i, l) \cup Range(d)
    BY Zenon, <1>3, <2>3, <2>6, AltnamesCreated
  <2>8. Range(d) = {Place(n, i, Hash[k])} \cup {e \in Range(c) : e.index # i}
    BY <1>0, <2>5, <2>6, PlaceFields DEF Parents, IsParent, OfLink
  <2>9. OfLink(r, i) = {Place(n, i, Hash[k])} \cup Own(i, l)
    BY <1>3, <2>7, <2>8, OwnFields, PlaceFields DEF OfLink
  <2>10. \A j \in Indexes : j # i => OfLink(r, j) = OfLink(c, j)
    BY <1>3, <2>7, <2>8, OwnFields, PlaceFields DEF OfLink
  <2>11. Agrees(r, i, l)
    BY Zenon, <1>3, <2>5, <2>9 DEF Agrees, Own
  <2> QED
    BY Zenon, <2>7, <2>10, <2>11 DEF r
<1> QED
  BY Zenon, <1>1, <1>2, <1>3

----------------------------------------------------------------------------
(* "ip monitor".                                                           *)

\* The messages about device i, and that the last of them tells what one of its source may say of l.
About(q, i) == {j \in DOMAIN q : q[j].index = i}
Told(q, i, l) == \A j \in About(q, i) : (\A k \in About(q, i) : k <= j) => q[j].link \in Said(q[j].from, l)

Messages == [type : {"event", "dump"}, index : Indexes, link : Links, from : Sources] \cup {DumpDone}

MonitorTypeOK ==
  /\ kern \in [Indexes -> Links]
  /\ cache \in Seq(EntryRec)
  /\ phase \in {"dump", "listen", "exit"}
  /\ todo \subseteq Indexes
  /\ sockq \in Seq(Messages)
  /\ missed \in BOOLEAN
  /\ heard \in [Indexes -> Sources]

\* The end of the dump comes once, after the last link.
Dones(q) == {j \in DOMAIN q : q[j] = DumpDone}
DumpEnds ==
  /\ phase = "listen" \/ Dones(sockq) # {} => todo = {}
  /\ Dones(sockq) # {} => phase # "listen"
  /\ \A j, k \in Dones(sockq) : j = k

\* The cache agrees with what a message of that source may have said of link l.
Knows(c, i, from, l) == \E x \in Said(from, l) : Agrees(c, i, x)

\* What the monitor knows of device i as long as it has missed nothing: the last message in the
\* queue says what it may say of the device; a device still to be dumped is not in the cache; and
\* what is in the cache is what was said last, once no message about the device is on its way.
Tracked(i) ==
  /\ Told(sockq, i, kern[i])
  /\ i \in todo => /\ OfLink(cache, i) = {} /\ heard[i] = "link"
                   /\ \A j \in About(sockq, i) : sockq[j].type = "event"
  /\ i \notin todo /\ About(sockq, i) = {} => Knows(cache, i, heard[i], kern[i])

Shaped(c) == \A i \in Indexes : \E l \in Links : Agrees(c, i, l)

MonitorInv ==
  /\ MonitorTypeOK /\ DumpEnds /\ Shaped(cache)
  /\ phase # "exit" /\ ~missed => \A i \in Indexes : Tracked(i)

\* A message at the end of the queue is the last about its device.
LEMMA AppendTold ==
  ASSUME NEW q \in Seq(Messages), NEW m \in Messages, NEW i
  PROVE  /\ i # m.index => /\ About(Append(q, m), i) = About(q, i)
                           /\ \A l : Told(q, i, l) => Told(Append(q, m), i, l)
         /\ i = m.index => /\ About(Append(q, m), i) # {}
                           /\ \A l : m.link \in Said(m.from, l) => Told(Append(q, m), i, l)
<1> DEFINE a == Append(q, m)
           L == Len(q)
<1>1. /\ L \in Nat /\ DOMAIN q = 1..L /\ DOMAIN a = 1..(L + 1)
      /\ \A j \in 1..L : a[j] = q[j]
  OBVIOUS
<1>2. a[L + 1] = m
  OBVIOUS
<1> HIDE DEF a, L
<1>3. CASE i # m.index
  <2>1. About(a, i) = About(q, i)
    BY <1>1, <1>2, <1>3 DEF About
  <2>2. \A j \in About(q, i) : a[j] = q[j]
    BY Zenon, <1>1 DEF About
  <2> QED
    BY Zenon, <1>3, <2>1, <2>2 DEF Told, a
<1>4. CASE i = m.index
  <2>1. L + 1 \in About(a, i) /\ \A j \in About(a, i) : j \in Nat /\ j <= L + 1
    BY <1>1, <1>2, <1>4 DEF About
  <2>2. ASSUME NEW l, m.link \in Said(m.from, l) PROVE Told(a, i, l)
    <3> SUFFICES ASSUME NEW j \in About(a, i), \A k \in About(a, i) : k <= j
                 PROVE  a[j].link \in Said(a[j].from, l)
      BY Zenon DEF Told
    <3>1. j = L + 1
      BY <1>1, <2>1
    <3> QED
      BY Zenon, <1>2, <2>2, <3>1
  <2> QED
    BY Zenon, <1>4, <2>1, <2>2 DEF a
<1> QED
  BY Zenon, <1>3, <1>4

\* What the queue says of a device when its first message has been read.
LEMMA TailTold ==
  ASSUME NEW q \in Seq(Messages), q # <<>>, NEW i, NEW l, Told(q, i, l)
  PROVE  /\ Told(Tail(q), i, l)
         /\ About(Tail(q), i) = {} /\ i = Head(q).index => Head(q).link \in Said(Head(q).from, l)
         /\ About(Tail(q), i) = {} /\ i # Head(q).index => About(q, i) = {}
<1> DEFINE t == Tail(q)
           L == Len(q)
<1>1. /\ L \in Nat \ {0} /\ DOMAIN q = 1..L /\ DOMAIN t = 1..(L - 1)
      /\ \A j \in 1..(L - 1) : t[j] = q[j + 1]
  OBVIOUS
<1>2. Head(q) = q[1]
  OBVIOUS
<1> HIDE DEF t, L
<1>3. \A j \in About(t, i) : j \in Nat /\ j + 1 \in About(q, i) /\ t[j] = q[j + 1]
  BY <1>1 DEF About
<1>4. \A j \in About(q, i) : j \in Nat /\ (j = 1 \/ j - 1 \in About(t, i))
  BY <1>1 DEF About
<1>5. Told(t, i, l)
  <2> SUFFICES ASSUME NEW j \in About(t, i), \A k \in About(t, i) : k <= j
               PROVE  t[j].link \in Said(t[j].from, l)
    BY Zenon DEF Told
  <2>1. ASSUME NEW k \in About(q, i) PROVE k <= j + 1
    BY <1>3, <1>4, <2>1
  <2>2. j + 1 \in About(q, i) /\ t[j] = q[j + 1]
    BY Zenon, <1>3
  <2> QED
    BY Zenon, <2>1, <2>2 DEF Told
<1>6. ASSUME About(t, i) = {}, i = Head(q).index PROVE Head(q).link \in Said(Head(q).from, l)
  <2>1. 1 \in About(q, i)
    BY <1>1, <1>2, <1>6 DEF About
  <2>2. \A k \in About(q, i) : k <= 1
    BY <1>4, <1>6
  <2> QED
    BY Zenon, <1>2, <2>1, <2>2 DEF Told
<1>7. ASSUME About(t, i) = {}, i # Head(q).index PROVE About(q, i) = {}
  <2>1. 1 \notin About(q, i)
    BY Zenon, <1>1, <1>2, <1>7 DEF About
  <2> QED
    BY Zenon, <1>4, <1>7, <2>1
<1> QED
  BY Zenon, <1>5, <1>6, <1>7 DEF t

\* The end of the dump in a queue that grows and shrinks.
LEMMA AppendDones ==
  ASSUME NEW q \in Seq(Messages), NEW m \in Messages
  PROVE  /\ m # DumpDone => Dones(Append(q, m)) = Dones(q)
         /\ m = DumpDone => Dones(Append(q, m)) = Dones(q) \cup {Len(q) + 1}
<1> DEFINE a == Append(q, m)
           L == Len(q)
<1>1. /\ L \in Nat /\ DOMAIN q = 1..L /\ DOMAIN a = 1..(L + 1)
      /\ \A j \in 1..L : a[j] = q[j]
  OBVIOUS
<1>2. a[L + 1] = m
  OBVIOUS
<1> HIDE DEF a, L
<1>3. m # DumpDone => Dones(a) = Dones(q)
  BY <1>1, <1>2 DEF Dones
<1>4. m = DumpDone => Dones(a) = Dones(q) \cup {L + 1}
  BY <1>1, <1>2 DEF Dones
<1> QED
  BY Zenon, <1>3, <1>4 DEF a, L

\* Reading a message takes the end of the dump out of the queue when it is that message.
LEMMA TailDones ==
  ASSUME NEW q \in Seq(Messages), q # <<>>, \A j, k \in Dones(q) : j = k
  PROVE  /\ Dones(Tail(q)) # {} => Dones(q) # {}
         /\ \A j, k \in Dones(Tail(q)) : j = k
         /\ Head(q) = DumpDone => Dones(q) # {} /\ Dones(Tail(q)) = {}
<1> DEFINE t == Tail(q)
           L == Len(q)
<1>1. /\ L \in Nat \ {0} /\ DOMAIN q = 1..L /\ DOMAIN t = 1..(L - 1)
      /\ \A j \in 1..(L - 1) : t[j] = q[j + 1]
  OBVIOUS
<1>2. Head(q) = q[1]
  OBVIOUS
<1> HIDE DEF t, L
<1>3. \A j \in Dones(t) : j \in Nat \ {0} /\ j + 1 \in Dones(q)
  BY <1>1 DEF Dones
<1>4. Head(q) = DumpDone => 1 \in Dones(q)
  BY <1>1, <1>2 DEF Dones
<1>5. \A j, k \in Dones(t) : j = k
  <2> TAKE j, k \in Dones(t)
  <2>1. j + 1 = k + 1 /\ j \in Nat /\ k \in Nat
    BY Zenon, <1>3
  <2> QED
    BY <2>1
<1>6. ASSUME Head(q) = DumpDone, NEW j \in Dones(t) PROVE FALSE
  <2>1. j + 1 = 1 /\ j \in Nat \ {0}
    BY Zenon, <1>3, <1>4, <1>6
  <2> QED
    BY <2>1
<1> QED
  BY Zenon, <1>3, <1>4, <1>5, <1>6 DEF t

\* What may be said of a link.
LEMMA SaidIs ==
  ASSUME NEW l
  PROVE  /\ Said("link", l) = {l}
         /\ Said("bridge", l) = {Bare(l), NoLink}
         /\ Said("other", l) = OtherLinks
BY DEF Said

\* The messages.
LEMMA MessageType ==
  ASSUME NEW i \in Indexes, NEW l \in Links, NEW from \in Sources
  PROVE  /\ Event(i, l, from) \in Messages /\ Event(i, l, from) # DumpDone
         /\ Event(i, l, from).type = "event" /\ Event(i, l, from).index = i
         /\ Event(i, l, from).link = l /\ Event(i, l, from).from = from
         /\ Dumped(i, l) \in Messages /\ Dumped(i, l) # DumpDone
         /\ Dumped(i, l).type = "dump" /\ Dumped(i, l).index = i
         /\ Dumped(i, l).link = l /\ Dumped(i, l).from = "link"
<1> DEFINE M == [type : {"event", "dump"}, index : Indexes, link : Links, from : Sources]
<1>1. DumpDone.type = "done"
  BY Zenon DEF DumpDone
<1>2. /\ Event(i, l, from) \in M
      /\ Event(i, l, from).type = "event" /\ Event(i, l, from).index = i
      /\ Event(i, l, from).link = l /\ Event(i, l, from).from = from
  BY Zenon DEF Event
<1>3. "link" \in Sources
  BY Zenon DEF Sources
<1>4. /\ Dumped(i, l) \in M
      /\ Dumped(i, l).type = "dump" /\ Dumped(i, l).index = i
      /\ Dumped(i, l).link = l /\ Dumped(i, l).from = "link"
  BY Zenon, <1>3 DEF Dumped
<1> QED
  BY Zenon, <1>1, <1>2, <1>4 DEF Messages

\* A message is about a device, or it is the end of the dump.
LEMMA MessageKinds ==
  ASSUME NEW m \in Messages
  PROVE  /\ m # DumpDone => /\ m.type \in {"event", "dump"} /\ m.index \in Indexes /\ m.link \in Links
                            /\ m.from \in Sources
         /\ m = DumpDone => m.type = "done" /\ m.index \notin Indexes
<1>1. DumpDone.type = "done" /\ DumpDone.index = 0
  BY Zenon DEF DumpDone
<1> QED
  BY Zenon, <1>1, LlMapAssumption DEF Messages

\* NoLink is a link without names, and a change of a link leaves a link.
LEMMA NoLinkType == NoLink \in Links /\ NoLink.alts = <<>> /\ Alts(NoLink) = {}
<1>1. NoLink.alts = <<>>
  BY Zenon DEF NoLink
<1>2. Alts(NoLink) = {}
  BY <1>1 DEF Alts
<1> QED
  BY Zenon, <1>1, <1>2 DEF Links

\* The devices there are when a command starts.
LEMMA FirstLinksType ==
  ASSUME NEW s \in FirstLinks
  PROVE  s \in [Indexes -> Links]
<1>1. Device \subseteq [name : Names, alts : Seq(Names)]
  <2>1. {<<>>} \cup {<<a>> : a \in Names} \subseteq Seq(Names)
    <3>1. <<>> \in Seq(Names)
      OBVIOUS
    <3>2. ASSUME NEW a \in Names PROVE <<a>> \in Seq(Names)
      OBVIOUS
    <3> QED
      BY Zenon, <3>1, <3>2
  <2> DEFINE A == {<<>>} \cup {<<a>> : a \in Names}
  <2> HIDE DEF A
  <2>2. A \subseteq Seq(Names) /\ Device = [name : Names, alts : A]
    BY Zenon, <2>1 DEF Device, A
  <2> QED
    BY <2>2
<1>2. s \in [Indexes -> Device \cup {NoLink}]
  BY Zenon DEF FirstLinks
<1> QED
  BY Zenon, <1>1, <1>2 DEF Links

\* What a message says of a link is a link; and a bridge tells no other names than the link has.
LEMMA SaidLinks ==
  ASSUME NEW l \in Links, NEW from \in Sources, NEW x \in Said(from, l)
  PROVE  /\ x \in Links
         /\ from # "other" /\ x # NoLink => l # NoLink /\ x.name = l.name /\ Alts(x) \subseteq Alts(l)
<1>1. CASE from = "link"
  <2>1. x \in {l}
    BY Zenon, <1>1, SaidIs
  <2> QED
    BY <2>1
<1>2. CASE from = "bridge"
  <2>1. CASE x = NoLink
    BY Zenon, <1>2, <2>1, NoLinkType
  <2>2. CASE x # NoLink
    <3>1. x = Bare(l)
      BY Zenon, <1>2, <2>2, SaidIs
    <3>2. l # NoLink /\ x = [l EXCEPT !.alts = <<>>]
      BY Zenon, <2>2, <3>1 DEF Bare
    <3>3. l \in [name : Names, alts : Seq(Names)]
      BY Zenon, <3>2 DEF Links
    <3>4. <<>> \in Seq(Names) /\ DOMAIN <<>> = {}
      OBVIOUS
    <3>5. x \in [name : Names, alts : Seq(Names)] /\ x.name = l.name /\ x.alts = <<>>
      BY Zenon, <3>2, <3>3, <3>4
    <3>6. Alts(x) = {}
      BY Zenon, <3>4, <3>5 DEF Alts
    <3> QED
      BY Zenon, <3>2, <3>5, <3>6 DEF Links
  <2> QED
    BY Zenon, <2>1, <2>2
<1>3. CASE from = "other"
  BY Zenon, <1>3, SaidIs, MonitorAssumption
<1> QED
  BY Zenon, <1>1, <1>2, <1>3 DEF Sources

\* Whatever changes a device leaves a link of the right type, or none.
LEMMA ChangedLink ==
  ASSUME kern \in [Indexes -> Links], NEW i \in Indexes,
         NEW l \in IF kern[i] = NoLink THEN Created
                   ELSE {NoLink} \cup Renamed(i) \cup AltAdded(i) \cup AltDeleted(i)
  PROVE  l \in Links
<1> DEFINE R == [name : Names, alts : Seq(Names)]
<1>1. CASE kern[i] = NoLink
  <2>1. PICK n \in Names : l = [name |-> n, alts |-> <<>>]
    BY Zenon, <1>1 DEF Created
  <2> QED
    BY <2>1 DEF Links
<1>2. CASE kern[i] # NoLink
  <2>1. kern[i] \in R /\ kern[i].alts \in Seq(Names)
    BY Zenon, <1>2 DEF Links
  <2>2. CASE l \in Renamed(i)
    <3>1. PICK n \in Names : l = [kern[i] EXCEPT !.name = n]
      BY Zenon, <2>2 DEF Renamed
    <3> QED
      BY Zenon, <2>1, <3>1 DEF Links
  <2>3. CASE l \in AltAdded(i)
    <3>1. PICK n \in Names : l = [kern[i] EXCEPT !.alts = Append(@, n)]
      BY Zenon, <2>3 DEF AltAdded
    <3>2. Append(kern[i].alts, n) \in Seq(Names)
      BY <2>1
    <3> QED
      BY Zenon, <2>1, <3>1, <3>2 DEF Links
  <2>4. CASE l \in AltDeleted(i)
    <3>1. PICK n \in Alts(kern[i]) : l = [kern[i] EXCEPT !.alts = Without(@, {n})]
      BY Zenon, <2>4 DEF AltDeleted
    <3>2. Without(kern[i].alts, {n}) \in Seq(Names)
      BY Zenon, <2>1, WithoutRange
    <3> QED
      BY Zenon, <2>1, <3>1, <3>2 DEF Links
  <2> QED
    BY Zenon, <1>2, <2>2, <2>3, <2>4, NoLinkType
<1> QED
  BY Zenon, <1>1, <1>2

\* The monitor starts with an empty cache and every device still to be dumped.
LEMMA MonitorInitial == MonitorInit => MonitorInv
<1> SUFFICES ASSUME MonitorInit PROVE MonitorInv
  BY Zenon
<1>3. kern \in [Indexes -> Links]
  BY Zenon, FirstLinksType DEF MonitorInit
<1>4. /\ cache = <<>> /\ phase = "dump" /\ todo = Indexes /\ sockq = <<>> /\ missed = FALSE
      /\ heard = [i \in Indexes |-> "link"]
  BY Zenon DEF MonitorInit
<1>5. cache \in Seq(EntryRec) /\ sockq \in Seq(Messages) /\ DOMAIN cache = {} /\ DOMAIN sockq = {}
  BY <1>4
<1>6. MonitorTypeOK
  BY Zenon, <1>3, <1>4, <1>5 DEF MonitorTypeOK, Sources
<1>7. Dones(sockq) = {} /\ \A i \in Indexes : OfLink(cache, i) = {} /\ About(sockq, i) = {}
  BY Zenon, <1>5 DEF Dones, OfLink, About, Range
<1>8. Shaped(cache)
  BY Zenon, <1>7, NoLinkType DEF Shaped, Agrees
<1>9. DumpEnds
  BY Zenon, <1>4, <1>7 DEF DumpEnds
<1>10. \A i \in Indexes : Tracked(i)
  BY Zenon, <1>4, <1>7 DEF Tracked, Told
<1> QED
  BY Zenon, <1>6, <1>8, <1>9, <1>10 DEF MonitorInv

\* A notification is queued or lost.
LEMMA NotifyStep ==
  ASSUME MonitorInv, NEW i \in Indexes, NEW l \in Links, NEW from \in Sources, Notify(Event(i, l, from)),
         kern' \in [Indexes -> Links], l \in Said(from, kern'[i]), \A k \in Indexes : k # i => kern'[k] = kern[k]
  PROVE  MonitorInv'
<1>0. MonitorTypeOK /\ DumpEnds /\ Shaped(cache) /\ (phase # "exit" /\ ~missed => \A k \in Indexes : Tracked(k))
  BY Zenon DEF MonitorInv
<1>1. IF Len(sockq) < MaxQueue
      THEN sockq' = Append(sockq, Event(i, l, from)) /\ UNCHANGED <<overrun, missed>>
      ELSE overrun' = TRUE /\ missed' = TRUE /\ UNCHANGED sockq
  BY Zenon DEF Notify
<1>2. cache' = cache /\ phase' = phase /\ todo' = todo /\ heard' = heard
  BY Zenon DEF Notify
<1>5. Shaped(cache')
  BY Zenon, <1>0, <1>2
<1>6. sockq \in Seq(Messages)
  BY Zenon, <1>0 DEF MonitorTypeOK
<1>7. CASE Len(sockq) < MaxQueue
  <2> DEFINE m == Event(i, l, from)
  <2>1. /\ m \in Messages /\ m # DumpDone /\ m.type = "event" /\ m.index = i /\ m.link = l
        /\ m.from = from
    BY SMTT(20), MessageType
  <2>2. sockq' = Append(sockq, m) /\ missed' = missed
    <3>1. sockq' = Append(sockq, Event(i, l, from)) /\ UNCHANGED <<overrun, missed>>
      BY Zenon, <1>1, <1>7
    <3> QED
      BY Zenon, <3>1
  <2> HIDE DEF m
  <2>3. MonitorTypeOK'
    BY <1>0, <1>2, <2>1, <2>2 DEF MonitorTypeOK
  <2>4. Dones(sockq') = Dones(sockq)
    BY Zenon, <1>6, <2>1, <2>2, AppendDones
  <2>5. DumpEnds'
    BY Zenon, <1>0, <1>2, <2>4 DEF DumpEnds
  <2>6. ASSUME phase # "exit", ~missed, NEW k \in Indexes PROVE Tracked(k)'
    <3>1. Tracked(k)
      BY Zenon, <1>0, <2>6
    <3>2. Told(sockq', k, kern'[k]) /\ (k # i => About(sockq', k) = About(sockq, k))
          /\ (k = i => About(sockq', k) # {})
      BY Zenon, <1>6, <2>1, <2>2, <3>1, AppendTold DEF Tracked
    <3>3. \A j \in About(sockq', k) :
            (j \in About(sockq, k) /\ sockq'[j] = sockq[j]) \/ sockq'[j].type = "event"
      <4> TAKE j \in About(sockq', k)
      <4>1. j \in 1..(Len(sockq) + 1) /\ sockq'[j].index = k
        BY <1>6, <2>1, <2>2 DEF About
      <4>2. CASE j = Len(sockq) + 1
        BY <1>6, <2>1, <2>2, <4>2
      <4>3. CASE j # Len(sockq) + 1
        <5>1. j \in DOMAIN sockq /\ sockq'[j] = sockq[j]
          BY <1>6, <2>1, <2>2, <4>1, <4>3
        <5> QED
          BY Zenon, <4>1, <5>1 DEF About
      <4> QED
        BY Zenon, <4>2, <4>3
    <3> QED
      BY Zenon, <1>2, <3>1, <3>2, <3>3 DEF Tracked
  <2> QED
    BY Zenon, <1>2, <1>5, <2>2, <2>3, <2>5, <2>6 DEF MonitorInv
<1>8. CASE ~(Len(sockq) < MaxQueue)
  <2>1. sockq' = sockq /\ missed' = TRUE
    BY Zenon, <1>1, <1>8
  <2>2. MonitorTypeOK'
    BY Zenon, <1>0, <1>2, <2>1 DEF MonitorTypeOK
  <2>3. DumpEnds'
    BY Zenon, <1>0, <1>2, <2>1 DEF DumpEnds
  <2> QED
    BY Zenon, <1>5, <2>1, <2>2, <2>3 DEF MonitorInv
<1> QED
  BY Zenon, <1>7, <1>8

\* The kernel changes a link.
LEMMA KernelChangeStep ==
  ASSUME MonitorInv, NEW i \in Indexes, KernelChange(i)
  PROVE  MonitorInv'
<1>1. PICK l \in IF kern[i] = NoLink THEN Created
                 ELSE {NoLink} \cup Renamed(i) \cup AltAdded(i) \cup AltDeleted(i) :
        kern' = [kern EXCEPT ![i] = l] /\ Notify(Event(i, l, "link"))
  BY Zenon DEF KernelChange
<1>2. kern \in [Indexes -> Links]
  BY Zenon DEF MonitorInv, MonitorTypeOK
<1>3. l \in Links
  BY Zenon, <1>1, <1>2, ChangedLink
<1>4. kern' \in [Indexes -> Links] /\ kern'[i] = l /\ \A k \in Indexes : k # i => kern'[k] = kern[k]
  BY Zenon, <1>1, <1>2, <1>3
<1>5. l \in Said("link", kern'[i]) /\ "link" \in Sources
  BY Zenon, <1>4, SaidIs DEF Sources
<1> QED
  BY Zenon, <1>1, <1>3, <1>4, <1>5, NotifyStep

\* A bridge or another namespace tells of an index.
LEMMA TellsStep ==
  ASSUME MonitorInv, NEW i \in Indexes, BridgeTells(i) \/ OtherTells(i)
  PROVE  MonitorInv'
<1>0. PICK from \in Sources : \E l \in Said(from, kern[i]) : Notify(Event(i, l, from)) /\ kern' = kern
  BY Zenon DEF BridgeTells, OtherTells, Sources
<1>1. PICK l \in Said(from, kern[i]) : Notify(Event(i, l, from)) /\ kern' = kern
  BY Zenon, <1>0
<1>2. kern \in [Indexes -> Links] /\ kern[i] \in Links
  BY Zenon DEF MonitorInv, MonitorTypeOK
<1>3. l \in Links
  BY Zenon, <1>2, SaidLinks
<1> QED
  BY Zenon, <1>1, <1>2, <1>3, NotifyStep

\* The kernel puts a link, or the end, into the dump.
LEMMA KernelDumpStep ==
  ASSUME MonitorInv, KernelDump
  PROVE  MonitorInv'
<1>0. MonitorTypeOK /\ DumpEnds /\ Shaped(cache) /\ (phase # "exit" /\ ~missed => \A k \in Indexes : Tracked(k))
  BY Zenon DEF MonitorInv
<1>1. /\ phase = "dump" /\ kern' = kern /\ cache' = cache /\ phase' = phase /\ missed' = missed
      /\ heard' = heard
  BY Zenon DEF KernelDump
<1>2. Shaped(cache')
  BY Zenon, <1>0, <1>1
<1>3. sockq \in Seq(Messages) /\ todo \subseteq Indexes
  BY Zenon, <1>0 DEF MonitorTypeOK
<1>4. ASSUME NEW i \in todo, todo' = todo \ {i}, kern[i] = NoLink, sockq' = sockq
      PROVE  MonitorInv'
  <2>1. MonitorTypeOK'
    BY Zenon, <1>0, <1>1, <1>4 DEF MonitorTypeOK
  <2>2. DumpEnds'
    BY Zenon, <1>0, <1>1, <1>4 DEF DumpEnds
  <2>3. ASSUME ~missed, NEW k \in Indexes PROVE Tracked(k)'
    <3>1. Tracked(k)
      BY Zenon, <1>0, <1>1, <2>3
    <3>2. k = i => Agrees(cache, k, kern[k]) /\ kern[k] \in Said(heard[k], kern[k])
      BY Zenon, <1>4, <3>1, SaidIs DEF Tracked, Agrees
    <3> QED
      BY Zenon, <1>1, <1>4, <3>1, <3>2 DEF Tracked, Knows
  <2> QED
    BY Zenon, <1>1, <1>2, <2>1, <2>2, <2>3 DEF MonitorInv
<1>5. ASSUME NEW i \in todo, todo' = todo \ {i}, kern[i] # NoLink, sockq' = Append(sockq, Dumped(i, kern[i]))
      PROVE  MonitorInv'
  <2> DEFINE m == Dumped(i, kern[i])
  <2>1. m \in Messages /\ m # DumpDone /\ m.index = i /\ m.link = kern[i] /\ m.link \in Said(m.from, kern[i])
    BY <1>0, <1>3, MessageType, SaidIs DEF MonitorTypeOK, Sources
  <2>2. sockq' = Append(sockq, m)
    BY Zenon, <1>5
  <2> HIDE DEF m
  <2>3. MonitorTypeOK'
    BY <1>0, <1>1, <1>3, <1>5, <2>1, <2>2 DEF MonitorTypeOK
  <2>4. Dones(sockq') = Dones(sockq)
    BY Zenon, <1>3, <2>1, <2>2, AppendDones
  <2>5. DumpEnds'
    BY Zenon, <1>0, <1>1, <1>5, <2>4 DEF DumpEnds
  <2>6. ASSUME ~missed, NEW k \in Indexes PROVE Tracked(k)'
    <3>1. Tracked(k)
      BY Zenon, <1>0, <1>1, <2>6
    <3>2. Told(sockq', k, kern[k]) /\ (k # i => About(sockq', k) = About(sockq, k))
          /\ (k = i => About(sockq', k) # {})
      BY Zenon, <1>3, <2>1, <2>2, <3>1, AppendTold DEF Tracked
    <3>3. k # i => \A j \in About(sockq, k) : sockq'[j] = sockq[j]
      BY <1>3, <2>1, <2>2 DEF About
    <3> QED
      BY Zenon, <1>1, <1>5, <3>1, <3>2, <3>3 DEF Tracked
  <2> QED
    BY Zenon, <1>1, <1>2, <2>3, <2>5, <2>6 DEF MonitorInv
<1>6. ASSUME todo = {}, Dones(sockq) = {}, sockq' = Append(sockq, DumpDone), todo' = todo
      PROVE  MonitorInv'
  <2>1. DumpDone \in Messages /\ DumpDone.index \notin Indexes
    <3>1. DumpDone \in Messages
      BY Zenon DEF Messages
    <3> QED
      BY Zenon, <3>1, MessageKinds
  <2>2. MonitorTypeOK'
    BY <1>0, <1>1, <1>3, <1>6, <2>1 DEF MonitorTypeOK
  <2>3. Dones(sockq') = {Len(sockq) + 1}
    BY Zenon, <1>3, <1>6, <2>1, AppendDones
  <2>4. DumpEnds'
    BY Zenon, <1>1, <1>6, <2>3 DEF DumpEnds
  <2>5. ASSUME ~missed, NEW k \in Indexes PROVE Tracked(k)'
    <3>1. Tracked(k)
      BY Zenon, <1>0, <1>1, <2>5
    <3>2. Told(sockq', k, kern[k]) /\ About(sockq', k) = About(sockq, k)
      BY Zenon, <1>3, <1>6, <2>1, <3>1, AppendTold DEF Tracked
    <3> QED
      BY Zenon, <1>1, <1>6, <3>1, <3>2 DEF Tracked
  <2> QED
    BY Zenon, <1>1, <1>2, <2>2, <2>4, <2>5 DEF MonitorInv
<1> QED
  BY Zenon, <1>4, <1>5, <1>6 DEF KernelDump, Dones

\* The monitor takes what a message says of a device.
LEMMA RememberShaped ==
  ASSUME NEW c \in Seq(EntryRec), Shaped(c), NEW i \in Indexes, NEW l \in Links
  PROVE  LET r == ll_remember_index(c, i, l) IN
         /\ r \in Seq(EntryRec) /\ Shaped(r) /\ Agrees(r, i, l)
         /\ \A k \in Indexes : k # i => OfLink(r, k) = OfLink(c, k)
<1> DEFINE r == ll_remember_index(c, i, l)
<1>1. PICK l0 \in Links : Agrees(c, i, l0)
  BY Zenon DEF Shaped
<1>2. r \in Seq(EntryRec) /\ Agrees(r, i, l) /\ \A k \in Indexes : k # i => OfLink(r, k) = OfLink(c, k)
  BY Zenon, <1>1, Remembered
<1> HIDE DEF r
<1>3. ASSUME NEW k \in Indexes PROVE \E x \in Links : Agrees(r, k, x)
  <2>1. CASE k = i
    BY Zenon, <1>2, <2>1
  <2>2. CASE k # i
    <3>1. PICK x \in Links : Agrees(c, k, x)
      BY Zenon DEF Shaped
    <3> QED
      BY Zenon, <1>2, <2>2, <3>1, AgreesSame
  <2> QED
    BY Zenon, <2>1, <2>2
<1> QED
  BY Zenon, <1>2, <1>3 DEF Shaped, r

\* Reading the message of a device brings the cache up to date with it.
LEMMA ReadTracked ==
  ASSUME MonitorInv, sockq # <<>>, ~missed, phase # "exit", Head(sockq) # DumpDone,
         Head(sockq).index \notin todo,
         cache' = ll_remember_index(cache, Head(sockq).index, Head(sockq).link),
         heard' = [heard EXCEPT ![Head(sockq).index] = Head(sockq).from],
         sockq' = Tail(sockq), kern' = kern, todo' = todo
  PROVE  \A k \in Indexes : Tracked(k)'
<1> DEFINE m == Head(sockq)
<1>0. MonitorTypeOK /\ Shaped(cache) /\ \A k \in Indexes : Tracked(k)
  BY Zenon DEF MonitorInv
<1>1. sockq \in Seq(Messages) /\ cache \in Seq(EntryRec)
  BY Zenon, <1>0 DEF MonitorTypeOK
<1>2. m \in Messages
  BY <1>1
<1>3. m.index \in Indexes /\ m.link \in Links
  BY Zenon, <1>2, MessageKinds
<1>11. heard'[m.index] = m.from /\ \A k \in Indexes : k # m.index => heard'[k] = heard[k]
  BY Zenon, <1>0, <1>3 DEF MonitorTypeOK
<1>4. cache' = ll_remember_index(cache, m.index, m.link)
  BY Zenon
<1> HIDE DEF m
<1> DEFINE r == ll_remember_index(cache, m.index, m.link)
<1>10. Agrees(r, m.index, m.link) /\ \A k \in Indexes : k # m.index => OfLink(r, k) = OfLink(cache, k)
  BY Zenon, <1>0, <1>1, <1>3, RememberShaped
<1> HIDE DEF r
<1>5. Agrees(cache', m.index, m.link) /\ \A k \in Indexes : k # m.index => OfLink(cache', k) = OfLink(cache, k)
  BY Zenon, <1>4, <1>10 DEF r
<1> SUFFICES ASSUME NEW k \in Indexes PROVE Tracked(k)'
  BY Zenon
<1>6. /\ Told(sockq, k, kern[k])
      /\ k \in todo => /\ OfLink(cache, k) = {} /\ heard[k] = "link"
                       /\ \A j \in About(sockq, k) : sockq[j].type = "event"
      /\ k \notin todo /\ About(sockq, k) = {} => Knows(cache, k, heard[k], kern[k])
  BY Zenon, <1>0 DEF Tracked
<1>7. /\ Told(sockq', k, kern[k])
      /\ About(sockq', k) = {} /\ k = m.index => m.link \in Said(m.from, kern[k])
      /\ About(sockq', k) = {} /\ k # m.index => About(sockq, k) = {}
  BY Zenon, <1>1, <1>6, TailTold DEF m
<1>8. ASSUME k \in todo
      PROVE  OfLink(cache', k) = {} /\ heard'[k] = "link" /\ \A j \in About(sockq', k) : sockq'[j].type = "event"
  <2>1. k # m.index
    BY Zenon, <1>8 DEF m
  <2>2. \A j \in About(sockq', k) : j + 1 \in About(sockq, k) /\ sockq'[j] = sockq[j + 1]
    BY <1>1 DEF About
  <2>3. OfLink(cache', k) = {} /\ heard'[k] = "link"
    BY Zenon, <1>5, <1>6, <1>8, <1>11, <2>1
  <2> QED
    BY Zenon, <1>6, <1>8, <2>2, <2>3
<1>9. ASSUME k \notin todo, About(sockq', k) = {} PROVE Knows(cache', k, heard'[k], kern[k])
  <2>1. CASE k = m.index
    BY Zenon, <1>5, <1>7, <1>9, <1>11, <2>1 DEF Knows
  <2>2. CASE k # m.index
    <3>1. Knows(cache, k, heard[k], kern[k])
      BY Zenon, <1>6, <1>7, <1>9, <2>2
    <3>2. PICK x \in Said(heard[k], kern[k]) : Agrees(cache, k, x)
      BY Zenon, <3>1 DEF Knows
    <3>3. Agrees(cache', k, x)
      BY Zenon, <1>5, <2>2, <3>2, AgreesSame
    <3> QED
      BY Zenon, <1>11, <2>2, <3>3 DEF Knows
  <2> QED
    BY Zenon, <2>1, <2>2
<1> QED
  BY Zenon, <1>7, <1>8, <1>9 DEF Tracked

\* ll_init_map reads a message: it takes those of the dump only.
LEMMA InitReadStep ==
  ASSUME MonitorInv, MonitorInitRead
  PROVE  MonitorInv'
<1> DEFINE m == Head(sockq)
<1>0. MonitorTypeOK /\ DumpEnds /\ Shaped(cache) /\ (phase # "exit" /\ ~missed => \A k \in Indexes : Tracked(k))
  BY Zenon DEF MonitorInv
<1>1. /\ phase = "dump" /\ sockq # <<>> /\ sockq' = Tail(sockq) /\ kern' = kern /\ todo' = todo
      /\ cache' = IF m.type = "dump" THEN ll_remember_index(cache, m.index, m.link) ELSE cache
      /\ heard' = IF m.type = "dump" THEN [heard EXCEPT ![m.index] = m.from] ELSE heard
      /\ missed' = (missed \/ m.type = "event")
      /\ phase' = IF m = DumpDone THEN "listen" ELSE phase
  BY Zenon DEF MonitorInitRead, Remember
<1>2. sockq \in Seq(Messages) /\ cache \in Seq(EntryRec)
  BY Zenon, <1>0 DEF MonitorTypeOK
<1>3. m \in Messages /\ sockq' \in Seq(Messages)
  BY <1>1, <1>2
<1>4. /\ m # DumpDone => /\ m.type \in {"event", "dump"} /\ m.index \in Indexes /\ m.link \in Links
                         /\ m.from \in Sources
      /\ m = DumpDone => m.type = "done" /\ m.index \notin Indexes
  BY Zenon, <1>3, MessageKinds
<1>5. cache' \in Seq(EntryRec) /\ Shaped(cache')
  <2>1. CASE m.type = "dump"
    BY Zenon, <1>0, <1>1, <1>2, <1>4, <2>1, RememberShaped
  <2>2. CASE m.type # "dump"
    BY Zenon, <1>0, <1>1, <1>2, <2>2
  <2> QED
    BY Zenon, <2>1, <2>2
<1>10. heard' \in [Indexes -> Sources]
  <2>1. CASE m.type = "dump"
    BY Zenon, <1>0, <1>1, <1>4, <2>1 DEF MonitorTypeOK
  <2>2. CASE m.type # "dump"
    BY Zenon, <1>0, <1>1, <2>2 DEF MonitorTypeOK
  <2> QED
    BY Zenon, <2>1, <2>2
<1>6. MonitorTypeOK'
  BY Zenon, <1>0, <1>1, <1>3, <1>5, <1>10 DEF MonitorTypeOK
<1>7. /\ Dones(sockq') # {} => Dones(sockq) # {}
      /\ \A j, k \in Dones(sockq') : j = k
      /\ m = DumpDone => Dones(sockq) # {} /\ Dones(sockq') = {}
  BY Zenon, <1>0, <1>1, <1>2, TailDones DEF DumpEnds
<1>8. DumpEnds'
  BY Zenon, <1>0, <1>1, <1>7 DEF DumpEnds
<1>9. ASSUME ~missed' PROVE \A k \in Indexes : Tracked(k)'
  <2>1. ~missed /\ m.type # "event" /\ \A k \in Indexes : Tracked(k)
    BY Zenon, <1>0, <1>1, <1>9
  <2>2. CASE m # DumpDone
    <3>1. m.type = "dump" /\ m.index \in Indexes
      BY Zenon, <1>4, <2>1, <2>2
    <3>2. m.index \notin todo
      <4>1. 1 \in About(sockq, m.index) /\ sockq[1] = m
        BY <1>1, <1>2 DEF About
      <4> QED
        BY Zenon, <2>1, <3>1, <4>1 DEF Tracked
    <3>3. cache' = ll_remember_index(cache, m.index, m.link) /\ heard' = [heard EXCEPT ![m.index] = m.from]
      BY Zenon, <1>1, <3>1
    <3> QED
      BY Zenon, <1>1, <2>1, <2>2, <3>2, <3>3, ReadTracked
  <2>3. CASE m = DumpDone
    <3>1. cache' = cache /\ heard' = heard /\ m.index \notin Indexes
      BY Zenon, <1>1, <1>4, <2>3
    <3>2. todo = {}
      BY Zenon, <1>0, <1>7, <2>3 DEF DumpEnds
    <3> SUFFICES ASSUME NEW k \in Indexes PROVE Tracked(k)'
      BY Zenon
    <3>3. Told(sockq, k, kern[k]) /\ (About(sockq, k) = {} => Knows(cache, k, heard[k], kern[k]))
      BY Zenon, <2>1, <3>2 DEF Tracked
    <3>4. Told(sockq', k, kern[k]) /\ (About(sockq', k) = {} => About(sockq, k) = {})
      BY Zenon, <1>1, <1>2, <3>1, <3>3, TailTold
    <3> QED
      BY Zenon, <1>1, <3>1, <3>2, <3>3, <3>4 DEF Tracked, Knows
  <2> QED
    BY Zenon, <2>2, <2>3
<1> QED
  BY Zenon, <1>5, <1>6, <1>8, <1>9 DEF MonitorInv

\* rtnl_listen reads a notification.
LEMMA ListenStep ==
  ASSUME MonitorInv, MonitorListen
  PROVE  MonitorInv'
<1> DEFINE m == Head(sockq)
<1>0. MonitorTypeOK /\ DumpEnds /\ Shaped(cache)
  BY Zenon DEF MonitorInv
<1>1. /\ phase = "listen" /\ sockq # <<>> /\ sockq' = Tail(sockq) /\ kern' = kern /\ todo' = todo
      /\ cache' = ll_remember_index(cache, m.index, m.link) /\ missed' = missed /\ phase' = phase
      /\ heard' = [heard EXCEPT ![m.index] = m.from]
  BY Zenon DEF MonitorListen, Remember
<1>2. sockq \in Seq(Messages) /\ cache \in Seq(EntryRec)
  BY Zenon, <1>0 DEF MonitorTypeOK
<1>3. m \in Messages /\ sockq' \in Seq(Messages)
  BY <1>1, <1>2
<1>4. /\ Dones(sockq') # {} => Dones(sockq) # {}
      /\ \A j, k \in Dones(sockq') : j = k
      /\ m = DumpDone => Dones(sockq) # {}
  BY Zenon, <1>0, <1>1, <1>2, TailDones DEF DumpEnds
<1>5. m # DumpDone /\ todo = {}
  BY Zenon, <1>0, <1>1, <1>4 DEF DumpEnds
<1>6. m.index \in Indexes /\ m.link \in Links /\ m.from \in Sources
  BY Zenon, <1>3, <1>5, MessageKinds
<1>12. heard' \in [Indexes -> Sources]
  BY Zenon, <1>0, <1>1, <1>6 DEF MonitorTypeOK
<1>7. cache' \in Seq(EntryRec) /\ Shaped(cache')
  BY Zenon, <1>0, <1>1, <1>2, <1>6, RememberShaped
<1>8. MonitorTypeOK'
  BY Zenon, <1>0, <1>1, <1>3, <1>7, <1>12 DEF MonitorTypeOK
<1>9. DumpEnds'
  BY Zenon, <1>0, <1>1, <1>4 DEF DumpEnds
<1>10. m.index \notin todo /\ phase # "exit"
  BY Zenon, <1>1, <1>5
<1>11. ASSUME ~missed PROVE \A k \in Indexes : Tracked(k)'
  BY Zenon, <1>1, <1>5, <1>10, <1>11, ReadTracked
<1> QED
  BY Zenon, <1>1, <1>7, <1>8, <1>9, <1>11 DEF MonitorInv

\* A notification of something else is printed with the name of its device.
LEMMA PrintStep ==
  ASSUME MonitorInv, NEW i \in Indexes, MonitorPrint(i)
  PROVE  MonitorInv'
<1>0. MonitorTypeOK /\ DumpEnds /\ Shaped(cache) /\ (phase # "exit" /\ ~missed => \A k \in Indexes : Tracked(k))
  BY Zenon DEF MonitorInv
<1>1. /\ phase = "listen" /\ cache' = CacheAfterIndex(i)
      /\ kern' = kern /\ phase' = phase /\ todo' = todo /\ sockq' = sockq /\ missed' = missed
  BY Zenon DEF MonitorPrint
<1>2. DumpEnds' /\ todo = {}
  BY Zenon, <1>0, <1>1 DEF DumpEnds
<1>3. CASE Cached(cache, i) \/ kern[i] = NoLink
  <2>1. cache' = cache /\ heard' = heard
    BY Zenon, <1>1, <1>3 DEF CacheAfterIndex, LinkGet, MonitorPrint
  <2>2. MonitorTypeOK' /\ Shaped(cache')
    BY Zenon, <1>0, <1>1, <2>1 DEF MonitorTypeOK
  <2>3. \A k \in Indexes : Tracked(k) => Tracked(k)'
    BY Zenon, <1>1, <2>1 DEF Tracked, Knows
  <2> QED
    BY Zenon, <1>0, <1>1, <1>2, <2>2, <2>3 DEF MonitorInv
<1>4. CASE ~(Cached(cache, i) \/ kern[i] = NoLink)
  <2>0. i # 0
    BY Zenon, LlMapAssumption
  <2>1. cache' = ll_remember_index(cache, i, kern[i]) /\ heard' = [heard EXCEPT ![i] = "link"]
    BY Zenon, <1>1, <1>4, <2>0 DEF CacheAfterIndex, LinkGet, MonitorPrint
  <2>2. kern[i] \in Links /\ cache \in Seq(EntryRec) /\ heard \in [Indexes -> Sources]
    BY Zenon, <1>0 DEF MonitorTypeOK
  <2>3. /\ cache' \in Seq(EntryRec) /\ Shaped(cache') /\ Agrees(cache', i, kern[i])
        /\ \A k \in Indexes : k # i => OfLink(cache', k) = OfLink(cache, k)
    BY Zenon, <1>0, <2>1, <2>2, RememberShaped
  <2>4. /\ heard' \in [Indexes -> Sources] /\ heard'[i] = "link"
        /\ \A k \in Indexes : k # i => heard'[k] = heard[k]
    BY Zenon, <2>1, <2>2 DEF Sources
  <2>5. MonitorTypeOK'
    BY Zenon, <1>0, <1>1, <2>3, <2>4 DEF MonitorTypeOK
  <2>6. ASSUME NEW k \in Indexes, Tracked(k) PROVE Tracked(k)'
    <3>1. Knows(cache, k, heard[k], kern[k]) => Knows(cache', k, heard'[k], kern[k])
      <4>1. CASE k = i
        BY Zenon, <2>3, <2>4, <4>1, SaidIs DEF Knows
      <4>2. CASE k # i
        BY Zenon, <2>3, <2>4, <4>2, AgreesSame DEF Knows
      <4> QED
        BY Zenon, <4>1, <4>2
    <3> QED
      BY Zenon, <1>1, <1>2, <2>6, <3>1 DEF Tracked
  <2> QED
    BY Zenon, <1>0, <1>1, <1>2, <2>3, <2>5, <2>6 DEF MonitorInv
<1> QED
  BY Zenon, <1>3, <1>4

\* Every step keeps MonitorInv: changes of devices, what others tell, the parts of the dump, lost notifications
\* and what the monitor reads (ll_remember_index).
LEMMA MonitorStep == MonitorInv /\ [MonitorNext]_monitorVars => MonitorInv'
<1> SUFFICES ASSUME MonitorInv, [MonitorNext]_monitorVars PROVE MonitorInv'
  BY Zenon
<1>1. ASSUME NEW i \in Indexes, KernelChange(i) PROVE MonitorInv'
  BY Zenon, <1>1, KernelChangeStep
<1>2. ASSUME NEW i \in Indexes, MonitorPrint(i) PROVE MonitorInv'
  BY Zenon, <1>2, PrintStep
<1>3. ASSUME kern' = kern, cache' = cache, todo' = todo, sockq' = sockq, missed' = missed,
             heard' = heard, phase' \in {phase, "exit"}
      PROVE  MonitorInv'
  <2>1. MonitorTypeOK' /\ DumpEnds'
    BY Zenon, <1>3 DEF MonitorInv, MonitorTypeOK, DumpEnds
  <2>2. Shaped(cache') /\ (phase # "exit" /\ ~missed => \A k \in Indexes : Tracked(k)')
    BY Zenon, <1>3 DEF MonitorInv, Tracked, Knows
  <2> QED
    BY Zenon, <1>3, <2>1, <2>2 DEF MonitorInv
<1>7. ASSUME NEW i \in Indexes, BridgeTells(i) \/ OtherTells(i) PROVE MonitorInv'
  BY Zenon, <1>7, TellsStep
<1>4. CASE MonitorInitFails
  BY Zenon, <1>3, <1>4 DEF MonitorInitFails
<1>5. CASE MonitorOverrun
  BY Zenon, <1>3, <1>5 DEF MonitorOverrun
<1>6. CASE UNCHANGED monitorVars
  BY Zenon, <1>3, <1>6 DEF monitorVars
<1> QED
  BY Zenon, <1>1, <1>2, <1>4, <1>5, <1>6, <1>7, KernelDumpStep, InitReadStep, ListenStep DEF MonitorNext

\* Once everything has been read and nothing missed, the cache agrees with what was said last.
LEMMA SettledAgrees ==
  ASSUME MonitorInv, Settled, NEW i \in Indexes
  PROVE  Knows(cache, i, heard[i], kern[i])
<1>1. phase = "listen" /\ sockq = <<>> /\ ~missed
  BY Zenon DEF Settled
<1>2. todo = {} /\ Tracked(i)
  BY Zenon, <1>1 DEF MonitorInv, DumpEnds
<1>3. About(sockq, i) = {}
  BY <1>1 DEF About
<1> QED
  BY Zenon, <1>2, <1>3 DEF Tracked

\* With nothing on its way every device is Tracked with no message, so its entries are right.
LEMMA SettledNames ==
  ASSUME MonitorInv
  PROVE  MonitorNamesRight
<1> SUFFICES ASSUME Settled, NEW n \in Names, ll_get_by_name(cache, n) # 0
             PROVE  LET e == cache[ll_get_by_name(cache, n)] IN
                    n \in NamesOf(kern[e.index]) \/ OldNameCollides(e, n) \/ heard[e.index] = "other"
  BY Zenon DEF MonitorNamesRight
<1> DEFINE e == cache[ll_get_by_name(cache, n)]
           i == e.index
           l == kern[i]
<1>1. cache \in Seq(EntryRec) /\ kern \in [Indexes -> Links] /\ heard \in [Indexes -> Sources]
  BY Zenon DEF MonitorInv, MonitorTypeOK
<1>2. ll_get_by_name(cache, n) \in DOMAIN cache /\ e \in Range(cache) /\ e.bucket = Hash[n] /\ e.name = n
  BY Zenon, <1>1, FoundByName
<1>3. e \in EntryRec
  BY <1>1, <1>2
<1> HIDE DEF e
<1>4. i \in Indexes /\ l \in Links
  BY Zenon, <1>1, <1>3 DEF EntryRec
<1> SUFFICES ASSUME heard[i] # "other" PROVE n \in NamesOf(l) \/ OldNameCollides(e, n)
  BY Zenon DEF e
<1>5. PICK x \in Said(heard[i], l) : Agrees(cache, i, x)
  BY Zenon, <1>4, SettledAgrees DEF Knows
<1>6. e \in OfLink(cache, i)
  BY Zenon, <1>2 DEF OfLink
<1>7. x # NoLink
  BY Zenon, <1>5, <1>6 DEF Agrees
<1>11. heard[i] \in Sources
  BY Zenon, <1>1, <1>4
<1>12. x \in Links /\ l # NoLink /\ x.name = l.name /\ Alts(x) \subseteq Alts(l)
  <2> HIDE DEF l, i
  <2> QED
    BY Zenon, <1>4, <1>7, <1>11, SaidLinks
<1>8. PICK p, m \in Names : /\ p = x.name \/ Hash[m] = Hash[x.name]
                            /\ OfLink(cache, i) = {Place(p, i, Hash[m])} \cup Own(i, x)
  BY Zenon, <1>5, <1>7 DEF Agrees, Own
<1>9. CASE e = Place(p, i, Hash[m])
  <2>1. n = p /\ Hash[n] = Hash[m] /\ e.kind = "parent"
    BY <1>2, <1>9, PlaceFields
  <2> QED
    BY Zenon, <1>8, <1>12, <2>1 DEF NamesOf, OldNameCollides
<1>10. CASE e \in Own(i, x)
  <2>1. n \in Alts(x)
    BY Zenon, <1>2, <1>4, <1>7, <1>10, <1>12, OwnFields
  <2> QED
    BY Zenon, <1>12, <2>1 DEF NamesOf
<1> QED
  BY Zenon, <1>6, <1>8, <1>9, <1>10

\* By the same argument the cache holds every device and all of its names.
LEMMA SettledComplete ==
  ASSUME MonitorInv
  PROVE  MonitorCacheComplete
<1> SUFFICES ASSUME Settled, NEW i \in Indexes, heard[i] = "link"
             PROVE  /\ Cached(cache, i) <=> kern[i] # NoLink
                    /\ {cache[j].name : j \in {k \in DOMAIN cache :
                                               cache[k].index = i /\ cache[k].kind = "alt"}}
                         = Alts(kern[i])
  BY Zenon DEF MonitorCacheComplete
<1> DEFINE l == kern[i]
           J == {k \in DOMAIN cache : cache[k].index = i /\ cache[k].kind = "alt"}
<1>1. cache \in Seq(EntryRec) /\ l \in Links
  BY Zenon DEF MonitorInv, MonitorTypeOK
<1>2. Agrees(cache, i, l)
  BY Zenon, SettledAgrees, SaidIs DEF Knows
<1>3. Cached(cache, i) <=> l # NoLink
  <2>1. /\ l = NoLink => Parents(cache, i) = {}
        /\ l # NoLink => \E n, m \in Names : Parents(cache, i) = {Place(n, i, Hash[m])}
    BY <1>1, <1>2, AgreesKinds
  <2> QED
    BY Zenon, <1>1, <2>1, CachedParents
<1>4. {cache[j].name : j \in J} = {e.name : e \in {x \in OfLink(cache, i) : x.kind = "alt"}}
  <2>1. ASSUME NEW j \in J PROVE cache[j] \in OfLink(cache, i) /\ cache[j].kind = "alt"
    BY Zenon, <2>1 DEF OfLink, Range
  <2>2. ASSUME NEW x \in OfLink(cache, i), x.kind = "alt" PROVE \E j \in J : x = cache[j]
    BY Zenon, <2>2 DEF OfLink, Range
  <2> HIDE DEF J
  <2> DEFINE X == {x \in OfLink(cache, i) : x.kind = "alt"}
  <2>3. \A j \in J : cache[j] \in X
    BY Zenon, <2>1
  <2>4. \A x \in X : \E j \in J : x = cache[j]
    BY Zenon, <2>2
  <2> HIDE DEF X
  <2>5. {cache[j].name : j \in J} = {e.name : e \in X}
    BY SMTT(20), <2>3, <2>4
  <2> QED
    BY Zenon, <2>5 DEF X
<1> HIDE DEF J
<1>5. CASE l = NoLink
  <2>1. OfLink(cache, i) = {}
    BY Zenon, <1>2, <1>5 DEF Agrees
  <2>2. {cache[j].name : j \in J} = {}
    BY Zenon, <1>4, <2>1
  <2> QED
    BY Zenon, <1>3, <1>5, <2>2, NoLinkType DEF J
<1>6. CASE l # NoLink
  <2>1. PICK p, m \in Names : OfLink(cache, i) = {Place(p, i, Hash[m])} \cup Own(i, l)
    BY Zenon, <1>2, <1>6 DEF Agrees, Own
  <2>2. {x \in OfLink(cache, i) : x.kind = "alt"} = Own(i, l)
    BY <1>1, <1>6, <2>1, OwnFields, PlaceFields
  <2>3. {e.name : e \in Own(i, l)} = Alts(l)
    <3>1. \A e \in Own(i, l) : e.name \in Alts(l)
      BY Zenon, <1>1, <1>6, OwnFields
    <3>2. ASSUME NEW a \in Alts(l) PROVE \E e \in Own(i, l) : a = e.name
      <4>1. Entry(a, i, "alt") \in Own(i, l)
        BY Zenon DEF Own
      <4>2. Entry(a, i, "alt").name = a
        BY Zenon DEF Entry
      <4> QED
        BY Zenon, <4>1, <4>2
    <3> QED
      BY Zenon, <3>1, <3>2
  <2>4. {cache[j].name : j \in J} = Alts(l)
    BY Zenon, <1>4, <2>2, <2>3
  <2> QED
    BY Zenon, <1>3, <2>4 DEF J
<1> QED
  BY Zenon, <1>5, <1>6

\* Once "ip monitor" has read all notifications and missed none, every name in its link cache leads
\* to the device that has it, up to the old name of a renamed device in the bucket of its new one and
\* the indexes another namespace spoke of last: for every set of devices, every hash and every
\* interleaving of changes, dump and notifications.
THEOREM MonitorNames == MonitorSpec => []MonitorNamesRight
<1>1. MonitorInv => MonitorNamesRight
  BY Zenon, SettledNames
<1> QED
  BY <1>1, MonitorInitial, MonitorStep, PTL DEF MonitorSpec

\* And of the indexes the links themselves spoke of last, the cache holds exactly the devices there
\* are, with exactly their alternative names, whatever bridges and other namespaces told before.
THEOREM MonitorComplete == MonitorSpec => []MonitorCacheComplete
<1>1. MonitorInv => MonitorCacheComplete
  BY Zenon, SettledComplete
<1> QED
  BY <1>1, MonitorInitial, MonitorStep, PTL DEF MonitorSpec

----------------------------------------------------------------------------
(* "ip -batch".                                                            *)

\* An entry of the cache carries the name of its device, or an alternative name; only the devices
\* that have lost a name behind the cache's back may have others.
Proper(e, l) == l # NoLink /\ IF e.kind = "parent" THEN e.name = l.name ELSE e.name \in Alts(l)
Current(c, k, b) == \A e \in Range(c) : e.index \in b \/ Proper(e, k[e.index])
BatchInv ==
  /\ kern \in [Indexes -> Links]
  /\ cache \in Seq(EntryRec)
  /\ Current(cache, kern, behind)

\* A batch starts with an empty cache.
LEMMA BatchInitial == LinkBatchInit => BatchInv
<1> SUFFICES ASSUME LinkBatchInit PROVE BatchInv
  BY Zenon
<1>1. kern \in [Indexes -> Links]
  BY Zenon, FirstLinksType DEF LinkBatchInit
<1>2. cache = <<>>
  BY Zenon DEF LinkBatchInit
<1>3. cache \in Seq(EntryRec) /\ DOMAIN cache = {}
  BY <1>2
<1>4. Range(cache) = {}
  BY Zenon, <1>3 DEF Range
<1> QED
  BY Zenon, <1>1, <1>3, <1>4 DEF BatchInv, Current

\* The entries of a cache.
LEMMA EntryOf ==
  ASSUME NEW c \in Seq(EntryRec), NEW e \in Range(c)
  PROVE  e \in EntryRec /\ e.index \in Indexes
<1>1. e \in EntryRec
  BY DEF Range
<1> QED
  BY Zenon, <1>1 DEF EntryRec

\* ll_entry_update changes at most the chain of the entry of the name.
LEMMA EntryMoved ==
  ASSUME NEW c \in Seq(EntryRec), NEW i \in Indexes, NEW l \in Links, l # NoLink, Cached(c, i)
  PROVE  /\ ll_entry_update(c, i, l) \in Seq(EntryRec)
         /\ \A e \in Range(ll_entry_update(c, i, l)) : \E f \in Range(c) :
              e.index = f.index /\ e.kind = f.kind /\ e.name = f.name
<1> DEFINE im == ll_get_by_index(c, i)
           p == [im EXCEPT !.bucket = Hash[l.name]]
           w == Without(c, Parents(c, i))
<1>1. im \in Range(c)
  BY Zenon, FoundByIndex DEF Parents
<1>2. im \in EntryRec /\ l.name \in Names
  BY Zenon, <1>1, EntryOf, AltsOf
<1>3. ll_entry_update(c, i, l) = IF im.name = l.name THEN c ELSE <<p>> \o w
  BY Zenon DEF ll_entry_update
<1> HIDE DEF im
<1>4. p \in EntryRec /\ p.index = im.index /\ p.kind = im.kind /\ p.name = im.name
  BY <1>2 DEF EntryRec
<1>5. w \in Seq(EntryRec) /\ Range(w) = Range(c) \ Parents(c, i)
  BY Zenon, ParentsTaken
<1> HIDE DEF p, w
<1>6. <<p>> \o w \in Seq(EntryRec) /\ Range(<<p>> \o w) = {p} \cup Range(w)
  BY Zenon, <1>4, <1>5, ConsRange
<1>7. \A e \in Range(<<p>> \o w) : \E f \in Range(c) : e.index = f.index /\ e.kind = f.kind /\ e.name = f.name
  BY Zenon, <1>1, <1>4, <1>5, <1>6
<1> QED
  BY Zenon, <1>3, <1>6, <1>7

\* A message about a device, which tells its name and of its other names only those it has.
LEMMA RememberCurrent ==
  ASSUME NEW c \in Seq(EntryRec), NEW k, NEW b, Current(c, k, b), NEW i \in Indexes, NEW l \in Links, l # NoLink,
         k[i] # NoLink, l.name = k[i].name, Alts(l) \subseteq Alts(k[i])
  PROVE  ll_remember_index(c, i, l) \in Seq(EntryRec) /\ Current(ll_remember_index(c, i, l), k, b)
<1> DEFINE r == ll_remember_index(c, i, l)
           n == Entry(l.name, i, "parent")
<1>1. n.index = i /\ n.kind = "parent" /\ n.name = l.name
  BY Zenon DEF Entry
<1>2. Proper(n, k[i]) /\ \A e \in Own(i, l) : e.index = i /\ Proper(e, k[i])
  <2>1. \A e \in Own(i, l) : e.index = i /\ e.kind # "parent" /\ e.name \in Alts(l)
    BY OwnFields
  <2> QED
    BY Zenon, <1>1, <2>1 DEF Proper
<1> HIDE DEF n
<1>3. CASE Cached(c, i)
  <2> DEFINE u == ll_entry_update(c, i, l)
             d == ll_altname_entries_destroy(u, i)
  <2>1. r = ll_altname_entries_create(d, i, l)
    <3>1. l.name # NoName
      BY Zenon, AltsOf, LlMapAssumption
    <3> QED
      BY Zenon, <1>3, <3>1 DEF ll_remember_index, ll_entries_update, ll_altname_entries_update
  <2>2. /\ u \in Seq(EntryRec)
        /\ \A e \in Range(u) : \E f \in Range(c) : e.index = f.index /\ e.kind = f.kind /\ e.name = f.name
    BY Zenon, <1>3, EntryMoved
  <2> HIDE DEF r, u
  <2>3. d \in Seq(EntryRec) /\ Range(d) \subseteq Range(u)
    BY Zenon, <2>2, AltnamesDestroyed
  <2> HIDE DEF d
  <2>4. r \in Seq(EntryRec) /\ Range(r) = Own(i, l) \cup Range(d)
    BY Zenon, <2>1, <2>3, AltnamesCreated
  <2>5. ASSUME NEW e \in Range(u) PROVE e.index \in b \/ Proper(e, k[e.index])
    BY Zenon, <2>2 DEF Current, Proper
  <2>6. Current(r, k, b)
    BY Zenon, <1>2, <2>3, <2>4, <2>5 DEF Current
  <2> QED
    BY Zenon, <2>4, <2>6 DEF r
<1>4. CASE ~Cached(c, i)
  <2>1. r = ll_entries_create(c, i, l)
    BY Zenon, <1>4 DEF ll_remember_index
  <2> HIDE DEF r
  <2>2. r \in Seq(EntryRec) /\ Range(r) = Own(i, l) \cup {n} \cup Range(c)
    BY Zenon, <2>1, EntriesCreated DEF n
  <2>3. Current(r, k, b)
    BY Zenon, <1>1, <1>2, <2>2 DEF Current
  <2> QED
    BY Zenon, <2>2, <2>3 DEF r
<1> QED
  BY Zenon, <1>3, <1>4

\* A lookup that goes to the kernel leaves only entries of present names.
LEMMA LookupCurrent ==
  ASSUME BatchInv, NEW i \in Indexes \cup {0}
  PROVE  LinkGet(i) \in Seq(EntryRec) /\ Current(LinkGet(i), kern, behind)
<1>1. CASE i = 0 \/ kern[i] = NoLink
  BY Zenon, <1>1 DEF LinkGet, BatchInv
<1>2. CASE ~(i = 0 \/ kern[i] = NoLink)
  <2>1. i \in Indexes /\ kern[i] \in Links /\ LinkGet(i) = ll_remember_index(cache, i, kern[i])
    BY Zenon, <1>2 DEF LinkGet, BatchInv
  <2> QED
    BY Zenon, <1>2, <2>1, RememberCurrent DEF BatchInv
<1> QED
  BY Zenon, <1>1, <1>2

\* ll_drop_by_index leaves of the device only the entries of its alternative names.
LEMMA Dropped ==
  ASSUME NEW c \in Seq(EntryRec), NEW i \in Indexes
  PROVE  LET d == ll_drop_by_index(c, i) IN
         /\ d \in Seq(EntryRec)
         /\ \A e \in Range(d) : \E f \in Range(c) :
              /\ e.index = f.index /\ e.name = f.name
              /\ IF f.index = i THEN e.kind # "parent" /\ f.kind # "parent" ELSE e.kind = f.kind
<1> DEFINE rest == Without(c, Parents(c, i))
           d == ll_drop_by_index(c, i)
<1>1. CASE ~Cached(c, i)
  <2>1. Parents(c, i) = {}
    BY Zenon, <1>1, CachedParents
  <2>2. \A f \in Range(c) : f.index = i => f.kind # "parent"
    BY Zenon, <2>1 DEF Parents, IsParent
  <2>3. d = c
    BY Zenon, <1>1 DEF ll_drop_by_index
  <2> HIDE DEF d
  <2> QED
    BY Zenon, <2>2, <2>3 DEF d
<1>2. CASE Cached(c, i)
  <2>1. rest \in Seq(EntryRec) /\ Range(rest) = Range(c) \ Parents(c, i)
    BY Zenon, ParentsTaken
  <2>2. d = [j \in DOMAIN rest |-> IF rest[j].index = i THEN [rest[j] EXCEPT !.kind = "orphan"] ELSE rest[j]]
    BY Zenon, <1>2 DEF ll_drop_by_index
  <2> HIDE DEF rest, d
  <2>3. DOMAIN rest = 1..Len(rest) /\ Len(rest) \in Nat /\ \A j \in DOMAIN rest : rest[j] \in EntryRec
    BY <2>1
  <2>4. ASSUME NEW x \in EntryRec
        PROVE  LET o == [x EXCEPT !.kind = "orphan"] IN
               o \in EntryRec /\ o.kind = "orphan" /\ o.index = x.index /\ o.name = x.name
    BY DEF EntryRec, Kinds
  <2>5. \A j \in DOMAIN rest : d[j] \in EntryRec
    BY Zenon, <2>2, <2>3, <2>4
  <2>6. DOMAIN d = 1..Len(rest)
    BY Zenon, <2>2, <2>3
  <2>7. d \in Seq(EntryRec)
    <3>1. d \in [1..Len(rest) -> EntryRec]
      BY Zenon, <2>2, <2>3, <2>5
    <3> QED
      BY <2>3, <3>1
  <2>8. ASSUME NEW e \in Range(d)
        PROVE  \E f \in Range(c) :
                 /\ e.index = f.index /\ e.name = f.name
                 /\ IF f.index = i THEN e.kind # "parent" /\ f.kind # "parent" ELSE e.kind = f.kind
    <3>1. PICK j \in DOMAIN rest : e = d[j]
      BY Zenon, <2>2 DEF Range
    <3> DEFINE f == rest[j]
    <3>2. f \in Range(c) /\ f \notin Parents(c, i) /\ f \in EntryRec
      BY Zenon, <2>1, <2>3 DEF Range
    <3>3. e = IF f.index = i THEN [f EXCEPT !.kind = "orphan"] ELSE f
      BY Zenon, <2>2, <3>1
    <3> HIDE DEF f
    <3>4. f.index = i => f.kind # "parent"
      BY Zenon, <3>2 DEF Parents, IsParent
    <3>5. CASE f.index = i
      <4>1. e.kind = "orphan" /\ e.index = f.index /\ e.name = f.name
        BY Zenon, <2>4, <3>2, <3>3, <3>5
      <4>2. e.kind # "parent"
        BY <4>1
      <4> QED
        BY Zenon, <3>2, <3>4, <3>5, <4>1, <4>2
    <3>6. CASE f.index # i
      BY Zenon, <3>2, <3>3, <3>6
    <3> QED
      BY Zenon, <3>5, <3>6
  <2> QED
    BY Zenon, <2>7, <2>8 DEF d
<1> QED
  BY Zenon, <1>1, <1>2

\* The index a name is looked up to is a device's, or 0.
LEMMA NameIndex ==
  ASSUME cache \in Seq(EntryRec), NEW n \in Names
  PROVE  KernelIndex(n) \in Indexes \cup {0} /\ ll_name_to_index(n) \in Indexes \cup {0}
<1>1. KernelIndex(n) \in Indexes \cup {0}
  <2>1. CASE n \in Used
    <3>1. \E i \in Indexes : n \in NamesOf(kern[i])
      BY Zenon, <2>1 DEF Used
    <3> QED
      BY Zenon, <2>1, <3>1 DEF KernelIndex
  <2>2. CASE n \notin Used
    BY Zenon, <2>2 DEF KernelIndex
  <2> QED
    BY Zenon, <2>1, <2>2
<1>2. ASSUME ll_get_by_name(cache, n) # 0 PROVE cache[ll_get_by_name(cache, n)].index \in Indexes
  <2>1. cache[ll_get_by_name(cache, n)] \in Range(cache)
    BY Zenon, <1>2, FoundByName
  <2> QED
    BY Zenon, <2>1, EntryOf
<1> QED
  BY Zenon, <1>1, <1>2 DEF ll_name_to_index

\* The cache after a step, when every entry is of a device that is as it was, or that the cache
\* may be behind, or is proper for what the device has become.
LEMMA ChangeCurrent ==
  ASSUME NEW c \in Seq(EntryRec), Current(c, kern, behind), cache' = c, kern' \in [Indexes -> Links],
         behind \subseteq behind',
         \A e \in Range(c) : e.index \in behind' \/ kern'[e.index] = kern[e.index] \/ Proper(e, kern'[e.index])
  PROVE  BatchInv'
<1>1. Current(c, kern', behind')
  BY Zenon DEF Current
<1> QED
  BY Zenon, <1>1 DEF BatchInv

\* The same when the device has been dropped: what is left of it are its alternative names.
LEMMA DropCurrent ==
  ASSUME NEW c \in Seq(EntryRec), Current(c, kern, behind), NEW i \in Indexes, cache' = ll_drop_by_index(c, i),
         kern' \in [Indexes -> Links], behind \subseteq behind',
         \A k \in Indexes \ {i} : k \in behind' \/ kern'[k] = kern[k],
         \/ kern[i] = NoLink \/ i \in behind' \/ Alts(kern[i]) = {}
         \/ kern'[i] # NoLink /\ Alts(kern[i]) \subseteq Alts(kern'[i])
  PROVE  BatchInv'
<1> DEFINE d == ll_drop_by_index(c, i)
<1>1. /\ d \in Seq(EntryRec)
      /\ \A e \in Range(d) : \E f \in Range(c) :
              /\ e.index = f.index /\ e.name = f.name
              /\ IF f.index = i THEN e.kind # "parent" /\ f.kind # "parent" ELSE e.kind = f.kind
  BY Zenon, Dropped
<1>2. cache' = d
  BY Zenon
<1> HIDE DEF d
<1>3. ASSUME NEW e \in Range(d) PROVE e.index \in behind' \/ Proper(e, kern'[e.index])
  <2>1. PICK f \in Range(c) :
              /\ e.index = f.index /\ e.name = f.name
              /\ IF f.index = i THEN e.kind # "parent" /\ f.kind # "parent" ELSE e.kind = f.kind
    BY Zenon, <1>1
  <2>2. f.index \in Indexes /\ (f.index \in behind' \/ Proper(f, kern[f.index]))
    BY Zenon, EntryOf DEF Current
  <2>3. CASE f.index = i
    BY Zenon, <2>1, <2>2, <2>3 DEF Proper
  <2>4. CASE f.index # i
    BY Zenon, <2>1, <2>2, <2>4 DEF Proper
  <2> QED
    BY Zenon, <2>3, <2>4
<1> QED
  BY Zenon, <1>1, <1>2, <1>3 DEF BatchInv, Current

\* Devices go.
LEMMA GoneLinks ==
  ASSUME kern \in [Indexes -> Links], NEW S
  PROVE  /\ Gone(S) \in [Indexes -> Links]
         /\ \A k \in Indexes : k \in S \/ Gone(S)[k] = kern[k]
BY Zenon, NoLinkType DEF Gone

\* Every command of a batch keeps BatchInv: iplink_modify drops the entry of the device that it
\* changes (ll_drop_by_index), and a lookup adds entries of present names only.
LEMMA BatchStep == BatchInv /\ [LinkBatchNext]_linkBatchVars => BatchInv'
<1> SUFFICES ASSUME BatchInv, [LinkBatchNext]_linkBatchVars PROVE BatchInv'
  BY Zenon
<1>2. kern \in [Indexes -> Links] /\ cache \in Seq(EntryRec) /\ Current(cache, kern, behind)
  BY Zenon DEF BatchInv
<1>3. ASSUME NEW c \in Seq(EntryRec), Current(c, kern, behind), cache' = c, kern' = kern, behind' = behind
      PROVE  BatchInv'
  BY Zenon, <1>2, <1>3 DEF BatchInv
<1>4. ASSUME NEW n \in Names
      PROVE  CacheAfterName(n) \in Seq(EntryRec) /\ Current(CacheAfterName(n), kern, behind)
  BY Zenon, <1>2, LookupCurrent, NameIndex DEF CacheAfterName
<1>5. ASSUME NEW n \in Names, iplink_modify(n) PROVE BatchInv'
  <2> DEFINE i == ll_name_to_index(n)
             c == CacheAfterName(n)
  <2>1. i \in Indexes
    BY Zenon, <1>2, <1>5, NameIndex DEF iplink_modify
  <2>2. c \in Seq(EntryRec) /\ Current(c, kern, behind)
    BY Zenon, <1>4
  <2>3. CASE cache' = c /\ kern' = kern /\ behind' = behind
    BY Zenon, <1>3, <2>2, <2>3
  <2>4. ASSUME NEW l \in Renamed(i) \cup {kern[i]}, kern[i] # NoLink, kern' = [kern EXCEPT ![i] = l],
               behind' = behind, cache' = ll_drop_by_index(c, i)
        PROVE  BatchInv'
    <3> HIDE DEF i, c
    <3>1. kern[i] \in [name : Names, alts : Seq(Names)]
      BY Zenon, <1>2, <2>1, <2>4 DEF Links
    <3>2. l \in [name : Names, alts : Seq(Names)] /\ l.alts = kern[i].alts
      <4>1. CASE l = kern[i]
        BY Zenon, <3>1, <4>1
      <4>2. CASE l \in Renamed(i)
        <5>1. PICK m \in Names : l = [kern[i] EXCEPT !.name = m]
          BY Zenon, <4>2 DEF Renamed
        <5> QED
          BY Zenon, <3>1, <5>1
      <4> QED
        BY Zenon, <2>4, <4>1, <4>2
    <3>3. l \in Links /\ l # NoLink /\ Alts(l) = Alts(kern[i])
      <4>1. l.name \in Names
        BY Zenon, <3>2
      <4> QED
        BY Zenon, <3>2, <4>1, LlMapAssumption DEF Links, Alts
    <3>4. /\ kern' \in [Indexes -> Links] /\ kern'[i] = l
          /\ \A k \in Indexes \ {i} : kern'[k] = kern[k]
      BY Zenon, <1>2, <2>1, <2>4, <3>3
    <3> QED
      BY Zenon, <2>1, <2>2, <2>4, <3>3, <3>4, DropCurrent
  <2>5. ASSUME NEW S \in SUBSET (Indexes \ {i}), kern[i] # NoLink, kern' = Gone(S \cup {i}),
               behind' = behind \cup S \cup (IF kern[i].alts = <<>> THEN {} ELSE {i}),
               cache' = ll_drop_by_index(c, i)
        PROVE  BatchInv'
    <3> HIDE DEF i, c
    <3>1. kern' \in [Indexes -> Links] /\ \A k \in Indexes : k \in S \cup {i} \/ kern'[k] = kern[k]
      BY Zenon, <1>2, <2>5, GoneLinks
    <3>2. behind \subseteq behind' /\ \A k \in Indexes \ {i} : k \in behind' \/ kern'[k] = kern[k]
      BY Zenon, <2>5, <3>1
    <3>3. i \in behind' \/ Alts(kern[i]) = {}
      <4>1. kern[i].alts = <<>> => Alts(kern[i]) = {}
        BY DEF Alts
      <4> QED
        BY Zenon, <2>5, <4>1
    <3> QED
      BY Zenon, <2>1, <2>2, <2>5, <3>1, <3>2, <3>3, DropCurrent
  <2> QED
    BY Zenon, <1>5, <2>3, <2>4, <2>5 DEF iplink_modify
<1>6. ASSUME NEW i \in Indexes, IplinkAdd(i) PROVE BatchInv'
  <2>1. behind' = behind /\ (cache' = cache \/ cache' = ll_drop_by_index(cache, i))
    BY Zenon, <1>6 DEF IplinkAdd
  <2>2. /\ kern' \in [Indexes -> Links] /\ \A k \in Indexes \ {i} : kern'[k] = kern[k]
        /\ kern[i] = NoLink \/ kern'[i] = kern[i]
    <3>1. CASE kern' = kern
      BY Zenon, <1>2, <3>1
    <3>2. CASE kern[i] = NoLink /\ \E l \in Created : kern' = [kern EXCEPT ![i] = l]
      <4>1. PICK l \in Created : kern' = [kern EXCEPT ![i] = l]
        BY Zenon, <3>2
      <4>2. PICK m \in Names : l = [name |-> m, alts |-> <<>>]
        BY Zenon DEF Created
      <4>3. l \in Links
        BY <4>2 DEF Links
      <4> QED
        BY Zenon, <1>2, <3>2, <4>1, <4>3
    <3> QED
      BY Zenon, <1>6, <3>1, <3>2 DEF IplinkAdd
  <2>3. CASE cache' = cache
    <3>1. \A e \in Range(cache) : e.index \in behind' \/ kern'[e.index] = kern[e.index]
      BY Zenon, <1>2, <2>1, <2>2, EntryOf DEF Current, Proper
    <3> QED
      BY Zenon, <1>2, <2>1, <2>2, <2>3, <3>1, ChangeCurrent
  <2>4. CASE cache' = ll_drop_by_index(cache, i)
    BY Zenon, <1>2, <2>1, <2>2, <2>4, DropCurrent
  <2> QED
    BY Zenon, <2>1, <2>3, <2>4
<1>7. ASSUME NEW n \in Names, ByName(n) PROVE BatchInv'
  BY Zenon, <1>3, <1>4, <1>7 DEF ByName
<1>8. ASSUME NEW i \in Indexes, ByIndex(i) PROVE BatchInv'
  <2>1. CacheAfterIndex(i) \in Seq(EntryRec) /\ Current(CacheAfterIndex(i), kern, behind)
    BY Zenon, <1>2, LookupCurrent DEF CacheAfterIndex
  <2> QED
    BY Zenon, <1>3, <1>8, <2>1 DEF ByIndex
<1>9. CASE UNCHANGED linkBatchVars
  BY Zenon, <1>2, <1>3, <1>9 DEF linkBatchVars
<1>10. ASSUME NEW i \in Indexes, Listed(i) PROVE BatchInv'
  <2>1. PICK l \in {kern[i], [kern[i] EXCEPT !.alts = <<>>]} : cache' = ll_remember_index(cache, i, l)
    BY Zenon, <1>10 DEF Listed
  <2>2. kern[i] # NoLink /\ kern' = kern /\ behind' = behind
    BY Zenon, <1>10 DEF Listed
  <2>3. kern[i] \in [name : Names, alts : Seq(Names)]
    BY Zenon, <1>2, <2>2 DEF Links
  <2>4. <<>> \in Seq(Names) /\ DOMAIN <<>> = {}
    OBVIOUS
  <2>5. l \in [name : Names, alts : Seq(Names)] /\ l.name = kern[i].name /\ (l = kern[i] \/ l.alts = <<>>)
    BY Zenon, <2>3, <2>4
  <2>6. l # NoLink /\ l \in Links /\ Alts(l) \subseteq Alts(kern[i])
    <3>1. l.name \in Names
      BY Zenon, <2>5
    <3>2. l.alts = <<>> => Alts(l) = {}
      BY Zenon, <2>4 DEF Alts
    <3> QED
      BY Zenon, <2>5, <3>1, <3>2, LlMapAssumption DEF Links
  <2> DEFINE r == ll_remember_index(cache, i, l)
  <2>7. r \in Seq(EntryRec) /\ Current(r, kern, behind)
    BY Zenon, <1>2, <2>2, <2>5, <2>6, RememberCurrent
  <2> QED
    BY Zenon, <1>3, <2>1, <2>2, <2>7
<1>11. ASSUME NEW S \in SUBSET Indexes, GroupModify(S) PROVE BatchInv'
  <2>1. kern' = Gone(S) /\ behind' = behind \cup S /\ cache' = cache
    BY Zenon, <1>11 DEF GroupModify
  <2>2. kern' \in [Indexes -> Links] /\ \A e \in Range(cache) : e.index \in behind' \/ kern'[e.index] = kern[e.index]
    BY Zenon, <1>2, <2>1, GoneLinks, EntryOf
  <2> QED
    BY Zenon, <1>2, <2>1, <2>2, ChangeCurrent
<1>12. ASSUME NEW i \in Indexes, NEW l, kern[i] # NoLink, l \in {NoLink} \cup Renamed(i) \cup AltAdded(i) \cup AltDeleted(i),
              kern' = [kern EXCEPT ![i] = l]
       PROVE  kern' \in [Indexes -> Links] /\ \A k \in Indexes : k = i \/ kern'[k] = kern[k]
  <2>1. l \in Links
    BY Zenon, <1>2, <1>12, ChangedLink
  <2> QED
    BY Zenon, <1>2, <1>12, <2>1
<1>13. ASSUME NEW n \in Names, iplink_prop_mod(n) PROVE BatchInv'
  <2> DEFINE i == ll_name_to_index(n)
             c == CacheAfterName(n)
  <2>1. i \in Indexes /\ kern[i] # NoLink /\ cache' = c
    BY Zenon, <1>2, <1>13, NameIndex DEF iplink_prop_mod
  <2>2. c \in Seq(EntryRec) /\ Current(c, kern, behind)
    BY Zenon, <1>4
  <2>3. ASSUME NEW l \in AltAdded(i), kern' = [kern EXCEPT ![i] = l], behind' = behind PROVE BatchInv'
    <3> HIDE DEF i, c
    <3>1. kern' \in [Indexes -> Links] /\ \A k \in Indexes : k = i \/ kern'[k] = kern[k]
      BY Zenon, <1>12, <2>1, <2>3
    <3>2. kern[i] \in [name : Names, alts : Seq(Names)]
      BY Zenon, <1>2, <2>1 DEF Links
    <3>3. PICK m \in Names : l = [kern[i] EXCEPT !.alts = Append(@, m)]
      BY Zenon, <2>3 DEF AltAdded
    <3>4. kern[i].alts \in Seq(Names) /\ kern[i].name \in Names
      BY Zenon, <3>2
    <3>5. l.name = kern[i].name /\ l.alts = Append(kern[i].alts, m)
      BY Zenon, <3>2, <3>3
    <3>6. Alts(kern[i]) \subseteq Alts(l)
      <4> DEFINE s == kern[i].alts
      <4>1. s \in Seq(Names) /\ l.alts = Append(s, m)
        BY Zenon, <3>4, <3>5
      <4> HIDE DEF s
      <4>2. Range(Append(s, m)) = Range(s) \cup {m}
        BY SMTT(20), <4>1, AppendRange
      <4>3. Alts(kern[i]) = Range(s)
        BY Zenon DEF Alts, Range, s
      <4>4. Alts(l) = Range(l.alts)
        BY Zenon DEF Alts, Range
      <4> QED
        BY Zenon, <4>1, <4>2, <4>3, <4>4
    <3>7. kern'[i] = l /\ l # NoLink
      BY Zenon, <1>2, <2>1, <2>3, <3>4, <3>5, LlMapAssumption
    <3>8. ASSUME NEW e \in Range(c)
          PROVE  e.index \in behind' \/ kern'[e.index] = kern[e.index] \/ Proper(e, kern'[e.index])
      <4>1. e.index \in Indexes /\ (e.index \in behind \/ Proper(e, kern[e.index]))
        BY Zenon, <2>2, EntryOf DEF Current
      <4>2. CASE e.index = i
        BY Zenon, <2>3, <3>5, <3>6, <3>7, <4>1, <4>2 DEF Proper
      <4>3. CASE e.index # i
        BY Zenon, <3>1, <4>1, <4>3
      <4> QED
        BY Zenon, <4>2, <4>3
    <3> QED
      BY Zenon, <2>1, <2>2, <2>3, <3>1, <3>8, ChangeCurrent
  <2>4. ASSUME NEW l \in AltDeleted(i), kern' = [kern EXCEPT ![i] = l], behind' = behind \cup {i} PROVE BatchInv'
    <3> HIDE DEF i, c
    <3>1. kern' \in [Indexes -> Links] /\ \A k \in Indexes : k = i \/ kern'[k] = kern[k]
      BY Zenon, <1>12, <2>1, <2>4
    <3>2. \A e \in Range(c) : e.index \in behind' \/ kern'[e.index] = kern[e.index]
      BY Zenon, <2>2, <2>4, <3>1, EntryOf
    <3> QED
      BY Zenon, <2>1, <2>2, <2>4, <3>1, <3>2, ChangeCurrent
  <2> QED
    BY Zenon, <1>13, <2>3, <2>4 DEF iplink_prop_mod
<1>14. ASSUME NEW i \in Indexes, Elsewhere(i) PROVE BatchInv'
  <2>1. PICK l \in {NoLink} \cup Renamed(i) \cup AltDeleted(i) : kern' = [kern EXCEPT ![i] = l]
    BY Zenon, <1>14 DEF Elsewhere
  <2>2. kern[i] # NoLink /\ behind' = behind \cup {i} /\ cache' = cache
    BY Zenon, <1>14 DEF Elsewhere
  <2>3. kern' \in [Indexes -> Links] /\ \A k \in Indexes : k = i \/ kern'[k] = kern[k]
    BY Zenon, <1>12, <2>1, <2>2
  <2>4. \A e \in Range(cache) : e.index \in behind' \/ kern'[e.index] = kern[e.index]
    BY Zenon, <1>2, <2>2, <2>3, EntryOf
  <2> QED
    BY Zenon, <1>2, <2>2, <2>3, <2>4, ChangeCurrent
<1> QED
  BY Zenon, <1>5, <1>6, <1>7, <1>8, <1>9, <1>10, <1>11, <1>13, <1>14 DEF LinkBatchNext

\* In a batch, whatever devices it adds, renames, deletes, moves away, lists or looks up, a name found in
\* the link cache is a present name of the device it leads to, for every device that has not lost a
\* name in another way than by iplink_modify of that device.
THEOREM BatchNames == LinkBatchSpec => []BatchNamesRight
<1>1. BatchInv => BatchNamesRight
  <2> SUFFICES ASSUME BatchInv, NEW n \in Names, ll_get_by_name(cache, n) # 0
               PROVE  LET j == ll_get_by_name(cache, n) IN
                      cache[j].index \in behind \/ n \in NamesOf(kern[cache[j].index])
    BY Zenon DEF BatchNamesRight
  <2> DEFINE e == cache[ll_get_by_name(cache, n)]
  <2>1. cache \in Seq(EntryRec) /\ Current(cache, kern, behind)
    BY Zenon DEF BatchInv
  <2>2. e \in Range(cache) /\ e.name = n
    BY Zenon, <2>1, FoundByName
  <2> HIDE DEF e
  <2>3. e.index \in behind \/ Proper(e, kern[e.index])
    BY Zenon, <2>1, <2>2 DEF Current
  <2> QED
    BY Zenon, <2>2, <2>3 DEF Proper, NamesOf, e
<1> QED
  BY <1>1, BatchInitial, BatchStep, PTL DEF LinkBatchSpec

----------------------------------------------------------------------------
(* "ip route restore".                                                     *)

\* The pass a route has its turn in is over, or has come past the route.
PassedBy(i) == \/ \E p \in 0..2 : p < prio /\ Turn(saved[i], p)
               \/ i < next /\ Turn(saved[i], prio)

\* What the order of the passes is good for: routes with one hop each, and the routes of local
\* addresses lead to no gateway.
OneHopEach ==
  \A r \in SavedRoutes : r.hops = {} /\ (r.src # 0 /\ r.src = r.dst => r.gw = 0)

RestoreInv ==
  /\ saved \in Seq(SavedRoutes)
  /\ \A i \in DOMAIN saved : Valid(saved[i], {saved[j] : j \in DOMAIN saved})
  /\ prio \in 0..2 /\ next \in 1..(Len(saved) + 1) /\ deletions \in Nat
  /\ \A i \in DOMAIN saved : PassedBy(i) => saved[i] \in fib \cup lost
  /\ deletions = 0 => lost = {}
  /\ status = "done" => \A i \in DOMAIN saved : PassedBy(i)

\* Every route has its turn in one of the passes.
LEMMA EveryTurn ==
  ASSUME NEW r
  PROVE  \E p \in 0..2 : Turn(r, p)
BY DEF Turn

\* A file holds all the routes of the dump.
LEMMA FileHolds ==
  ASSUME NEW S, Cardinality(S) \in Nat, NEW f \in SavedFiles(S)
  PROVE  f \in Seq(S) /\ {f[j] : j \in DOMAIN f} = S
<1> DEFINE n == Cardinality(S)
<1>1. n \in Nat
  BY Zenon
<1>2. f \in [1..n -> S] /\ \A x \in S : \E j \in 1..n : f[j] = x
  BY Zenon DEF SavedFiles
<1> HIDE DEF n
<1>3. {f[j] : j \in DOMAIN f} = S
  BY Zenon, <1>2
<1>4. f \in Seq(S)
  BY <1>1, <1>2
<1> QED
  BY Zenon, <1>3, <1>4

\* The first pass begins with nothing passed by.
LEMMA RestoreInitInv ==
  ASSUME RestoreInit
  PROVE  RestoreInv /\ status = "running"
<1>1. PICK S \in SUBSET SavedRoutes : Consistent(S) /\ saved \in SavedFiles(S)
  BY Zenon DEF RestoreInit
<1>2. Cardinality(S) \in Nat
  BY Zenon, RestoreAssumption
<1>3. saved \in Seq(S) /\ {saved[j] : j \in DOMAIN saved} = S
  BY Zenon, <1>1, <1>2, FileHolds
<1>4. prio = 0 /\ next = 1 /\ status = "running" /\ deletions = 0 /\ lost = {}
  BY Zenon DEF RestoreInit
<1>5. /\ saved \in Seq(SavedRoutes) /\ Len(saved) \in Nat
      /\ \A i \in DOMAIN saved : i \in 1..Len(saved) /\ saved[i] \in S
  BY <1>3
<1>6. \A i \in DOMAIN saved : Valid(saved[i], {saved[j] : j \in DOMAIN saved})
  BY Zenon, <1>1, <1>3, <1>5 DEF Consistent
<1>7. \A i \in DOMAIN saved : ~PassedBy(i)
  BY <1>4, <1>5 DEF PassedBy
<1> QED
  BY <1>4, <1>5, <1>6, <1>7 DEF RestoreInv

\* The route whose turn it is has what it needs: a local address has been restored in the
\* first pass, a gateway's network in one of the first two.
LEMMA NoneRefused ==
  ASSUME RestoreInv, OneHopEach, deletions = 0, Reading, Turn(saved[next], prio)
  PROVE  Valid(saved[next], fib)
<1> DEFINE r == saved[next]
           T == {saved[j] : j \in DOMAIN saved}
<1>1. next \in DOMAIN saved /\ prio \in 0..2 /\ \A j \in DOMAIN saved : saved[j] \in SavedRoutes
  BY DEF RestoreInv, Reading
<1>2. Valid(r, T) /\ r \in SavedRoutes
  BY Zenon, <1>1 DEF RestoreInv
<1>3. \A i \in DOMAIN saved : (\E p \in 0..2 : p < prio /\ Turn(saved[i], p)) => saved[i] \in fib
  BY Zenon DEF RestoreInv, PassedBy
<1>4. ASSUME NEW l \in T, \E p \in 0..2 : p < prio /\ Turn(l, p) PROVE l \in fib
  BY Zenon, <1>3, <1>4
<1>5. T \subseteq SavedRoutes
  BY Zenon, <1>1
<1> HIDE DEF r, T
<1>6. Turn(r, prio)
  BY Zenon DEF r
<1>7. r.hops = {}
  BY Zenon, <1>2 DEF OneHopEach
<1>8. ASSUME r.gw # 0 PROVE Reached(r.gw, fib)
  <2>1. PICK n \in T : n.gw = 0 /\ n.hops = {} /\ n.dst = Net(r.gw)
    BY Zenon, <1>2, <1>8 DEF Valid, Reached
  <2>2. prio = 2
    BY Zenon, <1>6, <1>8 DEF Turn
  <2>3. Turn(n, 0) \/ Turn(n, 1)
    BY Zenon, <2>1 DEF Turn
  <2>4. n \in fib
    BY <1>4, <2>2, <2>3
  <2> QED
    BY Zenon, <2>1, <2>4 DEF Reached
<1>9. ASSUME r.src \notin {0, r.dst} PROVE \E l \in fib : l.dst = r.src /\ l.src = r.src
  <2>1. PICK l \in T : l.dst = r.src /\ l.src = r.src
    BY Zenon, <1>2, <1>9 DEF Valid
  <2>2. l.gw = 0
    BY Zenon, <1>5, <1>9, <2>1 DEF OneHopEach
  <2>3. Turn(l, 0)
    BY Zenon, <1>9, <2>1, <2>2 DEF Turn, rtattr_cmp
  <2>4. prio # 0
    BY <1>6, <1>9 DEF Turn, rtattr_cmp
  <2>5. l \in fib
    BY <1>1, <1>4, <2>3, <2>4
  <2> QED
    BY Zenon, <2>1, <2>5
<1>10. Valid(r, fib)
  BY Zenon, <1>7, <1>8, <1>9 DEF Valid
<1> QED
  BY Zenon, <1>10 DEF r

\* No message, end of a pass or deletion by others breaks the invariant.
LEMMA RestoreStepInv ==
  ASSUME RestoreInv, [RestoreNext]_restoreVars
  PROVE  RestoreInv'
<1>1. /\ saved \in Seq(SavedRoutes) /\ Len(saved) \in Nat /\ DOMAIN saved = 1..Len(saved)
      /\ prio \in 0..2 /\ next \in 1..(Len(saved) + 1) /\ deletions \in Nat
      /\ \A i \in DOMAIN saved : PassedBy(i) => saved[i] \in fib \cup lost
      /\ deletions = 0 => lost = {}
      /\ status = "done" => \A i \in DOMAIN saved : PassedBy(i)
      /\ \A i \in DOMAIN saved : Valid(saved[i], {saved[j] : j \in DOMAIN saved})
  BY DEF RestoreInv
<1>2. saved' = saved
  BY Zenon DEF RestoreNext, RestoreStep, SkipMessage, RestoreMessage, RestoreRefused, NextPass,
         DeleteRoute, restoreVars
<1>3. (\A i \in DOMAIN saved : Valid(saved[i], {saved[j] : j \in DOMAIN saved}))'
  BY <1>1, <1>2, Zenon
<1>4. SUFFICES
        /\ prio' \in 0..2 /\ next' \in 1..(Len(saved) + 1) /\ deletions' \in Nat
        /\ \A i \in DOMAIN saved : PassedBy(i)' => saved[i] \in fib' \cup lost'
        /\ deletions' = 0 => lost' = {}
        /\ status' = "done" => \A i \in DOMAIN saved : PassedBy(i)'
  BY Zenon, <1>1, <1>2, <1>3 DEF RestoreInv
<1>5. CASE SkipMessage
  <2>1. /\ status = "running" /\ next <= Len(saved) /\ ~Turn(saved[next], prio) /\ next' = next + 1
        /\ fib' = fib /\ prio' = prio /\ status' = status /\ deletions' = deletions /\ lost' = lost
    BY Zenon, <1>5 DEF SkipMessage, Reading
  <2>2. \A i \in DOMAIN saved : PassedBy(i)' => PassedBy(i)
    BY SMTT(20), <1>1, <1>2, <2>1 DEF PassedBy
  <2> QED
    BY <1>1, <2>1, <2>2
<1>6. CASE RestoreMessage
  <2>1. /\ status = "running" /\ next <= Len(saved) /\ next' = next + 1
        /\ fib' = fib \cup {saved[next]} /\ lost' = lost \ {saved[next]}
        /\ prio' = prio /\ status' = status /\ deletions' = deletions
    BY Zenon, <1>6 DEF RestoreMessage, Reading
  <2>2. \A i \in DOMAIN saved : PassedBy(i)' => PassedBy(i) \/ i = next
    BY <1>1, <1>2, <2>1 DEF PassedBy
  <2> QED
    BY <1>1, <2>1, <2>2
<1>7. CASE RestoreRefused
  <2>1. /\ status' = "failed" /\ next' = next
        /\ fib' = fib /\ prio' = prio /\ deletions' = deletions /\ lost' = lost
    BY Zenon, <1>7 DEF RestoreRefused
  <2>2. \A i \in DOMAIN saved : PassedBy(i)' => PassedBy(i)
    BY Zenon, <1>2, <2>1 DEF PassedBy
  <2> QED
    BY Zenon, <1>1, <2>1, <2>2
<1>8. CASE NextPass
  <2>1. /\ status = "running" /\ next > Len(saved)
        /\ fib' = fib /\ deletions' = deletions /\ lost' = lost
        /\ \/ prio < 2 /\ prio' = prio + 1 /\ next' = 1 /\ status' = status
           \/ ~(prio < 2) /\ status' = "done" /\ prio' = prio /\ next' = next
    BY Zenon, <1>8 DEF NextPass
  <2>2. \A i \in DOMAIN saved : PassedBy(i)' => PassedBy(i)
    BY <1>1, <1>2, <2>1 DEF PassedBy
  <2>3. ASSUME status' = "done", NEW i \in DOMAIN saved PROVE PassedBy(i)'
    <3>1. prio' = 2 /\ next' = next /\ i < next
      BY <1>1, <2>1, <2>3
    <3>2. PICK p \in 0..2 : Turn(saved[i], p)
      BY Zenon, EveryTurn
    <3> QED
      BY SMTT(20), <1>2, <3>1, <3>2 DEF PassedBy
  <2>4. next' \in 1..(Len(saved) + 1) /\ prio' \in 0..2
    BY SMTT(20), <1>1, <2>1
  <2> QED
    BY Zenon, <1>1, <2>1, <2>2, <2>3, <2>4
<1>9. ASSUME NEW r \in fib, DeleteRoute(r)
      PROVE  /\ prio' \in 0..2 /\ next' \in 1..(Len(saved) + 1) /\ deletions' \in Nat
             /\ \A i \in DOMAIN saved : PassedBy(i)' => saved[i] \in fib' \cup lost'
             /\ deletions' = 0 => lost' = {}
             /\ status' = "done" => \A i \in DOMAIN saved : PassedBy(i)'
  <2>1. /\ fib' = fib \ {r} /\ lost' = lost \cup {r} /\ deletions' = deletions + 1
        /\ status = "running" /\ prio' = prio /\ next' = next /\ status' = status
    BY Zenon, <1>9 DEF DeleteRoute
  <2>2. \A i \in DOMAIN saved : PassedBy(i)' => PassedBy(i)
    BY Zenon, <1>2, <2>1 DEF PassedBy
  <2> QED
    BY <1>1, <2>1, <2>2
<1>10. CASE UNCHANGED restoreVars
  BY Zenon, <1>1, <1>10 DEF restoreVars, PassedBy
<1> QED
  BY Zenon, <1>5, <1>6, <1>7, <1>8, <1>9, <1>10 DEF RestoreNext, RestoreStep

\* A restore that reports success has restored every route of the file: whatever the routes
\* are and whatever others delete, each has its turn in one of the three passes.
THEOREM RestoresWhatWasSaved ==
  RestoreSpec => [](status = "done" => \A i \in DOMAIN saved : saved[i] \in fib \cup lost)
<1>1. RestoreInv => (status = "done" => \A i \in DOMAIN saved : saved[i] \in fib \cup lost)
  BY Zenon DEF RestoreInv
<1> QED
  BY RestoreInitInv, RestoreStepInv, <1>1, PTL DEF RestoreSpec

\* When every route has one hop and the routes of local addresses have no gateway, the three
\* passes send no route before those it needs, whatever the order of the file: unless others
\* delete routes the kernel refuses none, and the restore is complete.
THEOREM RestoresAreComplete ==
  ASSUME OneHopEach
  PROVE  RestoreSpec => []RestoreComplete
<1> DEFINE Inv == RestoreInv /\ RestoredInOrder
<1>1. RestoreInit => Inv
  BY Zenon, RestoreInitInv DEF RestoredInOrder
<1>2. Inv /\ [RestoreNext]_restoreVars => Inv'
  <2> SUFFICES ASSUME Inv, [RestoreNext]_restoreVars PROVE RestoredInOrder'
    BY Zenon, RestoreStepInv
  <2>1. CASE RestoreRefused
    BY Zenon, <2>1, NoneRefused DEF RestoreRefused, RestoredInOrder, Accepted
  <2>2. CASE SkipMessage \/ RestoreMessage
    BY Zenon, <2>2 DEF SkipMessage, RestoreMessage, RestoredInOrder
  <2>3. CASE NextPass
    BY Zenon, <2>3 DEF NextPass, RestoredInOrder
  <2>4. ASSUME NEW r \in fib, DeleteRoute(r) PROVE RestoredInOrder'
    BY Zenon, <2>4 DEF DeleteRoute, RestoredInOrder
  <2>5. CASE UNCHANGED restoreVars
    BY Zenon, <2>5 DEF restoreVars, RestoredInOrder
  <2> QED
    BY Zenon, <2>1, <2>2, <2>3, <2>4, <2>5 DEF RestoreNext, RestoreStep
<1>3. Inv => RestoreComplete
  BY Zenon DEF RestoreInv, RestoreComplete
<1> QED
  BY <1>1, <1>2, <1>3, PTL DEF RestoreSpec

----------------------------------------------------------------------------
(* The flushes.                                                            *)

Dumps == [on : BOOLEAN, left : SUBSET Entries, changed : BOOLEAN]
Datagrams == [type : {"part", "done", "error"}, objs : SUBSET Entries, intr : BOOLEAN,
              err : {"none", "gone", "refused"}]

FlushTypeOK ==
  /\ cmd \in Commands
  /\ table \in SUBSET Entries /\ failed \in SUBSET Entries /\ stayed \in SUBSET Entries
  /\ kdump \in Dumps
  /\ queue \in Seq(Datagrams)
  /\ part \in SUBSET Entries
  /\ buf \in Seq(Entries)
  /\ flushed \in Nat /\ round \in Nat
  /\ warned \in BOOLEAN /\ disturbed \in BOOLEAN

InRound == pc \in {"dump", "filter", "after"}

\* The queue: what a datagram may hold, whether the end of a dump is in it, whether that is
\* the last that is heard of the dump, whether there are only answers to delete requests,
\* whether a datagram carries an object or NLM_F_DUMP_INTR.
WellFormed(q) ==
  \A j \in DOMAIN q : /\ q[j].type # "part" => q[j].objs = {}
                      /\ q[j].type = "error" => ~q[j].intr
Finished(q) == \E j \in DOMAIN q : q[j].type = "done"
DoneIsLast(q) == \A j, k \in DOMAIN q : j < k /\ q[j].type = "done" => q[k].type = "error"
AnswersOnly(q) == \A j \in DOMAIN q : q[j].type = "error"
Carries(q, x) == \E j \in DOMAIN q : x \in q[j].objs
SaysIntr(q) == \E j \in DOMAIN q : q[j].intr

Flagged == (kdump.on /\ kdump.changed) \/ SaysIntr(queue)

\* Every object that has been there since the round began is dealt with, or on its way.
OnItsWay(x) ==
  \/ x \in failed \cup Unselected \cup part
  \/ Carries(queue, x)
  \/ kdump.on /\ x \in kdump.left
Covered == \A x \in stayed : OnItsWay(x)

\* The part of the invariant about a round that has deleted nothing so far.
NothingYet ==
  /\ buf = <<>>
  /\ ~disturbed => stayed = table /\ ~Flagged
  /\ disturbed \/ Covered
  /\ cmd.kind = "addr" \/ warned \/ Flagged \/ Covered

FlushInv ==
  /\ FlushTypeOK
  /\ WellFormed(queue)
  /\ pc \in {"dump", "filter"} => (kdump.on => ~Finished(queue)) /\ DoneIsLast(queue)
  /\ pc \in {"round", "after"} => ~kdump.on /\ AnswersOnly(queue)
  /\ pc \in {"round", "dump", "after"} => part = {}
  /\ pc = "round" => buf = <<>>
  /\ result # "none" => pc = "end"
  /\ InRound /\ flushed = 0 => NothingYet
  /\ FlushComplete /\ FlushWarned

----------------------------------------------------------------------------
(* What the kernel does with a buffer of delete requests.                  *)

Progress == [table : SUBSET Entries, failed : SUBSET Entries, errs : Seq({Error("gone"), Error("refused")})]

\* One request.
LEMMA DeleteType ==
  ASSUME cmd \in Commands, NEW s \in Progress, NEW e \in Entries
  PROVE  Delete(s, e) \in Progress
<1>0. s.table \in SUBSET Entries /\ s.failed \in SUBSET Entries
      /\ s.errs \in Seq({Error("gone"), Error("refused")})
  BY Zenon DEF Progress
<1> DEFINE gone == Append(s.errs, Error("gone"))
           refused == Append(s.errs, Error("refused"))
           more == s.failed \cup {e}
           less == s.table \ ({e} \cup IF cmd.kind = "addr" THEN Dependent[e] ELSE {})
<1>1. gone \in Seq({Error("gone"), Error("refused")}) /\ refused \in Seq({Error("gone"), Error("refused")})
  BY <1>0
<1>2. more \in SUBSET Entries /\ less \in SUBSET Entries
  BY Zenon, <1>0
<1>3. Delete(s, e) \in {[s EXCEPT !.errs = gone], [s EXCEPT !.errs = refused],
                        [s EXCEPT !.failed = more], [s EXCEPT !.table = less]}
  BY Zenon DEF Delete
<1> HIDE DEF gone, refused, more, less
<1> QED
  BY <1>1, <1>2, <1>3, Zenon DEF Progress

\* The whole buffer: the objects that are left are among those that there were, and the
\* answers are errors.
LEMMA DeletedType ==
  ASSUME FlushTypeOK
  PROVE  Deleted \in Progress
<1> DEFINE L == Len(buf)
           base == [table |-> table, failed |-> failed, errs |-> <<>>]
           Steps(g, m) == g = [n \in 0..m |-> IF n = 0 THEN base ELSE Delete(g[n - 1], buf[n])]
           S == {m \in Nat : m <= L => \E g : Steps(g, m)}
<1>0. L \in Nat /\ \A n \in 1..L : buf[n] \in Entries
  BY DEF FlushTypeOK
<1>1. base \in Progress
  BY DEF FlushTypeOK, Progress
<1>2. 0 \in S
  <2> DEFINE g == [n \in 0..0 |-> base]
  <2>1. Steps(g, 0)
    BY DEF Steps
  <2> QED
    BY Zenon, <2>1
<1>3. ASSUME NEW m \in Nat, m \in S PROVE m + 1 \in S
  <2> SUFFICES ASSUME m + 1 <= L PROVE \E g : Steps(g, m + 1)
    OBVIOUS
  <2>0. m <= L
    BY <1>0
  <2>1. PICK g : Steps(g, m)
    BY Zenon, <1>3, <2>0
  <2> DEFINE h == [n \in 0..(m + 1) |-> IF n <= m THEN g[n] ELSE Delete(g[m], buf[m + 1])]
  <2>2. ASSUME NEW n \in 0..(m + 1)
        PROVE  h[n] = IF n = 0 THEN base ELSE Delete(h[n - 1], buf[n])
    <3>1. CASE n = 0
      BY SMTT(20), <2>1, <3>1
    <3>2. CASE n \in 1..m
      <4>1. g[n] = Delete(g[n - 1], buf[n])
        BY SMTT(20), <2>1, <3>2
      <4>2. h[n] = g[n] /\ h[n - 1] = g[n - 1]
        BY SMTT(20), <3>2
      <4> QED
        BY SMTT(20), <3>2, <4>1, <4>2
    <3>3. CASE n = m + 1
      <4>1. h[n] = Delete(g[m], buf[n]) /\ h[n - 1] = g[m]
        BY <3>3
      <4> QED
        BY <3>3, <4>1
    <3> QED
      BY SMTT(20), <3>1, <3>2, <3>3
  <2>3. h = [n \in 0..(m + 1) |-> IF n = 0 THEN base ELSE Delete(h[n - 1], buf[n])]
    BY Zenon, <2>2
  <2>4. Steps(h, m + 1)
    BY Zenon, <2>3
  <2> QED
    BY Zenon, <2>4
<1> HIDE DEF S
<1>4. L \in S
  BY SMTT(20), <1>0, <1>2, <1>3, SetInduction
<1>5. \E g : Steps(g, L)
  BY <1>0, <1>4 DEF S
<1> DEFINE after == CHOOSE g : Steps(g, L)
<1>6. Steps(after, L)
  BY Zenon, <1>5
<1>7. Deleted = after[L]
  BY Zenon DEF Deleted
<1> HIDE DEF after
<1> DEFINE T == {m \in Nat : m <= L => after[m] \in Progress}
<1>8. 0 \in T
  BY <1>0, <1>1, <1>6
<1>9. ASSUME NEW m \in Nat, m \in T PROVE m + 1 \in T
  <2> SUFFICES ASSUME m + 1 <= L PROVE after[m + 1] \in Progress
    OBVIOUS
  <2>1. after[m] \in Progress /\ buf[m + 1] \in Entries
    BY SMTT(20), <1>0, <1>9
  <2>2. after[m + 1] = Delete(after[m], buf[m + 1])
    BY <1>0, <1>6
  <2>3. cmd \in Commands
    BY Zenon DEF FlushTypeOK
  <2> QED
    BY Zenon, <2>1, <2>2, <2>3, DeleteType
<1> HIDE DEF T
<1>10. L \in T
  BY SMTT(20), <1>0, <1>8, <1>9, SetInduction
<1> QED
  BY <1>0, <1>7, <1>10 DEF T

----------------------------------------------------------------------------
(* The queue.                                                              *)

\* A datagram at the end of the queue.
LEMMA QueueAppend ==
  ASSUME NEW q \in Seq(Datagrams), NEW d \in Datagrams
  PROVE  /\ Append(q, d) \in Seq(Datagrams)
         /\ Finished(Append(q, d)) <=> Finished(q) \/ d.type = "done"
         /\ SaysIntr(Append(q, d)) <=> SaysIntr(q) \/ d.intr
         /\ \A x : Carries(Append(q, d), x) <=> Carries(q, x) \/ x \in d.objs
         /\ WellFormed(q) /\ WellFormed(<<d>>) => WellFormed(Append(q, d))
         /\ DoneIsLast(q) /\ ~Finished(q) => DoneIsLast(Append(q, d))
<1> DEFINE r == Append(q, d)
<1>1. /\ r \in Seq(Datagrams) /\ Len(r) = Len(q) + 1 /\ r[Len(q) + 1] = d
      /\ DOMAIN q = 1..Len(q) /\ DOMAIN r = 1..(Len(q) + 1) /\ Len(q) \in Nat
      /\ \A j \in 1..Len(q) : r[j] = q[j]
  BY SMTT(20)
<1> HIDE DEF r
<1>2. Finished(r) <=> Finished(q) \/ d.type = "done"
  BY SMTT(20), <1>1 DEF Finished
<1>3. SaysIntr(r) <=> SaysIntr(q) \/ d.intr
  BY SMTT(20), <1>1 DEF SaysIntr
<1>4. ASSUME NEW x PROVE Carries(r, x) <=> Carries(q, x) \/ x \in d.objs
  BY SMTT(20), <1>1 DEF Carries
<1>5. ASSUME WellFormed(q), WellFormed(<<d>>) PROVE WellFormed(r)
  BY SMTT(20), <1>1, <1>5 DEF WellFormed
<1>6. ASSUME DoneIsLast(q), ~Finished(q) PROVE DoneIsLast(r)
  BY <1>1, <1>6 DEF DoneIsLast, Finished
<1> QED
  BY Zenon, <1>1, <1>2, <1>3, <1>4, <1>5, <1>6 DEF r

\* The first datagram is taken.
LEMMA QueueTail ==
  ASSUME NEW q \in Seq(Datagrams), q # <<>>, WellFormed(q), DoneIsLast(q)
  PROVE  /\ Head(q) \in Datagrams /\ Tail(q) \in Seq(Datagrams)
         /\ WellFormed(Tail(q)) /\ DoneIsLast(Tail(q))
         /\ Finished(Tail(q)) => Finished(q)
         /\ SaysIntr(q) => SaysIntr(Tail(q)) \/ Head(q).intr
         /\ SaysIntr(Tail(q)) => SaysIntr(q)
         /\ \A x : Carries(q, x) => Carries(Tail(q), x) \/ x \in Head(q).objs
         /\ Head(q).intr => SaysIntr(q)
         /\ Head(q).type # "part" => Head(q).objs = {}
         /\ Head(q).type = "done" => Finished(q) /\ AnswersOnly(Tail(q))
<1> DEFINE r == Tail(q)
           h == Head(q)
<1>1. /\ r \in Seq(Datagrams) /\ h \in Datagrams /\ Len(q) \in Nat /\ Len(q) > 0 /\ q[1] = h
      /\ DOMAIN q = 1..Len(q) /\ DOMAIN r = 1..(Len(q) - 1)
      /\ \A j \in 1..(Len(q) - 1) : r[j] = q[j + 1]
  OBVIOUS
<1>2. /\ \A j \in 2..Len(q) : q[j] = r[j - 1] /\ j - 1 \in DOMAIN r
      /\ \A j \in DOMAIN r : j + 1 \in DOMAIN q /\ r[j] = q[j + 1]
      /\ \A j \in DOMAIN r, k \in DOMAIN r : j < k => j + 1 < k + 1
  BY <1>1
<1>a. ASSUME NEW j \in DOMAIN q PROVE q[j] = h \/ \E k \in DOMAIN r : q[j] = r[k]
  <2>1. CASE j = 1
    BY Zenon, <1>1, <2>1
  <2>2. CASE j # 1
    <3>1. j \in 2..Len(q)
      BY SMTT(20), <1>1, <2>2
    <3> QED
      BY Zenon, <1>2, <3>1
  <2> QED
    BY Zenon, <2>1, <2>2
<1> HIDE DEF r, h
<1>3. WellFormed(r) /\ DoneIsLast(r)
  BY <1>2 DEF WellFormed, DoneIsLast
<1>4. (Finished(r) => Finished(q)) /\ (SaysIntr(r) => SaysIntr(q))
  BY Zenon, <1>2 DEF Finished, SaysIntr
<1>5. SaysIntr(q) => SaysIntr(r) \/ h.intr
  BY Zenon, <1>a DEF SaysIntr
<1>6. ASSUME NEW x, Carries(q, x) PROVE Carries(r, x) \/ x \in h.objs
  BY Zenon, <1>a, <1>6 DEF Carries
<1>7. (h.intr => SaysIntr(q)) /\ (h.type # "part" => h.objs = {})
  BY <1>1 DEF SaysIntr, WellFormed
<1>8. h.type = "done" => Finished(q) /\ AnswersOnly(r)
  BY SMTT(20), <1>1 DEF Finished, DoneIsLast, AnswersOnly
<1> QED
  BY Zenon, <1>1, <1>3, <1>4, <1>5, <1>6, <1>7, <1>8 DEF r, h

\* Errors are queued behind what is there.
LEMMA QueueErrors ==
  ASSUME NEW q \in Seq(Datagrams), NEW es \in Seq({Error("gone"), Error("refused")})
  PROVE  /\ q \o es \in Seq(Datagrams)
         /\ WellFormed(q) => WellFormed(q \o es)
         /\ DoneIsLast(q) => DoneIsLast(q \o es)
         /\ Finished(q \o es) => Finished(q)
         /\ AnswersOnly(q) => AnswersOnly(q \o es)
<1> DEFINE r == q \o es
<1>0. \A d \in {Error("gone"), Error("refused")} :
        d \in Datagrams /\ d.type = "error" /\ d.objs = {} /\ ~d.intr
  <2>1. ASSUME NEW code \in {"gone", "refused"}
        PROVE  Error(code) \in Datagrams /\ Error(code).type = "error"
               /\ Error(code).objs = {} /\ ~Error(code).intr
    BY Zenon DEF Error, Datagrams
  <2> QED
    BY Zenon, <2>1
<1>1. /\ Len(q) \in Nat /\ Len(es) \in Nat /\ DOMAIN q = 1..Len(q) /\ DOMAIN es = 1..Len(es)
      /\ DOMAIN r = 1..(Len(q) + Len(es))
      /\ \A j \in 1..Len(q) : r[j] = q[j]
      /\ \A j \in (Len(q) + 1)..(Len(q) + Len(es)) : r[j] = es[j - Len(q)] /\ j - Len(q) \in 1..Len(es)
  OBVIOUS
<1>2. \A j \in DOMAIN es : es[j] \in {Error("gone"), Error("refused")}
  OBVIOUS
<1>3. \A j \in DOMAIN r : (j \in DOMAIN q /\ r[j] = q[j]) \/ r[j] \in {Error("gone"), Error("refused")}
  BY <1>1, <1>2
<1>4. r \in Seq(Datagrams)
  <2>1. es \in Seq(Datagrams)
    BY <1>0
  <2> QED
    BY <2>1
<1> HIDE DEF r
<1>5. \A j \in DOMAIN r :
        \/ j \in DOMAIN q /\ r[j] = q[j]
        \/ r[j].type = "error" /\ r[j].objs = {} /\ ~r[j].intr
  BY Zenon, <1>0, <1>3
<1>6. WellFormed(q) => WellFormed(r)
  BY Zenon, <1>5 DEF WellFormed
<1>7. DoneIsLast(q) => DoneIsLast(r)
  BY Zenon, <1>5 DEF DoneIsLast
<1>8. Finished(r) => Finished(q)
  BY Zenon, <1>5 DEF Finished
<1>9. AnswersOnly(q) => AnswersOnly(r)
  BY SMTT(20), <1>5 DEF AnswersOnly
<1> QED
  BY Zenon, <1>4, <1>6, <1>7, <1>8, <1>9 DEF r

\* How a dump goes on: only one that has been disturbed leaves objects out, and then it
\* says so.
LEMMA ContinuationIs ==
  ASSUME NEW k \in Dumps, k.on, NEW c \in Continuations(k)
  PROVE  /\ c.dg \in Datagrams /\ c.next \in Dumps /\ WellFormed(<<c.dg>>)
         /\ c.dg.intr = k.changed /\ (c.next.changed => k.changed)
         /\ \/ c.dg.type = "part" /\ c.next.on
            \/ c.dg.type = "done" /\ ~c.next.on
         /\ k.changed \/ \A x \in k.left : x \in c.dg.objs \/ (c.next.on /\ x \in c.next.left)
<1>0. k.left \in SUBSET Entries /\ k.changed \in BOOLEAN
  BY Zenon DEF Dumps
<1>1. CASE \E p \in SUBSET (k.left \cap table) : \E rest \in SUBSET (k.left \ p) :
             /\ c = [dg |-> Part(p, k.changed), next |-> [k EXCEPT !.left = rest]]
             /\ ~k.changed => rest = k.left \ p
  <2>0. PICK p \in SUBSET (k.left \cap table) : \E rest \in SUBSET (k.left \ p) :
             /\ c = [dg |-> Part(p, k.changed), next |-> [k EXCEPT !.left = rest]]
             /\ ~k.changed => rest = k.left \ p
    BY Zenon, <1>1
  <2>1. PICK rest \in SUBSET (k.left \ p) :
             /\ c = [dg |-> Part(p, k.changed), next |-> [k EXCEPT !.left = rest]]
             /\ ~k.changed => rest = k.left \ p
    BY Zenon, <2>0
  <2>2. c.dg = Part(p, k.changed) /\ c.next = [k EXCEPT !.left = rest]
    BY Zenon, <2>1
  <2>3. /\ c.dg \in Datagrams /\ c.dg.type = "part" /\ c.dg.objs = p /\ c.dg.intr = k.changed
    BY <1>0, <2>2 DEF Part, Datagrams
  <2>4. /\ c.next \in Dumps /\ c.next.on /\ c.next.left = rest /\ c.next.changed = k.changed
    BY Zenon, <1>0, <2>2 DEF Dumps
  <2>5. WellFormed(<<c.dg>>)
    BY <2>3 DEF WellFormed
  <2> QED
    BY Zenon, <2>1, <2>3, <2>4, <2>5
<1>2. CASE /\ c = [dg |-> Done(k.changed), next |-> NoDump]
           /\ k.left = {} \/ k.changed
  <2>1. c.dg = Done(k.changed) /\ c.next = NoDump
    BY SMTT(20), <1>2
  <2>2. c.dg \in Datagrams /\ c.dg.type = "done" /\ c.dg.objs = {} /\ c.dg.intr = k.changed
    BY SMTT(20), <1>0, <2>1 DEF Done, Datagrams
  <2>3. c.next \in Dumps /\ ~c.next.on /\ c.next.changed = FALSE
    BY SMTT(20), <2>1 DEF NoDump, Dumps
  <2>4. WellFormed(<<c.dg>>)
    BY <2>2 DEF WellFormed
  <2> QED
    BY Zenon, <1>2, <2>2, <2>3, <2>4
<1>3. CASE \E p \in SUBSET (k.left \cap table) : c \in NextPart(k, p)
  <2>1. PICK p \in SUBSET (k.left \cap table) : c \in NextPart(k, p)
    BY Zenon, <1>3
  <2>2. PICK rest \in IF k.changed THEN SUBSET (k.left \ p) ELSE {k.left \ p} :
          c = [dg |-> Part(p, k.changed), next |-> [k EXCEPT !.left = rest]]
    BY Zenon, <2>1 DEF NextPart
  <2>3. rest \in SUBSET (k.left \ p) /\ (~k.changed => rest = k.left \ p)
    BY Zenon, <2>2
  <2> QED
    BY Zenon, <1>1, <2>2, <2>3
<1>4. CASE c \in DumpEnd(k)
  BY Zenon, <1>2, <1>4 DEF DumpEnd
<1>5. (\E p \in SUBSET (k.left \cap table) : c \in NextPart(k, p)) \/ c \in DumpEnd(k)
  <2> DEFINE P == {q \in SUBSET (k.left \cap table) : Cardinality(q) \in 1..PerPart}
  <2>1. c \in UNION {NextPart(k, p) : p \in P} \/ c \in DumpEnd(k)
    BY Zenon DEF Continuations
  <2>2. P \subseteq SUBSET (k.left \cap table)
    BY Zenon
  <2> HIDE DEF P
  <2> QED
    BY <2>1, <2>2, Zenon
<1> QED
  BY Zenon, <1>3, <1>4, <1>5

----------------------------------------------------------------------------
(* The steps of the loop.                                                  *)

\* Before the command has come to an end nothing is claimed of its result.
LEMMA StillRunning ==
  ASSUME FlushInv, pc # "end"
  PROVE  result = "none"
BY Zenon DEF FlushInv

\* The parts of the invariant that a step that does not succeed has to establish.
LEMMA InvIntro ==
  ASSUME FlushTypeOK', WellFormed(queue)', result' # "ok", result' # "none" => pc' = "end",
         (pc \in {"dump", "filter"} => (kdump.on => ~Finished(queue)) /\ DoneIsLast(queue))',
         (pc \in {"round", "after"} => ~kdump.on /\ AnswersOnly(queue))',
         (pc \in {"round", "dump", "after"} => part = {})',
         (pc = "round" => buf = <<>>)',
         (InRound /\ flushed = 0 => NothingYet)'
  PROVE  FlushInv'
<1>1. FlushComplete' /\ FlushWarned'
  BY Zenon DEF FlushComplete, FlushWarned
<1> QED
  BY Zenon, <1>1 DEF FlushInv

\* Answers are no objects and carry no flag.
LEMMA AnswersAre ==
  ASSUME NEW q, WellFormed(q), AnswersOnly(q)
  PROVE  ~Finished(q) /\ ~SaysIntr(q) /\ DoneIsLast(q) /\ \A x : ~Carries(q, x)
BY SMTT(20) DEF WellFormed, AnswersOnly, Finished, SaysIntr, DoneIsLast, Carries

\* A round begins: the dump holds every object of the table.
LEMMA RoundBeginStep ==
  ASSUME FlushInv, RoundBegin, cmd' = cmd
  PROVE  FlushInv'
<1>1. /\ FlushTypeOK /\ WellFormed(queue) /\ AnswersOnly(queue) /\ part = {} /\ buf = <<>>
      /\ pc = "round" /\ result = "none"
  BY Zenon, StillRunning DEF FlushInv, RoundBegin
<1>2. ~Finished(queue) /\ ~SaysIntr(queue) /\ DoneIsLast(queue)
  BY Zenon, <1>1, AnswersAre
<1> DEFINE k == [on |-> TRUE, left |-> table, changed |-> FALSE]
<1>3. PICK c \in Continuations(k) : queue' = Append(queue, c.dg) /\ kdump' = c.next
  BY Zenon DEF RoundBegin
<1>4. k \in Dumps /\ k.on /\ k.left = table /\ k.changed = FALSE
  BY Zenon, <1>1 DEF FlushTypeOK, Dumps
<1> HIDE DEF k
<1>5. /\ c.dg \in Datagrams /\ c.next \in Dumps /\ WellFormed(<<c.dg>>)
      /\ c.dg.intr = FALSE /\ ~c.next.changed
      /\ \/ c.dg.type = "part" /\ c.next.on
         \/ c.dg.type = "done" /\ ~c.next.on
      /\ \A x \in table : x \in c.dg.objs \/ (c.next.on /\ x \in c.next.left)
  BY Zenon, <1>4, ContinuationIs
<1>6. queue \in Seq(Datagrams)
  BY SMTT(20), <1>1 DEF FlushTypeOK
<1>7. /\ queue' \in Seq(Datagrams)
      /\ Finished(queue') <=> c.dg.type = "done"
      /\ ~SaysIntr(queue')
      /\ \A x : Carries(queue', x) <=> Carries(queue, x) \/ x \in c.dg.objs
      /\ WellFormed(queue') /\ DoneIsLast(queue')
  BY Zenon, <1>1, <1>2, <1>3, <1>5, <1>6, QueueAppend
<1>8. /\ pc' = "dump" /\ flushed' = 0 /\ stayed' = table /\ disturbed' = FALSE /\ table' = table
      /\ failed' = failed /\ part' = part /\ buf' = buf /\ round' = round /\ warned' = warned
      /\ result' = result
  BY SMTT(20) DEF RoundBegin
<1>9. FlushTypeOK'
  BY ZenonT(30), <1>1, <1>3, <1>5, <1>7, <1>8 DEF FlushTypeOK
<1>10. NothingYet'
  <2>1. ~Flagged'
    BY Zenon, <1>3, <1>5, <1>7 DEF Flagged
  <2>2. Covered'
    BY Zenon, <1>3, <1>5, <1>7, <1>8 DEF Covered, OnItsWay
  <2> QED
    BY Zenon, <1>1, <1>8, <2>1, <2>2 DEF NothingYet
<1> QED
  BY Zenon, <1>1, <1>3, <1>5, <1>7, <1>8, <1>9, <1>10, InvIntro

\* What is left in the queue after recvmsg, and of the dump: nothing of the dump is lost
\* unless it has been disturbed, and then the next datagram says so.
LEMMA ReceiveIs ==
  ASSUME FlushTypeOK, WellFormed(queue), DoneIsLast(queue), kdump.on => ~Finished(queue), Receive
  PROVE  /\ queue # <<>> /\ Head(queue) \in Datagrams
         /\ queue' \in Seq(Datagrams) /\ kdump' \in Dumps
         /\ WellFormed(queue') /\ DoneIsLast(queue') /\ (kdump'.on => ~Finished(queue'))
         /\ Head(queue).type # "part" => Head(queue).objs = {}
         /\ Head(queue).type = "done" => ~kdump'.on /\ AnswersOnly(queue')
         /\ Flagged => Head(queue).intr \/ Flagged'
         /\ Flagged' => Flagged
         /\ Head(queue).intr => Flagged
         /\ \/ Flagged
            \/ \A x : Carries(queue, x) \/ (kdump.on /\ x \in kdump.left) =>
                  x \in Head(queue).objs \/ Carries(queue', x) \/ (kdump'.on /\ x \in kdump'.left)
<1>1. queue # <<>> /\ queue \in Seq(Datagrams) /\ kdump \in Dumps
  BY Zenon DEF Receive, FlushTypeOK
<1> DEFINE h == Head(queue)
           r == Tail(queue)
<1>2. /\ h \in Datagrams /\ r \in Seq(Datagrams)
      /\ WellFormed(r) /\ DoneIsLast(r)
      /\ Finished(r) => Finished(queue)
      /\ SaysIntr(queue) => SaysIntr(r) \/ h.intr
      /\ SaysIntr(r) => SaysIntr(queue)
      /\ \A x : Carries(queue, x) => Carries(r, x) \/ x \in h.objs
      /\ h.intr => SaysIntr(queue)
      /\ h.type # "part" => h.objs = {}
      /\ h.type = "done" => Finished(queue) /\ AnswersOnly(r)
  BY Zenon, <1>1, QueueTail
<1>3. CASE ~kdump.on
  <2>1. queue' = r /\ kdump' = kdump
    BY Zenon, <1>3 DEF Receive
  <2> HIDE DEF h, r
  <2>2. (Flagged <=> SaysIntr(queue)) /\ (Flagged' <=> SaysIntr(r))
    BY SMTT(20), <1>3, <2>1 DEF Flagged
  <2> QED
    BY Zenon, <1>1, <1>2, <1>3, <2>1, <2>2 DEF h
<1>4. CASE kdump.on
  <2>1. PICK c \in Continuations(kdump) : queue' = Append(r, c.dg) /\ kdump' = c.next
    BY SMTT(20), <1>4 DEF Receive
  <2> HIDE DEF h, r
  <2>2. /\ c.dg \in Datagrams /\ c.next \in Dumps /\ WellFormed(<<c.dg>>)
        /\ c.dg.intr = kdump.changed /\ (c.next.changed => kdump.changed)
        /\ \/ c.dg.type = "part" /\ c.next.on
           \/ c.dg.type = "done" /\ ~c.next.on
        /\ kdump.changed \/ \A x \in kdump.left : x \in c.dg.objs \/ (c.next.on /\ x \in c.next.left)
    BY ZenonT(30), <1>1, <1>4, ContinuationIs
  <2>3. ~Finished(r) /\ h.type # "done"
    BY Zenon, <1>2, <1>4
  <2>4. /\ queue' \in Seq(Datagrams)
        /\ Finished(queue') <=> c.dg.type = "done"
        /\ SaysIntr(queue') <=> SaysIntr(r) \/ c.dg.intr
        /\ \A x : Carries(queue', x) <=> Carries(r, x) \/ x \in c.dg.objs
        /\ WellFormed(queue') /\ DoneIsLast(queue')
    BY Zenon, <1>2, <2>1, <2>2, <2>3, QueueAppend
  <2>5. /\ Flagged <=> kdump.changed \/ SaysIntr(queue)
        /\ Flagged' <=> (c.next.on /\ c.next.changed) \/ SaysIntr(queue')
    BY SMTT(20), <1>4, <2>1 DEF Flagged
  <2>6. /\ Flagged => h.intr \/ Flagged'
        /\ Flagged' => Flagged
        /\ h.intr => Flagged
    BY ZenonT(30), <1>2, <2>2, <2>4, <2>5
  <2>7. \/ Flagged
        \/ \A x : Carries(queue, x) \/ (kdump.on /\ x \in kdump.left) =>
              x \in h.objs \/ Carries(queue', x) \/ (kdump'.on /\ x \in kdump'.left)
    BY Zenon, <1>2, <2>1, <2>2, <2>4, <2>5
  <2> QED
    BY Zenon, <1>1, <1>2, <2>1, <2>2, <2>3, <2>4, <2>6, <2>7 DEF h
<1> QED
  BY Zenon, <1>3, <1>4

\* A datagram comes off the queue: its objects are before the filter.
LEMMA DumpReadStep ==
  ASSUME FlushInv, DumpRead, cmd' = cmd
  PROVE  FlushInv'
<1>1. /\ FlushTypeOK /\ WellFormed(queue) /\ DoneIsLast(queue) /\ (kdump.on => ~Finished(queue))
      /\ part = {} /\ pc = "dump" /\ result = "none" /\ (flushed = 0 => NothingYet)
  BY Zenon, StillRunning DEF FlushInv, DumpRead, InRound
<1> DEFINE h == Head(queue)
<1>2. /\ Receive
      /\ warned' = (warned \/ (h.intr /\ ~Masked)) /\ part' = h.objs
      /\ pc' = CASE h.type = "part" -> "filter" [] h.type = "done" -> "after" [] h.type = "error" -> "dump"
      /\ table' = table /\ failed' = failed /\ buf' = buf /\ flushed' = flushed /\ round' = round
      /\ result' = result /\ stayed' = stayed /\ disturbed' = disturbed
  BY Zenon DEF DumpRead
<1>3. /\ h \in Datagrams
      /\ queue' \in Seq(Datagrams) /\ kdump' \in Dumps
      /\ WellFormed(queue') /\ DoneIsLast(queue') /\ (kdump'.on => ~Finished(queue'))
      /\ h.type # "part" => h.objs = {}
      /\ h.type = "done" => ~kdump'.on /\ AnswersOnly(queue')
      /\ Flagged => h.intr \/ Flagged'
      /\ Flagged' => Flagged
      /\ h.intr => Flagged
      /\ \/ Flagged
         \/ \A x : Carries(queue, x) \/ (kdump.on /\ x \in kdump.left) =>
               x \in h.objs \/ Carries(queue', x) \/ (kdump'.on /\ x \in kdump'.left)
  BY Zenon, <1>1, <1>2, ReceiveIs
<1> HIDE DEF h
<1>4. h.type \in {"part", "done", "error"} /\ h.objs \in SUBSET Entries /\ h.intr \in BOOLEAN
  BY Zenon, <1>3 DEF Datagrams
<1>5. /\ h.type = "part" => pc' = "filter"
      /\ h.type = "done" => pc' = "after"
      /\ h.type = "error" => pc' = "dump"
  BY Zenon, <1>2
<1>6. FlushTypeOK'
  BY Zenon, <1>1, <1>2, <1>3, <1>4 DEF FlushTypeOK
<1>7. ASSUME flushed' = 0 PROVE NothingYet'
  <2>1. NothingYet
    BY Zenon, <1>1, <1>2, <1>7
  <2>2. buf' = <<>> /\ (~disturbed => stayed' = table' /\ ~Flagged')
    BY Zenon, <1>2, <1>3, <2>1 DEF NothingYet
  <2>3. Flagged \/ (Covered => Covered')
    BY Zenon, <1>1, <1>2, <1>3 DEF Covered, OnItsWay
  <2>4. disturbed' \/ Covered'
    BY Zenon, <1>2, <2>1, <2>3 DEF NothingYet
  <2>5. h.intr => cmd.kind = "addr" \/ warned'
    BY Zenon, <1>2 DEF Masked
  <2>6. warned => warned'
    BY Zenon, <1>2
  <2>7. cmd'.kind = "addr" \/ warned' \/ Flagged' \/ Covered'
    BY Zenon, <1>3, <2>1, <2>3, <2>5, <2>6 DEF NothingYet
  <2> QED
    BY Zenon, <1>2, <2>2, <2>4, <2>7 DEF NothingYet
<1> QED
  BY Zenon, <1>1, <1>2, <1>3, <1>4, <1>5, <1>6, <1>7, InvIntro

\* The buffer is sent: the table shrinks, and answers are queued.
LEMMA SendBufferIs ==
  ASSUME FlushTypeOK, WellFormed(queue), SendBuffer
  PROVE  /\ table' \in SUBSET Entries /\ failed' \in SUBSET Entries /\ stayed' \in SUBSET Entries
         /\ kdump' \in Dumps /\ kdump'.on = kdump.on
         /\ queue' \in Seq(Datagrams) /\ WellFormed(queue')
         /\ DoneIsLast(queue) => DoneIsLast(queue')
         /\ Finished(queue') => Finished(queue)
         /\ AnswersOnly(queue) => AnswersOnly(queue')
<1>1. Deleted \in Progress
  BY Zenon, DeletedType
<1>2. /\ Deleted.table \in SUBSET Entries /\ Deleted.failed \in SUBSET Entries
      /\ Deleted.errs \in Seq({Error("gone"), Error("refused")})
  BY Zenon, <1>1 DEF Progress
<1>3. /\ table' = Deleted.table /\ failed' = Deleted.failed /\ queue' = queue \o Deleted.errs
      /\ kdump' = [kdump EXCEPT !.changed = @ \/ (kdump.on /\ table' # table)]
      /\ stayed' = stayed \cap table'
  BY Zenon DEF SendBuffer
<1>4. kdump' \in Dumps /\ kdump'.on = kdump.on
  BY SMTT(20), <1>3 DEF FlushTypeOK, Dumps
<1>5. queue \in Seq(Datagrams) /\ stayed \in SUBSET Entries
  BY Zenon DEF FlushTypeOK
<1> QED
  BY Zenon, <1>2, <1>3, <1>4, <1>5, QueueErrors

\* The filter passes an object by, keeps it for deletion or sends the buffer first.
LEMMA FilterObjectStep ==
  ASSUME FlushInv, FilterObject, cmd' = cmd
  PROVE  FlushInv'
<1>1. /\ FlushTypeOK /\ WellFormed(queue) /\ DoneIsLast(queue) /\ (kdump.on => ~Finished(queue))
      /\ pc = "filter" /\ result = "none" /\ (flushed = 0 => NothingYet)
  BY Zenon, StillRunning DEF FlushInv, FilterObject, InRound
<1>2. PICK e \in part : part' = part \ {e} /\ (FilterSkip(e) \/ FilterKeep(e) \/ FilterFull(e) \/ FilterSend(e))
  BY Zenon DEF FilterObject
<1>3. round' = round /\ warned' = warned /\ disturbed' = disturbed
  BY Zenon DEF FilterObject
<1>4. e \in Entries /\ part' \in SUBSET Entries /\ buf \in Seq(Entries) /\ flushed \in Nat
  BY Zenon, <1>1, <1>2 DEF FlushTypeOK
<1>5. CASE FilterSkip(e)
  <2>1. /\ ~Matches(e) \/ Len(buf) = BufSize
        /\ table' = table /\ failed' = failed /\ queue' = queue /\ kdump' = kdump /\ stayed' = stayed
        /\ buf' = buf /\ flushed' = flushed /\ pc' = pc /\ result' = result
    BY Zenon, <1>5 DEF FilterSkip
  <2>2. FlushTypeOK'
    BY Zenon, <1>1, <1>3, <1>4, <2>1 DEF FlushTypeOK
  <2>3. ASSUME flushed' = 0 PROVE NothingYet'
    <3>1. NothingYet /\ buf = <<>>
      BY Zenon, <1>1, <2>1, <2>3 DEF NothingYet
    <3>2. e \in failed \cup Unselected
      BY Zenon, <2>1, <3>1, FlushAssumption DEF Matches
    <3>3. Covered => Covered'
      BY Zenon, <1>2, <2>1, <3>2 DEF Covered, OnItsWay
    <3>4. Flagged' <=> Flagged
      BY Zenon, <2>1 DEF Flagged
    <3> QED
      BY Zenon, <1>3, <2>1, <3>1, <3>3, <3>4 DEF NothingYet
  <2> QED
    BY Zenon, <1>1, <2>1, <2>2, <2>3, InvIntro
<1>6. CASE FilterKeep(e)
  <2>1. /\ buf' = Append(buf, e) /\ flushed' = flushed + 1
        /\ table' = table /\ failed' = failed /\ queue' = queue /\ kdump' = kdump /\ stayed' = stayed
        /\ pc' = pc /\ result' = result
    BY Zenon, <1>6 DEF FilterKeep
  <2>2. FlushTypeOK'
    BY SMTT(20), <1>1, <1>3, <1>4, <2>1 DEF FlushTypeOK
  <2>3. flushed' # 0
    BY <1>4, <2>1
  <2> QED
    BY Zenon, <1>1, <2>1, <2>2, <2>3, InvIntro
<1>7. CASE FilterSend(e)
  <2>1. SendBuffer
    BY Zenon, <1>7 DEF FilterSend
  <2>2. \/ pc' = "end" /\ result' = "fail" /\ buf' = buf /\ flushed' = flushed
        \/ buf' = <<e>> /\ flushed' = flushed + 1 /\ pc' = pc /\ result' = result
    BY SMTT(20), <1>7 DEF FilterSend, Return
  <2>3. /\ table' \in SUBSET Entries /\ failed' \in SUBSET Entries /\ stayed' \in SUBSET Entries
        /\ kdump' \in Dumps /\ kdump'.on = kdump.on
        /\ queue' \in Seq(Datagrams) /\ WellFormed(queue')
        /\ DoneIsLast(queue')
        /\ Finished(queue') => Finished(queue)
    BY Zenon, <1>1, <2>1, SendBufferIs
  <2>4. buf' \in Seq(Entries) /\ flushed' \in Nat
    <3>1. <<e>> \in Seq(Entries)
      BY <1>4
    <3>2. flushed + 1 \in Nat
      BY SMTT(20), <1>4
    <3> QED
      BY <1>4, <2>2, <3>1, <3>2, Zenon
  <2>5. FlushTypeOK'
    BY SMTT(20), <1>1, <1>3, <1>4, <2>3, <2>4 DEF FlushTypeOK
  <2>6. CASE pc' = "end" /\ result' = "fail"
    BY SMTT(20), <2>3, <2>5, <2>6, InvIntro DEF InRound
  <2>7. CASE flushed' = flushed + 1 /\ pc' = pc /\ result' = result
    <3>1. flushed' # 0
      BY SMTT(20), <1>4, <2>7
    <3> QED
      BY Zenon, <1>1, <2>3, <2>5, <2>7, <3>1, InvIntro
  <2> QED
    BY Zenon, <2>2, <2>6, <2>7
<1>8. CASE FilterFull(e)
  <2>1. /\ table' = table /\ failed' = failed /\ queue' = queue /\ kdump' = kdump /\ stayed' = stayed
        /\ buf' = buf /\ flushed' = flushed /\ pc' = "end" /\ result' = "fail"
    BY Zenon, <1>8 DEF FilterFull, Return
  <2>2. FlushTypeOK'
    BY SMTT(20), <1>1, <1>3, <1>4, <2>1 DEF FlushTypeOK
  <2> QED
    BY SMTT(20), <1>1, <2>1, <2>2, InvIntro DEF InRound
<1> QED
  BY Zenon, <1>2, <1>5, <1>6, <1>7, <1>8

\* A datagram without further objects: the next one is read.
LEMMA FilterEndStep ==
  ASSUME FlushInv, FilterEnd, cmd' = cmd
  PROVE  FlushInv'
<1>1. /\ FlushTypeOK /\ WellFormed(queue) /\ DoneIsLast(queue) /\ (kdump.on => ~Finished(queue))
      /\ pc = "filter" /\ part = {} /\ result = "none" /\ (flushed = 0 => NothingYet)
  BY Zenon, StillRunning DEF FlushInv, FilterEnd, InRound
<1>2. /\ pc' = "dump"
      /\ table' = table /\ failed' = failed /\ queue' = queue /\ kdump' = kdump /\ stayed' = stayed
      /\ part' = part /\ buf' = buf /\ flushed' = flushed /\ round' = round /\ warned' = warned
      /\ result' = result /\ disturbed' = disturbed
  BY Zenon DEF FilterEnd
<1>3. FlushTypeOK'
  BY SMTT(20), <1>1, <1>2 DEF FlushTypeOK
<1>4. NothingYet => NothingYet'
  BY Zenon, <1>2 DEF NothingYet, Covered, OnItsWay, Flagged
<1> QED
  BY Zenon, <1>1, <1>2, <1>3, <1>4, InvIntro

\* The end with exit code 0: the dump is over, so what has been there all the time has been
\* given to the filter, which found nothing to delete.
LEMMA RoundCompleteStep ==
  ASSUME FlushInv, RoundComplete, cmd' = cmd
  PROVE  FlushInv'
<1>1. /\ FlushTypeOK /\ WellFormed(queue) /\ ~kdump.on /\ AnswersOnly(queue)
      /\ pc = "after" /\ part = {} /\ NothingYet
  BY Zenon DEF FlushInv, RoundComplete, InRound, Complete
<1>2. /\ pc' = "end" /\ result' = "ok"
      /\ table' = table /\ failed' = failed /\ queue' = queue /\ kdump' = kdump /\ stayed' = stayed
      /\ part' = part /\ buf' = buf /\ flushed' = flushed /\ round' = round /\ warned' = warned
      /\ disturbed' = disturbed
  BY Zenon DEF RoundComplete, Return
<1>3. FlushTypeOK'
  BY Zenon, <1>1, <1>2 DEF FlushTypeOK
<1>4. ~SaysIntr(queue) /\ \A x : ~Carries(queue, x)
  BY SMTT(20), <1>1, AnswersAre
<1>5. ~Flagged /\ (Covered => stayed \subseteq failed \cup Unselected)
  BY Zenon, <1>1, <1>4 DEF Flagged, Covered, OnItsWay
<1>6. FlushComplete' /\ FlushWarned'
  BY Zenon, <1>1, <1>2, <1>5 DEF FlushComplete, FlushWarned, NothingYet
<1> QED
  BY Zenon, <1>1, <1>2, <1>3, <1>6 DEF FlushInv, InRound

\* The end of a round that has something to delete: the rest of the buffer is sent.
LEMMA RoundEndStep ==
  ASSUME FlushInv, RoundEnd, cmd' = cmd
  PROVE  FlushInv'
<1>1. /\ FlushTypeOK /\ WellFormed(queue) /\ ~kdump.on /\ AnswersOnly(queue)
      /\ pc = "after" /\ part = {} /\ result = "none"
  BY Zenon, StillRunning DEF FlushInv, RoundEnd
<1>2. /\ SendBuffer /\ round' = CountRound(round)
      /\ part' = part /\ flushed' = flushed /\ warned' = warned /\ disturbed' = disturbed
  BY Zenon DEF RoundEnd
<1>3. \/ pc' = "end" /\ result' = "fail" /\ buf' \in {buf, <<>>}
      \/ pc' = "end" /\ result' = "ok" /\ buf' = <<>> /\ cmd.primary
      \/ pc' = "round" /\ result' = result /\ buf' = <<>>
  BY SMTT(20) DEF RoundEnd, Return
<1>4. /\ table' \in SUBSET Entries /\ failed' \in SUBSET Entries /\ stayed' \in SUBSET Entries
      /\ kdump' \in Dumps /\ ~kdump'.on
      /\ queue' \in Seq(Datagrams) /\ WellFormed(queue') /\ AnswersOnly(queue')
  BY Zenon, <1>1, <1>2, SendBufferIs
<1>5. round' \in Nat
  BY <1>1, <1>2, FlushAssumption DEF CountRound, FlushTypeOK
<1>6. buf' \in Seq(Entries)
  <2>1. <<>> \in Seq(Entries) /\ buf \in Seq(Entries)
    BY <1>1 DEF FlushTypeOK
  <2> QED
    BY <1>3, <2>1, Zenon
<1>7. FlushTypeOK'
  BY Zenon, <1>1, <1>2, <1>4, <1>5, <1>6 DEF FlushTypeOK
<1>8. CASE pc' = "end" /\ result' = "fail"
  BY Zenon, <1>1, <1>2, <1>4, <1>7, <1>8, InvIntro DEF InRound
<1>9. CASE pc' = "end" /\ result' = "ok" /\ cmd.primary
  <2>1. cmd.kind = "addr"
    BY Zenon, <1>1, <1>9, FlushAssumption DEF FlushTypeOK
  <2>2. FlushComplete' /\ FlushWarned'
    BY SMTT(20), <1>9, <2>1 DEF FlushComplete, FlushWarned
  <2> QED
    BY Zenon, <1>4, <1>7, <1>9, <2>2 DEF FlushInv, InRound
<1>10. CASE pc' = "round" /\ result' = result /\ buf' = <<>>
  BY SMTT(20), <1>1, <1>2, <1>4, <1>7, <1>10, InvIntro DEF InRound
<1> QED
  BY Zenon, <1>3, <1>8, <1>9, <1>10

\* Another process may take from what stayed and add to what the dump has still to give, and
\* a dump that it disturbs says so.
LEMMA OthersStep ==
  ASSUME FlushInv, Others, cmd' = cmd
  PROVE  FlushInv'
<1>1. FlushTypeOK /\ WellFormed(queue) /\ pc # "end" /\ result = "none"
  BY Zenon, StillRunning DEF FlushInv, Others
<1>2. /\ failed' = failed \cap table' /\ stayed' = stayed \cap table' /\ disturbed' = TRUE
      /\ queue' = queue /\ pc' = pc /\ part' = part /\ buf' = buf /\ flushed' = flushed
      /\ round' = round /\ warned' = warned /\ result' = result
  BY Zenon DEF Others, loopVars
<1>3. table' \in SUBSET Entries /\ kdump' \in Dumps /\ kdump'.on = kdump.on
      /\ kdump.left \subseteq kdump'.left /\ (kdump.on => kdump'.changed)
  <2>1. PICK e \in Entries :
          \/ /\ table' = table \ {e}
             /\ kdump' = [kdump EXCEPT !.changed = kdump.on]
          \/ /\ table' = table \cup {e}
             /\ kdump' \in {[kdump EXCEPT !.changed = kdump.on, !.left = l]
                              : l \in {kdump.left} \cup (IF kdump.on THEN {kdump.left \cup {e}} ELSE {})}
    BY Zenon DEF Others
  <2>2. kdump \in Dumps /\ kdump.on \in BOOLEAN /\ kdump.left \in SUBSET Entries /\ table \in SUBSET Entries
    BY SMTT(20), <1>1 DEF FlushTypeOK, Dumps
  <2>3. PICK l \in {kdump.left, kdump.left \cup {e}} :
          kdump' \in {[kdump EXCEPT !.changed = kdump.on], [kdump EXCEPT !.changed = kdump.on, !.left = l]}
    BY Zenon, <2>1
  <2>4. l \in SUBSET Entries /\ kdump.left \subseteq l
    BY Zenon, <2>2, <2>3
  <2>5. kdump' \in Dumps /\ kdump'.on = kdump.on
      /\ kdump.left \subseteq kdump'.left /\ (kdump.on => kdump'.changed)
    BY Zenon, <2>2, <2>3, <2>4 DEF Dumps
  <2> QED
    BY Zenon, <2>1, <2>2, <2>5
<1>4. FlushTypeOK'
  BY Zenon, <1>1, <1>2, <1>3 DEF FlushTypeOK
<1>5. ASSUME InRound', flushed' = 0 PROVE NothingYet'
  <2>1. NothingYet
    BY Zenon, <1>2, <1>5 DEF FlushInv, InRound
  <2>2. (Covered => Covered') /\ (Flagged => Flagged')
    BY Zenon, <1>2, <1>3 DEF Covered, OnItsWay, Flagged
  <2> QED
    BY Zenon, <1>2, <2>1, <2>2 DEF NothingYet
<1> QED
  BY ZenonT(30), <1>1, <1>2, <1>3, <1>4, <1>5, InvIntro DEF FlushInv

----------------------------------------------------------------------------

\* Before the first round nothing is on its way.
LEMMA FlushInit ==
  ASSUME Init PROVE FlushInv
<1>1. FlushTypeOK
  <2>1. <<>> \in Seq(Datagrams) /\ <<>> \in Seq(Entries)
    BY SMTT(20)
  <2>2. NoDump \in Dumps
    BY Zenon DEF NoDump, Dumps
  <2>3. {} \in SUBSET Entries /\ 0 \in Nat
    BY Zenon
  <2> QED
    BY <2>1, <2>2, <2>3, Zenon DEF Init, FlushTypeOK
<1>2. WellFormed(queue) /\ AnswersOnly(queue)
  BY DEF Init, WellFormed, AnswersOnly
<1> QED
  BY Zenon, <1>1, <1>2 DEF Init, FlushInv, NoDump, InRound, FlushComplete, FlushWarned

\* No step of the flush, of the kernel or of others breaks the invariant.
LEMMA FlushStep ==
  ASSUME FlushInv, [Next]_vars
  PROVE  FlushInv'
<1>1. CASE Next
  <2>1. cmd' = cmd
    BY SMTT(20), <1>1 DEF Next
  <2> QED
    BY Zenon, <1>1, <2>1, RoundBeginStep, DumpReadStep, FilterObjectStep, FilterEndStep,
       RoundCompleteStep, RoundEndStep, OthersStep DEF Next, Loop
<1>2. CASE UNCHANGED vars
  BY Zenon, <1>2 DEF vars, FlushInv, FlushTypeOK, InRound, NothingYet, Covered, OnItsWay, Flagged,
              FlushComplete, FlushWarned
<1> QED
  BY Zenon, <1>1, <1>2

\* A flush that ends with exit code 0 while nobody else changes the table has deleted every
\* object it can, however its own requests cut up its dumps and whatever the kernel refuses.
THEOREM FlushesAreComplete == Spec => []FlushComplete
<1>1. FlushInv => FlushComplete
  BY Zenon DEF FlushInv
<1> QED
  BY FlushInit, FlushStep, <1>1, PTL DEF Spec

\* A flush other than that of addresses that ends with exit code 0 and has left an object
\* that was there all the time has printed that the dump was inconsistent.
THEOREM FlushesWarn == Spec => []FlushWarned
<1>1. FlushInv => FlushWarned
  BY Zenon DEF FlushInv
<1> QED
  BY FlushInit, FlushStep, <1>1, PTL DEF Spec

=============================================================================
