------------------------------ MODULE SsProofs ------------------------------
(***************************************************************************)
(* Proofs about the buffer of ss, for every size of a chunk, every longest *)
(* token, every set of columns, and every sequence of calls of out,        *)
(* field_set, field_next and render.                                       *)
(*                                                                         *)
(* OutInv has two halves.  The buffer is a list of chunks whose tokens     *)
(* follow one another at even places, the last one open (Buffer): hence no *)
(* token reaches beyond its chunk, and the unsigned room that is left      *)
(* never wraps.  And what has been written since the last render is what   *)
(* render would print now (Following): the walk of render over the tokens  *)
(* is, cell for cell, the walk of the writer over the columns (Caught).    *)
(***************************************************************************)
EXTENDS SsOutput, WellFoundedInduction, TLAPS

----------------------------------------------------------------------------
(* Induction over the natural numbers, for sets.                           *)

\* A set of natural numbers has a least element.
LEMMA LeastOf ==
  ASSUME NEW T, T \subseteq Nat, T # {}
  PROVE  \E x \in T : \A y \in T : ~(y < x)
<1> DEFINE R == OpToRel(<, Nat)
<1>1. IsWellFoundedOn(R, Nat)
  BY Zenon, NatLessThanWellFounded
<1>2. \A x, y \in Nat : y < x => <<y, x>> \in R
  BY Zenon DEF OpToRel
<1> HIDE DEF R
<1>3. \E x \in T : \A y \in T : ~(<<y, x>> \in R)
  BY Zenon, <1>1, WFMin
<1> QED
  BY Zenon, <1>2, <1>3

\* A set that has 0, and n + 1 whenever it has n, has every natural number.
LEMMA SetInduction ==
  ASSUME NEW S, 0 \in S, \A n \in Nat : n \in S => n + 1 \in S
  PROVE  \A n \in Nat : n \in S
<1>1. SUFFICES ASSUME Nat \ S # {} PROVE FALSE
  BY Zenon
<1>2. PICK x \in Nat \ S : \A y \in Nat \ S : ~(y < x)
  BY Zenon, <1>1, LeastOf
<1>3. x # 0 /\ x - 1 \in Nat /\ x - 1 < x
  BY <1>2
<1>4. x - 1 \in S
  BY Zenon, <1>2, <1>3
<1> QED
  BY <1>3, <1>4

----------------------------------------------------------------------------
(* Sequences.                                                              *)

\* The least of a set of numbers.
LEMMA MinOf ==
  ASSUME NEW T, T \subseteq Nat, T # {}
  PROVE  Min(T) \in T /\ \A y \in T : Min(T) <= y
<1>1. PICK x \in T : \A y \in T : ~(y < x)
  BY Zenon, LeastOf
<1>2. \A y \in T : x <= y
  BY <1>1
<1> QED
  BY Zenon, <1>2 DEF Min

----------------------------------------------------------------------------
(* The output buffer of ss.                                                *)

TokenRec == [at : Nat, len : 0..MaxToken]
ChunkRec == [tokens : Seq(TokenRec), end : Nat]

\* The tokens of a chunk follow one another, each at an even place.
Chained(s) ==
  /\ s \in Seq(TokenRec) /\ s # <<>> /\ s[1].at = 0
  /\ \A k \in 2..Len(s) : s[k].at = TokenEnd(s[k - 1])
  /\ \A k \in 1..Len(s) : \A j \in 1..(k - 1) : TokenEnd(s[j]) <= s[k].at
  /\ \A k \in 1..Len(s) : s[k].at % 2 = 0 /\ s[k].at + 2 + s[k].len <= Room

\* The last chunk ends with the token that is being written; in the chunks before it, the end is
\* the aligned end of the token that the replay has to stop at.
OpenChunk(c) ==
  /\ c \in ChunkRec /\ Chained(c.tokens)
  /\ c.end = LastOf(c.tokens).at + 2 + LastOf(c.tokens).len
ClosedChunk(c) ==
  /\ c \in ChunkRec /\ Chained(c.tokens) /\ c.end <= Room
  /\ \E m \in 1..Len(c.tokens) : c.end = TokenEnd(c.tokens[m])

\* The buffer is the closed chunks p and the open chunk c.
Buffer(b, p, c) ==
  /\ p \in Seq(ChunkRec) /\ (\A i \in 1..Len(p) : ClosedChunk(p[i]))
  /\ OpenChunk(c) /\ b = Append(p, c)

\* The tokens that render finds.
Live(b) == Tokens(AlignEnd(b))

\* A length rounded up to an even one.
LEMMA Aligned ==
  ASSUME NEW n \in Nat
  PROVE  /\ n % 2 \in {0, 1} /\ LEN_ALIGN(n) \in Nat /\ n <= LEN_ALIGN(n) /\ LEN_ALIGN(n) % 2 = 0
         /\ LEN_ALIGN(n) = n + (n % 2)
<1>1. n % 2 \in {0, 1} /\ (n + (n % 2)) % 2 = 0
  OBVIOUS
<1> QED
  BY <1>1 DEF LEN_ALIGN

\* The fields of a token, and where it ends (buf_token_next).
LEMMA TokenFields ==
  ASSUME NEW t \in TokenRec
  PROVE  /\ t.at \in Nat /\ t.len \in Nat /\ t.len <= MaxToken /\ t.len \in 0..MaxToken
         /\ TokenEnd(t) = t.at + 2 + t.len + (t.len % 2)
         /\ TokenEnd(t) \in Nat /\ t.at < TokenEnd(t)
<1>1. t.at \in Nat /\ t.len \in Nat /\ t.len <= MaxToken /\ t.len \in 0..MaxToken
  BY OutAssumption DEF TokenRec
<1>2. t.len % 2 \in {0, 1} /\ LEN_ALIGN(t.len) = t.len + (t.len % 2)
  BY Zenon, <1>1, Aligned
<1> QED
  BY <1>1, <1>2 DEF TokenEnd

\* The replay of a chunk stops at the token whose end is the end of the chunk.
LEMMA ReplayedChunk ==
  ASSUME NEW c, Chained(c.tokens), NEW m \in 1..Len(c.tokens), c.end = TokenEnd(c.tokens[m])
  PROVE  /\ Replayed(c) = [k \in 1..m |-> c.tokens[k]]
         /\ Replayed(c) \in Seq(TokenRec) /\ Len(Replayed(c)) = m
         /\ Replayed(c) # Overrun
<1> DEFINE s == c.tokens
           last == {i \in DOMAIN s : TokenEnd(s[i]) = c.end}
<1>1. s \in Seq(TokenRec) /\ DOMAIN s = 1..Len(s) /\ Len(s) \in Nat
  BY DEF Chained
<1>2. \A k \in 1..Len(s) : s[k] \in TokenRec
  BY <1>1
<1>3. \A k \in 1..Len(s) :
        s[k].at \in Nat /\ s[k].len \in Nat /\ TokenEnd(s[k]) \in Nat /\ s[k].at < TokenEnd(s[k])
  BY Zenon, <1>2, TokenFields
<1>4. \A k \in 1..Len(s) : \A j \in 1..(k - 1) : TokenEnd(s[j]) <= s[k].at
  BY Zenon DEF Chained
<1>5. \A j, k \in 1..Len(s) : j < k => TokenEnd(s[j]) # TokenEnd(s[k])
  <2> TAKE j, k \in 1..Len(s)
  <2> HAVE j < k
  <2>1. j \in 1..(k - 1)
    BY <1>1
  <2>2. TokenEnd(s[j]) <= s[k].at
    BY Zenon, <1>4, <2>1
  <2> QED
    BY <1>3, <2>2
<1>6. last = {m}
  <2>1. m \in last
    BY Zenon, <1>1
  <2>2. ASSUME NEW i \in last PROVE i = m
    <3>1. i \in 1..Len(s) /\ TokenEnd(s[i]) = TokenEnd(s[m])
      BY Zenon, <1>1, <2>2
    <3> QED
      BY <1>1, <1>5, <3>1
  <2> QED
    BY Zenon, <2>1, <2>2
<1>7. Min(last) = m
  BY <1>6 DEF Min
<1>8. Replayed(c) = [k \in 1..m |-> s[k]]
  BY Zenon, <1>6, <1>7 DEF Replayed
<1>9. Replayed(c) \in Seq(TokenRec) /\ Len(Replayed(c)) = m
  BY <1>1, <1>8
<1>10. Replayed(c) # Overrun
  <2>1. Replayed(c)[1] = s[1] /\ s[1].len \in Nat
    BY <1>1, <1>3, <1>8
  <2>2. Overrun[1].len = -1
    BY Zenon DEF Overrun, Token
  <2> QED
    BY <2>1, <2>2
<1> QED
  BY Zenon, <1>8, <1>9, <1>10

\* The function that Tokens computes exists.
With(b, r, n) == r \o Replayed(b[n])

\* Tokens appends what is replayed of one chunk after the other.
LEMMA TokensSteps ==
  ASSUME NEW S, NEW b \in Seq(S)
  PROVE  \E g : /\ Tokens(b) = g[Len(b)]
                /\ g[0] = <<>>
                /\ \A j \in 1..Len(b) : g[j] = g[j - 1] \o Replayed(b[j])
<1> DEFINE L == Len(b)
           Steps(g, m) == g = [n \in 0..m |-> IF n = 0 THEN <<>> ELSE With(b, g[n - 1], n)]
           K == {m \in Nat : \E g : Steps(g, m)}
<1>0. L \in Nat
  OBVIOUS
<1>2. 0 \in K
  <2> DEFINE g == [n \in 0..0 |-> <<>>]
  <2>1. Steps(g, 0)
    BY DEF Steps
  <2> QED
    BY Zenon, <2>1
<1>3. ASSUME NEW m \in Nat, m \in K PROVE m + 1 \in K
  <2>1. PICK g : Steps(g, m)
    BY Zenon, <1>3
  <2> DEFINE h == [n \in 0..(m + 1) |-> IF n <= m THEN g[n] ELSE With(b, g[m], m + 1)]
  <2>2. ASSUME NEW n \in 0..(m + 1)
        PROVE  h[n] = IF n = 0 THEN <<>> ELSE With(b, h[n - 1], n)
    <3>1. CASE n = 0
      BY SMTT(20), <2>1, <3>1
    <3>2. CASE n \in 1..m
      <4>1. g[n] = With(b, g[n - 1], n)
        BY <2>1, <3>2
      <4>2. h[n] = g[n] /\ h[n - 1] = g[n - 1]
        BY <3>2
      <4> QED
        BY <3>2, <4>1, <4>2
    <3>3. CASE n = m + 1
      <4>1. h[n] = With(b, g[m], n) /\ h[n - 1] = g[m]
        BY <3>3
      <4> QED
        BY <3>3, <4>1
    <3> QED
      BY <3>1, <3>2, <3>3
  <2>3. h = [n \in 0..(m + 1) |-> IF n = 0 THEN <<>> ELSE With(b, h[n - 1], n)]
    BY Zenon, <2>2
  <2>4. Steps(h, m + 1)
    BY Zenon, <2>3
  <2>5. m + 1 \in Nat
    OBVIOUS
  <2> HIDE DEF h
  <2> QED
    BY Zenon, <2>4, <2>5
<1> HIDE DEF K
<1>4. L \in K
  BY SMTT(20), <1>0, <1>2, <1>3, SetInduction
<1>5. \E g : Steps(g, L)
  BY Zenon, <1>0, <1>4 DEF K
<1> DEFINE after == CHOOSE g : Steps(g, L)
<1>6. Steps(after, L)
  BY Zenon, <1>5
<1>7. Tokens(b) = after[L]
  BY Zenon DEF Tokens, With
<1> HIDE DEF after
<1>8. after[0] = <<>>
  BY <1>0, <1>6
<1>9. \A j \in 1..L : after[j] = With(b, after[j - 1], j)
  BY <1>0, <1>6
<1> QED
  BY Zenon, <1>7, <1>8, <1>9 DEF With

\* The tokens of one more chunk come after the others.
LEMMA TokensAppend ==
  ASSUME NEW p \in Seq(ChunkRec), NEW c \in ChunkRec
  PROVE  Tokens(Append(p, c)) = Tokens(p) \o Replayed(c)
<1> DEFINE b == Append(p, c)
           L == Len(p)
<1>1. b \in Seq(ChunkRec) /\ Len(b) = L + 1 /\ b[L + 1] = c /\ L \in Nat
  OBVIOUS
<1>2. \A j \in 1..L : b[j] = p[j]
  OBVIOUS
<1> HIDE DEF b
<1>3. PICK g : /\ Tokens(p) = g[L]
               /\ g[0] = <<>>
               /\ \A j \in 1..L : g[j] = g[j - 1] \o Replayed(p[j])
  BY Zenon, TokensSteps
<1>4. PICK h : /\ Tokens(b) = h[L + 1]
               /\ h[0] = <<>>
               /\ \A j \in 1..(L + 1) : h[j] = h[j - 1] \o Replayed(b[j])
  BY Zenon, <1>1, TokensSteps
<1> HIDE DEF L
<1> DEFINE K == {m \in Nat : m <= L => h[m] = g[m]}
<1>5. 0 \in K
  BY Zenon, <1>3, <1>4
<1>6. ASSUME NEW m \in Nat, m \in K PROVE m + 1 \in K
  <2> SUFFICES ASSUME m + 1 <= L PROVE h[m + 1] = g[m + 1]
    OBVIOUS
  <2>1. m <= L /\ m + 1 \in 1..L /\ m + 1 \in 1..(L + 1) /\ (m + 1) - 1 = m
    BY <1>1
  <2>2. h[m] = g[m]
    BY Zenon, <1>6, <2>1
  <2>3. h[m + 1] = h[m] \o Replayed(b[m + 1]) /\ g[m + 1] = g[m] \o Replayed(p[m + 1])
    BY Zenon, <1>3, <1>4, <2>1
  <2> QED
    BY Zenon, <1>2, <2>1, <2>2, <2>3
<1> HIDE DEF K
<1>7. L \in K
  BY SMTT(20), <1>1, <1>5, <1>6, SetInduction
<1>8. h[L] = g[L]
  BY <1>1, <1>7 DEF K
<1>9. h[L + 1] = h[L] \o Replayed(b[L + 1])
  <2>1. L + 1 \in 1..(L + 1) /\ (L + 1) - 1 = L
    BY <1>1
  <2> QED
    BY Zenon, <1>4, <2>1
<1> QED
  BY Zenon, <1>1, <1>3, <1>4, <1>8, <1>9 DEF b

\* The tokens of closed chunks, none of which the replay runs past.
LEMMA ClosedReplayed ==
  ASSUME NEW c, ClosedChunk(c)
  PROVE  Replayed(c) \in Seq(TokenRec) /\ Replayed(c) # Overrun
<1>1. PICK m \in 1..Len(c.tokens) : c.end = TokenEnd(c.tokens[m])
  BY Zenon DEF ClosedChunk
<1> QED
  BY Zenon, <1>1, ReplayedChunk DEF ClosedChunk

\* The tokens of closed chunks are tokens.
LEMMA ClosedTokens ==
  ASSUME NEW p \in Seq(ChunkRec), \A i \in 1..Len(p) : ClosedChunk(p[i])
  PROVE  Tokens(p) \in Seq(TokenRec)
<1> DEFINE L == Len(p)
<1>1. L \in Nat
  OBVIOUS
<1>2. PICK g : /\ Tokens(p) = g[L]
               /\ g[0] = <<>>
               /\ \A j \in 1..L : g[j] = g[j - 1] \o Replayed(p[j])
  BY Zenon, TokensSteps
<1> HIDE DEF L
<1> DEFINE K == {m \in Nat : m <= L => g[m] \in Seq(TokenRec)}
<1>3. 0 \in K
  <2>1. g[0] \in Seq(TokenRec)
    BY <1>2
  <2> QED
    BY Zenon, <2>1
<1>4. ASSUME NEW m \in Nat, m \in K PROVE m + 1 \in K
  <2> SUFFICES ASSUME m + 1 <= L PROVE g[m + 1] \in Seq(TokenRec)
    OBVIOUS
  <2>1. m <= L /\ m + 1 \in 1..L /\ (m + 1) - 1 = m
    BY <1>1
  <2>2. g[m] \in Seq(TokenRec)
    BY Zenon, <1>4, <2>1
  <2>3. Replayed(p[m + 1]) \in Seq(TokenRec)
    BY Zenon, <2>1, ClosedReplayed DEF L
  <2>4. g[m + 1] = g[m] \o Replayed(p[m + 1])
    BY Zenon, <1>2, <2>1
  <2> QED
    BY <2>2, <2>3, <2>4
<1> HIDE DEF K
<1>5. L \in K
  BY SMTT(20), <1>1, <1>3, <1>4, SetInduction
<1> QED
  BY <1>1, <1>2, <1>5 DEF K

\* Appending to the second of two sequences is appending to both.
LEMMA ConcatAppend ==
  ASSUME NEW S, NEW P \in Seq(S), NEW f \in Seq(S), NEW t \in S
  PROVE  P \o Append(f, t) = Append(P \o f, t) /\ P \o f \in Seq(S)
<1> DEFINE a == P \o Append(f, t)
           b == Append(P \o f, t)
           N == Len(P) + Len(f) + 1
<1>1. Len(P) \in Nat /\ Len(f) \in Nat /\ a \in Seq(S) /\ b \in Seq(S)
  OBVIOUS
<1>2. Len(a) = N /\ Len(b) = N
  OBVIOUS
<1>3. ASSUME NEW k \in 1..N PROVE a[k] = b[k]
  <2>1. CASE k <= Len(P)
    BY <1>1, <2>1
  <2>2. CASE k > Len(P) /\ k < N
    BY <1>1, <2>2
  <2>3. CASE k = N
    BY <1>1, <2>3
  <2> QED
    BY <1>1, <2>1, <2>2, <2>3
<1> HIDE DEF a, b, N
<1>4. a = b
  BY <1>1, <1>2, <1>3
<1> QED
  BY <1>4 DEF a, b

\* The part of a nonempty sequence before its last element.
Before(s) == [k \in 1..(Len(s) - 1) |-> s[k]]

\* A nonempty sequence is the part before its last element, and that element.
LEMMA SplitLast ==
  ASSUME NEW S, NEW s \in Seq(S), s # <<>>
  PROVE  Before(s) \in Seq(S) /\ LastOf(s) \in S /\ s = Append(Before(s), LastOf(s)) /\ Len(s) \in Nat \ {0}
<1>1. Len(s) \in Nat \ {0} /\ \A k \in 1..Len(s) : s[k] \in S
  OBVIOUS
<1>2. Before(s) \in Seq(S) /\ Len(Before(s)) = Len(s) - 1 /\ \A k \in 1..(Len(s) - 1) : Before(s)[k] = s[k]
  BY <1>1 DEF Before
<1>3. LastOf(s) \in S /\ LastOf(s) = s[Len(s)]
  BY <1>1 DEF LastOf
<1> DEFINE a == Append(Before(s), LastOf(s))
<1>4. a \in Seq(S) /\ Len(a) = Len(s)
  BY <1>1, <1>2, <1>3
<1>5. ASSUME NEW k \in 1..Len(s) PROVE a[k] = s[k]
  BY <1>1, <1>2, <1>3
<1> HIDE DEF a
<1>6. a = s
  BY <1>4, <1>5
<1> QED
  BY Zenon, <1>1, <1>2, <1>3, <1>6 DEF a

\* The chain of the tokens of a chunk: its first token, a longer last token, one token more.
LEMMA ChainedNew ==
  ASSUME NEW u \in TokenRec, u.at = 0, 2 + u.len <= Room
  PROVE  Chained(<<u>>)
<1> DEFINE s == <<u>>
<1>1. s \in Seq(TokenRec) /\ Len(s) = 1 /\ s[1] = u /\ s # <<>>
  OBVIOUS
<1> HIDE DEF s
<1>2. s[1].at = 0 /\ s[1].at % 2 = 0 /\ s[1].at + 2 + s[1].len <= Room
  BY <1>1, TokenFields
<1>3. Chained(s)
  BY <1>1, <1>2 DEF Chained
<1> QED
  BY Zenon, <1>3 DEF s

\* The last token may grow as long as it stays in its chunk (buf_update).
LEMMA ChainedChange ==
  ASSUME NEW s, Chained(s), NEW u \in TokenRec, u.at = LastOf(s).at, u.at + 2 + u.len <= Room
  PROVE  Chained([s EXCEPT ![Len(s)] = u])
<1> DEFINE v == [s EXCEPT ![Len(s)] = u]
           L == Len(s)
<1>1. s \in Seq(TokenRec) /\ s # <<>> /\ L \in Nat \ {0}
  BY DEF Chained
<1>2. v \in Seq(TokenRec) /\ Len(v) = L /\ v[L] = u /\ v # <<>>
  BY <1>1
<1>3. \A k \in 1..(L - 1) : v[k] = s[k]
  BY <1>1
<1>4. u.at = s[L].at
  BY Zenon DEF LastOf
<1>5. \A k \in 1..L : v[k].at = s[k].at
  BY <1>1, <1>2, <1>3, <1>4
<1> HIDE DEF v
<1>6. \A k \in 2..L : v[k].at = TokenEnd(v[k - 1])
  <2> TAKE k \in 2..L
  <2>1. k \in 1..L /\ k - 1 \in 1..(L - 1)
    BY <1>1
  <2>2. s[k].at = TokenEnd(s[k - 1])
    BY Zenon DEF Chained
  <2> QED
    BY Zenon, <1>3, <1>5, <2>1, <2>2
<1>7. \A k \in 1..L : \A j \in 1..(k - 1) : TokenEnd(v[j]) <= v[k].at
  <2> TAKE k \in 1..L
  <2> TAKE j \in 1..(k - 1)
  <2>1. j \in 1..(L - 1)
    BY <1>1
  <2>2. TokenEnd(s[j]) <= s[k].at
    BY Zenon DEF Chained
  <2> QED
    BY Zenon, <1>3, <1>5, <2>1, <2>2
<1>8. \A k \in 1..L : v[k].at % 2 = 0 /\ v[k].at + 2 + v[k].len <= Room
  <2> TAKE k \in 1..L
  <2>1. s[k].at % 2 = 0 /\ s[k].at + 2 + s[k].len <= Room
    BY Zenon DEF Chained
  <2>2. CASE k = L
    BY Zenon, <1>2, <1>4, <2>1, <2>2
  <2>3. CASE k # L
    <3>1. k \in 1..(L - 1)
      BY <1>1, <2>3
    <3> QED
      BY Zenon, <1>3, <2>1, <3>1
  <2> QED
    BY Zenon, <2>2, <2>3
<1>9. v[1].at = 0
  BY <1>1, <1>5 DEF Chained
<1>10. Chained(v)
  BY Zenon, <1>2, <1>6, <1>7, <1>8, <1>9 DEF Chained
<1> QED
  BY Zenon, <1>10 DEF v

\* A token may follow where the last one ends (field_flush).
LEMMA ChainedAppend ==
  ASSUME NEW s, Chained(s), NEW u \in TokenRec, u.at = TokenEnd(LastOf(s)), u.at + 2 + u.len <= Room
  PROVE  Chained(Append(s, u))
<1> DEFINE v == Append(s, u)
           L == Len(s)
<1>1. s \in Seq(TokenRec) /\ s # <<>> /\ L \in Nat \ {0} /\ \A k \in 1..L : s[k] \in TokenRec
  BY DEF Chained
<1>2. v \in Seq(TokenRec) /\ Len(v) = L + 1 /\ v[L + 1] = u /\ v # <<>>
  BY <1>1
<1>3. \A k \in 1..L : v[k] = s[k]
  BY <1>1
<1>4. u.at = TokenEnd(s[L])
  BY Zenon DEF LastOf
<1>5. s[L] \in TokenRec /\ s[L].at \in Nat /\ s[L].len \in Nat /\ TokenEnd(s[L]) \in Nat /\ s[L].at < TokenEnd(s[L])
      /\ TokenEnd(s[L]) % 2 = 0
  <2>1. s[L] \in TokenRec /\ s[L].at % 2 = 0
    BY <1>1 DEF Chained
  <2>2. s[L].len \in Nat /\ TokenEnd(s[L]) = s[L].at + 2 + LEN_ALIGN(s[L].len) /\ s[L].at \in Nat
    BY Zenon, <2>1, TokenFields DEF TokenEnd
  <2>3. LEN_ALIGN(s[L].len) \in Nat /\ LEN_ALIGN(s[L].len) % 2 = 0
    BY Zenon, <2>2, Aligned
  <2>4. \A a, b \in Nat : a % 2 = 0 /\ b % 2 = 0 => (a + 2 + b) % 2 = 0
    OBVIOUS
  <2> QED
    BY Zenon, <2>1, <2>2, <2>3, <2>4, TokenFields
<1> HIDE DEF v
<1>6. \A k \in 2..(L + 1) : v[k].at = TokenEnd(v[k - 1])
  <2> TAKE k \in 2..(L + 1)
  <2>1. CASE k = L + 1
    <3>1. k - 1 = L /\ L \in 1..L
      BY <1>1, <2>1
    <3> QED
      BY Zenon, <1>2, <1>3, <1>4, <2>1, <3>1
  <2>2. CASE k # L + 1
    <3>1. k \in 2..L /\ k \in 1..L /\ k - 1 \in 1..L
      BY <1>1, <2>2
    <3>2. s[k].at = TokenEnd(s[k - 1])
      BY Zenon, <3>1 DEF Chained
    <3> QED
      BY Zenon, <1>3, <3>1, <3>2
  <2> QED
    BY Zenon, <2>1, <2>2
<1>7. \A k \in 1..(L + 1) : \A j \in 1..(k - 1) : TokenEnd(v[j]) <= v[k].at
  <2> TAKE k \in 1..(L + 1)
  <2> TAKE j \in 1..(k - 1)
  <2>0. j \in 1..L /\ v[j] = s[j] /\ TokenEnd(s[j]) \in Nat
    <3>1. j \in 1..L
      BY <1>1
    <3>2. v[j] = s[j]
      BY Zenon, <1>3, <3>1
    <3>3. s[j] \in TokenRec
      BY <1>1, <3>1
    <3> QED
      BY Zenon, <3>1, <3>2, <3>3, TokenFields
  <2>1. CASE k = L + 1 /\ j = L
    BY <1>2, <1>4, <2>0, <2>1
  <2>2. CASE k = L + 1 /\ j # L
    <3>1. j \in 1..(L - 1) /\ L \in 1..L
      BY <1>1, <2>0, <2>2
    <3>2. TokenEnd(s[j]) <= s[L].at
      BY Zenon, <3>1 DEF Chained
    <3> QED
      BY <1>2, <1>4, <1>5, <2>0, <2>2, <3>2
  <2>3. CASE k # L + 1
    <3>1. k \in 1..L
      BY <1>1, <2>3
    <3>2. TokenEnd(s[j]) <= s[k].at
      BY Zenon, <3>1 DEF Chained
    <3> QED
      BY Zenon, <1>3, <2>0, <3>1, <3>2
  <2> QED
    BY Zenon, <2>1, <2>2, <2>3
<1>8. \A k \in 1..(L + 1) : v[k].at % 2 = 0 /\ v[k].at + 2 + v[k].len <= Room
  <2> TAKE k \in 1..(L + 1)
  <2>1. CASE k = L + 1
    BY Zenon, <1>2, <1>4, <1>5, <2>1
  <2>2. CASE k # L + 1
    <3>1. k \in 1..L
      BY <1>1, <2>2
    <3> QED
      BY Zenon, <1>3, <3>1 DEF Chained
  <2> QED
    BY Zenon, <2>1, <2>2
<1>9. v[1].at = 0
  BY <1>1, <1>3 DEF Chained
<1>10. Chained(v)
  BY Zenon, <1>2, <1>6, <1>7, <1>8, <1>9 DEF Chained
<1> QED
  BY Zenon, <1>10 DEF v

\* The last chunk of a buffer and its last token.
LEMMA BufferTail ==
  ASSUME NEW b, NEW p, NEW c, Buffer(b, p, c)
  PROVE  /\ b \in Seq(ChunkRec) /\ b # <<>> /\ Len(b) = Len(p) + 1 /\ LastOf(b) = c /\ Len(p) \in Nat
         /\ \A k \in 1..Len(p) : b[k] = p[k]
         /\ \A d \in ChunkRec : [b EXCEPT ![Len(b)] = d] = Append(p, d)
<1>1. p \in Seq(ChunkRec) /\ c \in ChunkRec /\ b = Append(p, c)
  BY Zenon DEF Buffer, OpenChunk
<1>2. b \in Seq(ChunkRec) /\ b # <<>> /\ Len(b) = Len(p) + 1 /\ b[Len(b)] = c /\ Len(p) \in Nat
  BY <1>1
<1>3. \A k \in 1..Len(p) : b[k] = p[k]
  BY <1>1
<1>4. ASSUME NEW d \in ChunkRec PROVE [b EXCEPT ![Len(b)] = d] = Append(p, d)
  <2> DEFINE x == [b EXCEPT ![Len(b)] = d]
             y == Append(p, d)
  <2>1. x \in Seq(ChunkRec) /\ y \in Seq(ChunkRec) /\ Len(x) = Len(p) + 1 /\ Len(y) = Len(p) + 1
    BY <1>1, <1>2
  <2>2. ASSUME NEW k \in 1..(Len(p) + 1) PROVE x[k] = y[k]
    <3>1. CASE k = Len(p) + 1
      BY <1>1, <1>2, <3>1
    <3>2. CASE k # Len(p) + 1
      <4>1. k \in 1..Len(p)
        BY <1>2, <3>2
      <4>2. x[k] = b[k]
        BY <1>2, <4>1
      <4>3. y[k] = p[k]
        BY <1>1, <4>1
      <4> QED
        BY Zenon, <1>3, <4>1, <4>2, <4>3
    <3> QED
      BY Zenon, <3>1, <3>2
  <2> HIDE DEF x, y
  <2>3. x = y
    BY <2>1, <2>2
  <2> QED
    BY Zenon, <2>3 DEF x, y
<1> QED
  BY Zenon, <1>2, <1>3, <1>4 DEF LastOf

\* The fields of the open chunk.
LEMMA OpenFields ==
  ASSUME NEW c, OpenChunk(c)
  PROVE  LET s == c.tokens
             t == LastOf(s)
         IN /\ s \in Seq(TokenRec) /\ s # <<>> /\ Len(s) \in Nat \ {0} /\ t = s[Len(s)]
            /\ t \in TokenRec /\ t.at \in Nat /\ t.len \in Nat /\ t.len <= MaxToken
            /\ c.end = t.at + 2 + t.len /\ c.end \in Nat /\ c.end <= Room /\ t.at % 2 = 0
            /\ c = [tokens |-> s, end |-> c.end] /\ c \in ChunkRec
<1> DEFINE s == c.tokens
           t == LastOf(s)
<1>1. s \in Seq(TokenRec) /\ s # <<>> /\ c \in ChunkRec /\ c.end = t.at + 2 + t.len
  BY Zenon DEF OpenChunk, Chained
<1>2. Len(s) \in Nat \ {0} /\ t = s[Len(s)] /\ t \in TokenRec
  BY <1>1 DEF LastOf
<1>3. t.at \in Nat /\ t.len \in Nat /\ t.len <= MaxToken
  BY Zenon, <1>2, TokenFields
<1>4. t.at % 2 = 0 /\ t.at + 2 + t.len <= Room
  BY <1>2 DEF OpenChunk, Chained
<1>5. c = [tokens |-> s, end |-> c.end]
  BY Zenon, <1>1 DEF ChunkRec
<1> QED
  BY <1>1, <1>2, <1>3, <1>4, <1>5

\* What render finds in a buffer: the tokens of the closed chunks and all of the open one's.
LEMMA LiveBuffer ==
  ASSUME NEW b, NEW p, NEW c, Buffer(b, p, c)
  PROVE  /\ Tokens(p) \in Seq(TokenRec)
         /\ Live(b) = Tokens(p) \o c.tokens
         /\ Live(b) \in Seq(TokenRec) /\ Len(Live(b)) = Len(Tokens(p)) + Len(c.tokens)
         /\ \A i \in DOMAIN AlignEnd(b) : Replayed(AlignEnd(b)[i]) # Overrun
<1> DEFINE s == c.tokens
           t == LastOf(s)
           d == [c EXCEPT !.end = @ + (t.len % 2)]
<1>1. p \in Seq(ChunkRec) /\ (\A i \in 1..Len(p) : ClosedChunk(p[i])) /\ OpenChunk(c)
  BY Zenon DEF Buffer
<1>2. /\ s \in Seq(TokenRec) /\ Len(s) \in Nat \ {0} /\ t = s[Len(s)] /\ t \in TokenRec
      /\ t.at \in Nat /\ t.len \in Nat /\ c.end = t.at + 2 + t.len /\ c \in ChunkRec
  BY Zenon, <1>1, OpenFields
<1>3. t.len % 2 \in {0, 1} /\ TokenEnd(t) = t.at + 2 + t.len + (t.len % 2)
  <2> HIDE DEF t
  <2>1. t.len % 2 \in {0, 1}
    BY Zenon, <1>2, Aligned
  <2>2. TokenEnd(t) = t.at + 2 + t.len + (t.len % 2)
    BY Zenon, <1>2, TokenFields
  <2> QED
    BY Zenon, <2>1, <2>2
<1>4. d \in ChunkRec /\ d.tokens = s /\ d.end = TokenEnd(s[Len(s)])
  <2>1. c.end \in Nat
    BY Zenon, <1>1, OpenFields
  <2>2. c.end + (t.len % 2) = TokenEnd(t) /\ c.end + (t.len % 2) \in Nat
    <3> HIDE DEF t
    <3> QED
      BY <1>2, <1>3, <2>1
  <2>3. d \in ChunkRec /\ d.tokens = s /\ d.end = c.end + (t.len % 2)
    BY Zenon, <1>2, <2>2 DEF ChunkRec
  <2> QED
    BY Zenon, <1>2, <2>2, <2>3
<1>5. AlignEnd(b) = Append(p, d)
  <2>1. b \in Seq(ChunkRec) /\ b # <<>> /\ LastOf(b) = c /\ [b EXCEPT ![Len(b)] = d] = Append(p, d)
    BY <1>4, BufferTail
  <2>2. AlignEnd(b) = [b EXCEPT ![Len(b)].end = @ + (t.len % 2)]
    BY Zenon, <2>1 DEF AlignEnd
  <2>3. b[Len(b)] = c /\ Len(b) \in DOMAIN b
    BY <2>1 DEF LastOf
  <2>4. AlignEnd(b) = [b EXCEPT ![Len(b)] = d]
    BY Zenon, <2>2, <2>3
  <2> QED
    BY Zenon, <2>1, <2>4
<1> HIDE DEF d
<1>6. Chained(d.tokens)
  BY Zenon, <1>1, <1>4 DEF OpenChunk
<1>7. Replayed(d) = [k \in 1..Len(s) |-> s[k]] /\ Replayed(d) # Overrun
  <2>1. Len(s) \in 1..Len(s)
    BY <1>2
  <2>2. Len(s) \in 1..Len(d.tokens) /\ d.end = TokenEnd(d.tokens[Len(s)])
    BY Zenon, <1>4, <2>1
  <2>3. Replayed(d) = [k \in 1..Len(s) |-> d.tokens[k]] /\ Replayed(d) # Overrun
    BY Zenon, <1>6, <2>2, ReplayedChunk
  <2> QED
    BY Zenon, <1>4, <2>3
<1>8. Replayed(d) = s
  <2> HIDE DEF s
  <2>1. s = [k \in 1..Len(s) |-> s[k]]
    BY <1>2
  <2> QED
    BY Zenon, <1>7, <2>1
<1>9. Tokens(p) \in Seq(TokenRec)
  BY Zenon, <1>1, ClosedTokens
<1>10. Live(b) = Tokens(p) \o s
  BY Zenon, <1>1, <1>4, <1>5, <1>8, TokensAppend DEF Live
<1>11. ASSUME NEW i \in DOMAIN AlignEnd(b) PROVE Replayed(AlignEnd(b)[i]) # Overrun
  <2>1. i \in 1..(Len(p) + 1)
    BY <1>1, <1>4, <1>5
  <2>2. CASE i = Len(p) + 1
    <3>1. AlignEnd(b)[i] = d
      BY <1>1, <1>4, <1>5, <2>2
    <3> QED
      BY Zenon, <1>7, <3>1
  <2>3. CASE i # Len(p) + 1
    <3>1. i \in 1..Len(p) /\ AlignEnd(b)[i] = p[i]
      BY <1>1, <1>4, <1>5, <2>1, <2>3
    <3> QED
      BY Zenon, <1>1, <3>1, ClosedReplayed
  <2> QED
    BY Zenon, <2>2, <2>3
<1> QED
  BY <1>2, <1>9, <1>10, <1>11

\* The last token that render finds is the one being written.
LEMMA LiveLast ==
  ASSUME NEW b, NEW p, NEW c, Buffer(b, p, c)
  PROVE  /\ Tokens(p) \o Before(c.tokens) \in Seq(TokenRec)
         /\ LastOf(c.tokens) \in TokenRec
         /\ Live(b) = Append(Tokens(p) \o Before(c.tokens), LastOf(c.tokens))
<1>1. c.tokens \in Seq(TokenRec) /\ c.tokens # <<>>
  BY Zenon, OpenFields DEF Buffer
<1>2. /\ Before(c.tokens) \in Seq(TokenRec) /\ LastOf(c.tokens) \in TokenRec
      /\ c.tokens = Append(Before(c.tokens), LastOf(c.tokens))
  BY Zenon, <1>1, SplitLast
<1>3. Tokens(p) \in Seq(TokenRec) /\ Live(b) = Tokens(p) \o c.tokens
  BY Zenon, LiveBuffer
<1>4. /\ Tokens(p) \o Append(Before(c.tokens), LastOf(c.tokens))
           = Append(Tokens(p) \o Before(c.tokens), LastOf(c.tokens))
      /\ Tokens(p) \o Before(c.tokens) \in Seq(TokenRec)
  BY Zenon, <1>2, <1>3, ConcatAppend
<1> QED
  BY Zenon, <1>2, <1>3, <1>4

\* The tokens of the open chunk may be the last of a longer chain.
LEMMA LongerToken ==
  ASSUME NEW s \in Seq(TokenRec), s # <<>>, NEW u \in TokenRec
  PROVE  /\ Before([s EXCEPT ![Len(s)] = u]) = Before(s) /\ LastOf([s EXCEPT ![Len(s)] = u]) = u
         /\ Len([s EXCEPT ![Len(s)] = u]) = Len(s)
<1>1. Len(s) \in Nat \ {0}
  OBVIOUS
<1> DEFINE v == [s EXCEPT ![Len(s)] = u]
<1>2. Len(v) = Len(s) /\ v[Len(s)] = u /\ \A k \in 1..(Len(s) - 1) : v[k] = s[k]
  BY <1>1
<1> HIDE DEF v
<1>3. Before(v) = Before(s) /\ LastOf(v) = u
  BY Zenon, <1>2 DEF Before, LastOf
<1> QED
  BY Zenon, <1>2, <1>3 DEF v

\* buf_update where the token stays in its chunk.
LEMMA StoredBuffer ==
  ASSUME NEW b, NEW p, NEW c, Buffer(b, p, c), NEW n \in Nat, Fits(c, n)
  PROVE  \E e : /\ Buffer(Stored(b, n), p, e)
                /\ Before(e.tokens) = Before(c.tokens)
                /\ LastOf(e.tokens).len = MinNat(LastOf(c.tokens).len + n, MaxToken)
<1> DEFINE s == c.tokens
           t == LastOf(s)
           len == MinNat(MinNat(n, Avail(c)), MaxToken - t.len)
           u == Token(t.at, t.len + len)
           e == [tokens |-> [s EXCEPT ![Len(s)] = u], end |-> c.end + len]
<1>1. OpenChunk(c) /\ p \in Seq(ChunkRec) /\ Chained(s)
  BY Zenon DEF Buffer, OpenChunk
<1>2. /\ s \in Seq(TokenRec) /\ s # <<>> /\ Len(s) \in Nat \ {0} /\ t = s[Len(s)] /\ t \in TokenRec
      /\ t.at \in Nat /\ t.len \in Nat /\ t.len <= MaxToken
      /\ c.end = t.at + 2 + t.len /\ c.end \in Nat /\ c.end <= Room /\ t.at % 2 = 0
  BY Zenon, <1>1, OpenFields
<1>3. Room \in Nat /\ MaxToken \in Nat /\ MaxToken + 2 < Room
  BY Zenon, OutAssumption
<1>4. PICK at \in Nat, old \in Nat, end \in Nat : t.at = at /\ t.len = old /\ c.end = end
  BY Zenon, <1>2
<1>5. old <= MaxToken /\ end = at + 2 + old /\ end <= Room /\ Avail(c) = Room - end
  BY Zenon, <1>2, <1>4 DEF Avail
<1>6. n < Room - end \/ at = 0
  <2>1. CASE n < Avail(c)
    BY Zenon, <1>5, <2>1
  <2>2. CASE Len(s) = 1
    BY Zenon, <1>1, <1>2, <1>4, <2>2 DEF Chained
  <2> QED
    BY Zenon, <2>1, <2>2 DEF Fits
<1> HIDE DEF s, t
<1>15. len = MinNat(MinNat(n, Room - end), MaxToken - old)
  BY Zenon, <1>4, <1>5
<1> HIDE DEF len
<1>16. len \in Nat /\ len <= Room - end /\ old + len = MinNat(old + n, MaxToken) /\ old + len <= MaxToken
  <2>1. old <= MaxToken /\ end = at + 2 + old /\ end <= Room
    BY Zenon, <1>5
  <2> QED
    BY <1>3, <1>6, <1>15, <2>1 DEF MinNat
<1>17. old + len \in 0..MaxToken /\ at + 2 + (old + len) <= Room /\ end + len \in Nat /\ end + len = at + 2 + (old + len)
  BY <1>3, <1>5, <1>16
<1>18. u = Token(at, old + len)
  BY Zenon, <1>4
<1> HIDE DEF u
<1>7. u \in TokenRec /\ u.at = at /\ u.len = old + len
  BY Zenon, <1>17, <1>18 DEF Token, TokenRec
<1>8. u.at = t.at /\ u.at + 2 + u.len <= Room /\ c.end + len = end + len /\ end + len = u.at + 2 + u.len
  BY Zenon, <1>4, <1>7, <1>17
<1>9. Chained([s EXCEPT ![Len(s)] = u])
  BY Zenon, <1>1, <1>7, <1>8, ChainedChange DEF t
<1>10. /\ Before([s EXCEPT ![Len(s)] = u]) = Before(s) /\ LastOf([s EXCEPT ![Len(s)] = u]) = u
  BY Zenon, <1>2, <1>7, LongerToken
<1>11. e \in ChunkRec /\ e.tokens = [s EXCEPT ![Len(s)] = u] /\ e.end = end + len
  BY Zenon, <1>8, <1>9, <1>17 DEF ChunkRec, Chained
<1>12. OpenChunk(e)
  BY Zenon, <1>8, <1>9, <1>10, <1>11 DEF OpenChunk
<1>13. Stored(b, n) = Append(p, e)
  <2>1. LastOf(b) = c /\ \A d \in ChunkRec : [b EXCEPT ![Len(b)] = d] = Append(p, d)
    BY Zenon, BufferTail
  <2>2. Stored(b, n) = [b EXCEPT ![Len(b)] = e]
    BY Zenon, <2>1 DEF Stored, SetCur, len, u, s, t
  <2> HIDE DEF e
  <2> QED
    BY Zenon, <1>11, <2>1, <2>2
<1> HIDE DEF e
<1>14. Buffer(Stored(b, n), p, e)
  BY Zenon, <1>12, <1>13 DEF Buffer
<1>19. LastOf(e.tokens).len = MinNat(LastOf(c.tokens).len + n, MaxToken)
  BY Zenon, <1>4, <1>7, <1>10, <1>11, <1>16 DEF s, t
<1> QED
  BY Zenon, <1>10, <1>11, <1>14, <1>19 DEF s

\* One closed chunk more.
LEMMA ClosedAppend ==
  ASSUME NEW p \in Seq(ChunkRec), \A i \in 1..Len(p) : ClosedChunk(p[i]), NEW d, ClosedChunk(d)
  PROVE  Append(p, d) \in Seq(ChunkRec) /\ \A i \in 1..Len(Append(p, d)) : ClosedChunk(Append(p, d)[i])
<1>1. d \in ChunkRec
  BY Zenon DEF ClosedChunk
<1>2. Append(p, d) \in Seq(ChunkRec) /\ Len(Append(p, d)) = Len(p) + 1 /\ Len(p) \in Nat
  BY <1>1
<1>3. ASSUME NEW i \in 1..(Len(p) + 1) PROVE ClosedChunk(Append(p, d)[i])
  <2>1. CASE i = Len(p) + 1
    <3>1. Append(p, d)[i] = d
      BY <1>1, <1>2, <2>1
    <3> QED
      BY Zenon, <3>1
  <2>2. CASE i # Len(p) + 1
    <3>1. i \in 1..Len(p) /\ Append(p, d)[i] = p[i]
      BY <1>1, <1>2, <2>2
    <3> QED
      BY Zenon, <3>1
  <2> QED
    BY Zenon, <2>1, <2>2
<1> QED
  BY Zenon, <1>2, <1>3

\* The place before the last of a longer sequence.
LEMMA BeforeLast ==
  ASSUME NEW m \in Nat \ {0}, m # 1
  PROVE  m \in 2..m /\ m - 1 \in 1..m
OBVIOUS

\* The token that is being written has been moved from the chunk c to e, and d is what c is now.
MovedTo(b, p, c, d, e) ==
  /\ Buffer(Moved(b), Append(p, d), e)
  /\ Tokens(Append(p, d)) = Tokens(p) \o Before(c.tokens)
  /\ Len(e.tokens) = 1 /\ Before(e.tokens) = <<>>
  /\ LastOf(e.tokens).len = LastOf(c.tokens).len

\* buf_update where the token moves to a chunk of its own.
LEMMA MovedBuffer ==
  ASSUME NEW b, NEW p, NEW c, Buffer(b, p, c), Len(c.tokens) # 1
  PROVE  \E d, e : MovedTo(b, p, c, d, e)
<1> DEFINE s == c.tokens
           t == LastOf(s)
           d == [c EXCEPT !.end = @ - (t.len + 2)]
           u == Token(0, t.len)
           e == [tokens |-> <<u>>, end |-> 2 + t.len]
<1>1. OpenChunk(c) /\ p \in Seq(ChunkRec) /\ Chained(s) /\ \A i \in 1..Len(p) : ClosedChunk(p[i])
  BY Zenon DEF Buffer, OpenChunk
<1>2. /\ s \in Seq(TokenRec) /\ s # <<>> /\ Len(s) \in Nat \ {0} /\ t = s[Len(s)] /\ t \in TokenRec
      /\ t.at \in Nat /\ t.len \in Nat /\ t.len <= MaxToken
      /\ c.end = t.at + 2 + t.len /\ c.end \in Nat /\ c.end <= Room /\ c \in ChunkRec
  BY Zenon, <1>1, OpenFields
<1>3. Room \in Nat /\ MaxToken \in Nat /\ MaxToken + 2 < Room
  BY Zenon, OutAssumption
<1>4. PICK at \in Nat, old \in Nat, end \in Nat : t.at = at /\ t.len = old /\ c.end = end
  BY Zenon, <1>2
<1>5. old <= MaxToken /\ end = at + 2 + old /\ end <= Room
  BY Zenon, <1>2, <1>4
<1>6. end - (old + 2) = at /\ at <= Room /\ 2 + old <= Room /\ old \in 0..MaxToken /\ 2 + old \in Nat /\ 0 + 2 + old = 2 + old
  BY <1>3, <1>5
<1>7. d \in ChunkRec /\ d.tokens = s /\ d.end = at
  BY Zenon, <1>2, <1>4, <1>6 DEF ChunkRec
<1>8. Len(s) - 1 \in 1..Len(s) /\ at = TokenEnd(s[Len(s) - 1])
  <2> HIDE DEF s
  <2>1. Len(s) # 1
    BY Zenon DEF s
  <2>2. Len(s) \in 2..Len(s) /\ Len(s) - 1 \in 1..Len(s)
    <3>1. Len(s) \in Nat \ {0}
      BY Zenon, <1>2
    <3> QED
      BY Zenon, <2>1, <3>1, BeforeLast
  <2>3. s[Len(s)].at = TokenEnd(s[Len(s) - 1])
    BY Zenon, <1>1, <2>2 DEF Chained
  <2> QED
    BY Zenon, <1>2, <1>4, <2>2, <2>3
<1>9. u \in TokenRec /\ u.at = 0 /\ u.len = old
  BY Zenon, <1>4, <1>6 DEF Token, TokenRec
<1>10. e \in ChunkRec /\ e.tokens = <<u>> /\ e.end = 2 + old
  BY <1>4, <1>6, <1>9 DEF ChunkRec
<1>11. LastOf(b) = c /\ b \in Seq(ChunkRec) /\ b # <<>> /\ \A x \in ChunkRec : [b EXCEPT ![Len(b)] = x] = Append(p, x)
  BY Zenon, BufferTail
<1>12. Moved(b) = Append(Append(p, d), e)
  <2>1. Moved(b) = Append([b EXCEPT ![Len(b)].end = @ - (t.len + 2)], e)
    BY Zenon, <1>11 DEF Moved
  <2>2. b[Len(b)] = c /\ Len(b) \in DOMAIN b
    BY <1>11 DEF LastOf
  <2>3. [b EXCEPT ![Len(b)].end = @ - (t.len + 2)] = [b EXCEPT ![Len(b)] = d]
    BY Zenon, <2>2
  <2> HIDE DEF d, e
  <2> QED
    BY Zenon, <1>7, <1>11, <2>1, <2>3
<1> HIDE DEF d, e, u, s, t
<1>13. ClosedChunk(d)
  BY Zenon, <1>1, <1>6, <1>7, <1>8 DEF ClosedChunk
<1>14. Replayed(d) = [k \in 1..(Len(s) - 1) |-> s[k]]
  <2>1. Chained(d.tokens) /\ Len(s) - 1 \in 1..Len(d.tokens) /\ d.end = TokenEnd(d.tokens[Len(s) - 1])
    BY Zenon, <1>1, <1>7, <1>8
  <2>2. Replayed(d) = [k \in 1..(Len(s) - 1) |-> d.tokens[k]]
    BY Zenon, <2>1, ReplayedChunk
  <2> QED
    BY Zenon, <1>7, <2>2
<1>15. Tokens(Append(p, d)) = Tokens(p) \o Before(s)
  BY Zenon, <1>1, <1>7, <1>14, TokensAppend DEF Before
<1>16. LastOf(e.tokens) = u /\ Before(e.tokens) = <<>>
  BY <1>10 DEF LastOf, Before
<1>17. Chained(e.tokens)
  BY Zenon, <1>6, <1>9, <1>10, ChainedNew
<1>18. OpenChunk(e)
  BY Zenon, <1>6, <1>9, <1>10, <1>16, <1>17 DEF OpenChunk
<1>19. Append(p, d) \in Seq(ChunkRec) /\ \A i \in 1..Len(Append(p, d)) : ClosedChunk(Append(p, d)[i])
  BY Zenon, <1>1, <1>13, ClosedAppend
<1>20. Buffer(Moved(b), Append(p, d), e)
  BY Zenon, <1>12, <1>18, <1>19 DEF Buffer
<1>21. Len(e.tokens) = 1 /\ LastOf(e.tokens).len = LastOf(c.tokens).len
  BY Zenon, <1>4, <1>9, <1>10, <1>16 DEF s, t
<1> QED
  BY Zenon, <1>15, <1>16, <1>20, <1>21 DEF s, MovedTo

\* There is a buffer; its last token, and no other, has got n bytes more.
IsBuffer(b) == \E p, c : Buffer(b, p, c)
Lengthened(a, b, n) ==
  \E R \in Seq(TokenRec), t, u \in TokenRec :
    a = Append(R, t) /\ b = Append(R, u) /\ u.len = MinNat(t.len + n, MaxToken)

\* buf_update leaves a buffer in which only the last token has changed: it is longer by all n bytes,
\* or cut at the longest there is.
LEMMA UpdatedBuffer ==
  ASSUME NEW b, IsBuffer(b), NEW n \in Nat
  PROVE  IsBuffer(buf_update(b, n)) /\ Lengthened(Live(b), Live(buf_update(b, n)), n)
<1>0. PICK p, c : Buffer(b, p, c)
  BY Zenon DEF IsBuffer
<1> DEFINE t == LastOf(c.tokens)
           R == Tokens(p) \o Before(c.tokens)
<1>1. R \in Seq(TokenRec) /\ t \in TokenRec /\ Live(b) = Append(R, t)
  BY Zenon, <1>0, LiveLast
<1>2. LastOf(b) = c
  BY Zenon, <1>0, BufferTail
<1>3. CASE Fits(c, n)
  <2>1. PICK e : /\ Buffer(Stored(b, n), p, e)
                 /\ Before(e.tokens) = Before(c.tokens)
                 /\ LastOf(e.tokens).len = MinNat(t.len + n, MaxToken)
    BY <1>0, <1>3, StoredBuffer
  <2>2. /\ LastOf(e.tokens) \in TokenRec
        /\ Live(Stored(b, n)) = Append(Tokens(p) \o Before(e.tokens), LastOf(e.tokens))
    BY Zenon, <2>1, LiveLast
  <2>3. buf_update(b, n) = Stored(b, n)
    BY Zenon, <1>2, <1>3 DEF buf_update
  <2> HIDE DEF t
  <2> QED
    BY Zenon, <1>1, <2>1, <2>2, <2>3 DEF IsBuffer, Lengthened
<1>4. CASE ~Fits(c, n)
  <2>1. Len(c.tokens) # 1
    BY Zenon, <1>4 DEF Fits
  <2>6. PICK d, e : MovedTo(b, p, c, d, e)
    BY Zenon, <1>0, <2>1, MovedBuffer
  <2>2. /\ Buffer(Moved(b), Append(p, d), e)
        /\ Tokens(Append(p, d)) = R
        /\ Len(e.tokens) = 1 /\ Before(e.tokens) = <<>>
        /\ LastOf(e.tokens).len = t.len
    BY Zenon, <2>6 DEF MovedTo
  <2>3. Len(e.tokens) = 1
    BY Zenon, <2>2
  <2>4. Fits(e, n)
    BY Zenon, <2>3 DEF Fits
  <2>5. PICK x : /\ Buffer(Stored(Moved(b), n), Append(p, d), x)
                 /\ Before(x.tokens) = Before(e.tokens)
                 /\ LastOf(x.tokens).len = MinNat(LastOf(e.tokens).len + n, MaxToken)
    BY <2>2, <2>4, StoredBuffer
  <2>10. /\ LastOf(x.tokens) \in TokenRec
        /\ Live(Stored(Moved(b), n)) = Append(Tokens(Append(p, d)) \o Before(x.tokens), LastOf(x.tokens))
    BY Zenon, <2>5, LiveLast
  <2>7. buf_update(b, n) = Stored(Moved(b), n)
    BY Zenon, <1>2, <1>4 DEF buf_update
  <2>8. R \o <<>> = R
    <3> HIDE DEF R
    <3> QED
      BY <1>1
  <2>9. LastOf(x.tokens).len = MinNat(t.len + n, MaxToken) /\ Live(buf_update(b, n)) = Append(R, LastOf(x.tokens))
    BY Zenon, <2>2, <2>5, <2>10, <2>7, <2>8
  <2> HIDE DEF t, R
  <2> QED
    BY Zenon, <1>1, <2>5, <2>10, <2>7, <2>9 DEF IsBuffer, Lengthened
<1> QED
  BY Zenon, <1>3, <1>4

\* The chunk that a new buffer begins with.
LEMMA NewOpen == /\ OpenChunk(NewChunk) /\ NewChunk.tokens = <<Token(0, 0)>>
                 /\ Token(0, 0) \in TokenRec /\ Token(0, 0).len = 0
<1> DEFINE u == Token(0, 0)
<1>1. Room \in Nat /\ MaxToken \in Nat /\ MaxToken + 2 < Room
  BY Zenon, OutAssumption
<1>2. u \in TokenRec /\ u.at = 0 /\ u.len = 0 /\ 2 + 0 <= Room
  BY <1>1 DEF Token, TokenRec
<1>3. NewChunk.tokens = <<u>> /\ NewChunk.end = 2 /\ NewChunk \in ChunkRec
  BY <1>2 DEF NewChunk, ChunkRec
<1> HIDE DEF u
<1>4. Chained(<<u>>)
  BY Zenon, <1>2, ChainedNew
<1>5. LastOf(<<u>>) = u
  BY Zenon DEF LastOf
<1>6. OpenChunk(NewChunk)
  BY <1>2, <1>3, <1>4, <1>5 DEF OpenChunk
<1> QED
  BY Zenon, <1>2, <1>3, <1>6 DEF u

\* A new buffer holds one empty token.
LEMMA NewBuffer == IsBuffer(<<NewChunk>>) /\ Live(<<NewChunk>>) = <<Token(0, 0)>>
<1>1. Buffer(<<NewChunk>>, <<>>, NewChunk)
  <2>1. <<>> \in Seq(ChunkRec) /\ Len(<<>>) = 0 /\ <<NewChunk>> = Append(<<>>, NewChunk)
    OBVIOUS
  <2>2. \A i \in 1..Len(<<>>) : ClosedChunk(<<>>[i])
    BY <2>1
  <2> QED
    BY Zenon, <2>1, <2>2, NewOpen DEF Buffer
<1>2. Live(<<NewChunk>>) = Tokens(<<>>) \o NewChunk.tokens
  BY Zenon, <1>1, LiveBuffer
<1>3. Tokens(<<>>) = <<>>
  <2>1. <<>> \in Seq(ChunkRec) /\ Len(<<>>) = 0
    OBVIOUS
  <2>2. PICK g : /\ Tokens(<<>>) = g[Len(<<>>)] /\ g[0] = <<>>
    BY Zenon, <2>1, TokensSteps
  <2> QED
    BY Zenon, <2>1, <2>2
<1>4. <<>> \o <<Token(0, 0)>> = <<Token(0, 0)>>
  OBVIOUS
<1> QED
  BY Zenon, <1>1, <1>2, <1>3, <1>4, NewOpen DEF IsBuffer

\* field_flush never finds less than no room: the unsigned subtraction does not wrap.
LEMMA FlushLeft ==
  ASSUME NEW at \in Nat, at % 2 = 0, NEW len \in Nat, at + 2 + len <= Room
  PROVE  0 <= Room - (at + 2 + len) - (len % 2)
<1>1. Room \in Nat /\ Room % 2 = 0
  BY Zenon, OutAssumption
<1>2. PICK r \in Nat, a \in Nat : Room = 2 * r /\ at = 2 * a
  BY <1>1
<1>3. CASE len % 2 = 0
  BY <1>1, <1>3
<1>4. CASE len % 2 = 1
  <2>1. PICK l \in Nat : len = 2 * l + 1
    BY <1>4
  <2> QED
    BY <1>1, <1>2, <1>4, <2>1
<1>5. len % 2 = 0 \/ len % 2 = 1
  OBVIOUS
<1> QED
  BY Zenon, <1>3, <1>4, <1>5

\* field_flush leaves a buffer with an empty token more, in the same chunk or in a new one.
LEMMA FlushedBuffer ==
  ASSUME IsBuffer(chunks)
  PROVE  IsBuffer(field_flush) /\ \E u \in TokenRec : u.len = 0 /\ Live(field_flush) = Append(Live(chunks), u)
<1>0. PICK p, c : Buffer(chunks, p, c)
  BY Zenon DEF IsBuffer
<1> DEFINE s == c.tokens
           t == LastOf(s)
           pad == t.len % 2
           d == [c EXCEPT !.end = @ + pad]
           u == Token(TokenEnd(t), 0)
           e == [tokens |-> Append(s, u), end |-> TokenEnd(t) + 2]
           spare == Room - c.end - pad
<1>1. OpenChunk(c) /\ p \in Seq(ChunkRec) /\ Chained(s) /\ \A i \in 1..Len(p) : ClosedChunk(p[i])
  BY Zenon, <1>0 DEF Buffer, OpenChunk
<1>2. /\ s \in Seq(TokenRec) /\ s # <<>> /\ Len(s) \in Nat \ {0} /\ t = s[Len(s)] /\ t \in TokenRec
      /\ t.at \in Nat /\ t.len \in Nat /\ t.at % 2 = 0 /\ c \in ChunkRec
      /\ c.end = t.at + 2 + t.len /\ c.end \in Nat /\ c.end <= Room
  BY Zenon, <1>1, OpenFields
<1>3. tail = c /\ cur = t /\ \A x \in ChunkRec : SetTail(x) = Append(p, x)
  BY Zenon, <1>0, BufferTail DEF tail, cur, SetTail
<1>4. TokenEnd(t) = t.at + 2 + t.len + pad /\ TokenEnd(t) \in Nat
  BY Zenon, <1>2, TokenFields
<1>5. PICK at \in Nat, old \in Nat, end \in Nat, te \in Nat :
        t.at = at /\ t.len = old /\ c.end = end /\ TokenEnd(t) = te
  BY Zenon, <1>2, <1>4
<1>6. at % 2 = 0 /\ end = at + 2 + old /\ end <= Room /\ te = end + (old % 2)
  BY Zenon, <1>2, <1>4, <1>5
<1>7. spare = Room - te /\ 0 <= spare /\ te \in Nat /\ Room \in Nat
  <2>1. 0 <= Room - (at + 2 + old) - (old % 2)
    BY Zenon, <1>6, FlushLeft
  <2>2. spare = Room - end - (old % 2)
    BY Zenon, <1>5
  <2>3. Room \in Nat /\ old % 2 \in {0, 1}
    BY OutAssumption
  <2> HIDE DEF spare
  <2> QED
    BY <1>6, <2>1, <2>2, <2>3
<1>8. Live(chunks) = Tokens(p) \o s /\ Tokens(p) \in Seq(TokenRec)
  BY Zenon, <1>0, LiveBuffer
<1>9. CASE spare < 2
  <2>1. d \in ChunkRec /\ d.tokens = s /\ d.end = te
    <3>1. c.end + pad = te
      BY Zenon, <1>4, <1>2, <1>5
    <3> HIDE DEF pad
    <3> QED
      BY Zenon, <1>2, <3>1 DEF ChunkRec
  <2>2. field_flush = Append(Append(p, d), NewChunk)
    <3>1. [tail EXCEPT !.end = @ + pad] = d /\ Avail(tail) - pad = spare /\ cur.len % 2 = pad
      BY Zenon, <1>3 DEF Avail
    <3> HIDE DEF d, spare, pad
    <3> QED
      BY Zenon, <1>3, <1>7, <1>9, <2>1, <3>1 DEF field_flush
  <2> HIDE DEF d, s, t
  <2>3. Len(s) \in 1..Len(s) /\ te = TokenEnd(s[Len(s)])
    BY <1>2, <1>5
  <2>4. te <= Room
    BY <1>7 DEF spare
  <2>5. Chained(d.tokens) /\ Len(s) \in 1..Len(d.tokens) /\ d.end = TokenEnd(d.tokens[Len(s)]) /\ d.end <= Room
    BY Zenon, <1>1, <2>1, <2>3, <2>4
  <2>6. ClosedChunk(d)
    BY Zenon, <2>1, <2>5 DEF ClosedChunk
  <2>7. Replayed(d) = [k \in 1..Len(s) |-> d.tokens[k]]
    BY Zenon, <2>5, ReplayedChunk
  <2>8. Replayed(d) = s
    <3>1. s = [k \in 1..Len(s) |-> s[k]]
      BY <1>2
    <3> QED
      BY Zenon, <2>1, <2>7, <3>1
  <2>9. Tokens(Append(p, d)) = Tokens(p) \o s
    BY Zenon, <1>1, <2>1, <2>8, TokensAppend
  <2>10. Append(p, d) \in Seq(ChunkRec) /\ \A i \in 1..Len(Append(p, d)) : ClosedChunk(Append(p, d)[i])
    BY Zenon, <1>1, <2>6, ClosedAppend
  <2>11. Buffer(field_flush, Append(p, d), NewChunk)
    BY Zenon, <2>2, <2>10, NewOpen DEF Buffer
  <2>12. Live(field_flush) = (Tokens(p) \o s) \o <<Token(0, 0)>>
    BY Zenon, <2>9, <2>11, LiveBuffer, NewOpen
  <2>13. (Tokens(p) \o s) \o <<Token(0, 0)>> = Append(Tokens(p) \o s, Token(0, 0))
    <3>1. Tokens(p) \o s \in Seq(TokenRec)
      BY <1>2, <1>8
    <3> QED
      BY <3>1, NewOpen
  <2> QED
    BY Zenon, <1>8, <2>11, <2>12, <2>13, NewOpen DEF IsBuffer
<1>10. CASE ~(spare < 2)
  <2>1. te + 2 <= Room /\ te + 2 + 0 <= Room /\ te + 2 \in Nat /\ te + 2 + 0 = te + 2 /\ 0 \in 0..MaxToken
    <3>1. 2 <= spare
      <4> HIDE DEF spare
      <4> QED
        BY <1>7, <1>10
    <3> HIDE DEF spare
    <3> QED
      BY <1>7, <3>1, OutAssumption
  <2>2. u = Token(te, 0)
    BY Zenon, <1>5
  <2>3. u \in TokenRec /\ u.at = te /\ u.len = 0
    <3> HIDE DEF u
    <3> QED
      BY Zenon, <2>1, <2>2 DEF Token, TokenRec
  <2>4. field_flush = SetTail(e)
    <3>1. Avail(tail) - pad = spare /\ cur.len % 2 = pad
      BY Zenon, <1>3 DEF Avail
    <3> HIDE DEF spare, pad
    <3> QED
      BY Zenon, <1>3, <1>10, <3>1 DEF field_flush
  <2> HIDE DEF u
  <2>5. e.tokens = Append(s, u) /\ e.end = te + 2
    BY Zenon, <1>5
  <2>6. e \in ChunkRec
    BY <1>2, <1>5, <2>1, <2>3 DEF ChunkRec
  <2> HIDE DEF e, s
  <2>7. Chained(Append(s, u))
    BY Zenon, <1>1, <1>5, <2>1, <2>3, ChainedAppend
  <2>8. LastOf(Append(s, u)) = u
    BY <1>2, <2>3 DEF LastOf
  <2>9. OpenChunk(e)
    <3>1. e.end = u.at + 2 + u.len
      BY Zenon, <2>1, <2>3, <2>5
    <3> QED
      BY Zenon, <2>5, <2>6, <2>7, <2>8, <3>1 DEF OpenChunk
  <2>10. field_flush = Append(p, e)
    BY Zenon, <1>3, <2>4, <2>6
  <2>11. Buffer(field_flush, p, e)
    BY Zenon, <1>1, <2>9, <2>10 DEF Buffer
  <2>12. Live(field_flush) = Tokens(p) \o Append(s, u)
    BY Zenon, <2>5, <2>11, LiveBuffer
  <2>13. Tokens(p) \o Append(s, u) = Append(Tokens(p) \o s, u)
    <3>1. s \in Seq(TokenRec) /\ Tokens(p) \in Seq(TokenRec) /\ u \in TokenRec
      BY Zenon, <1>2, <1>8, <2>3
    <3> QED
      BY <3>1, ConcatAppend
  <2> QED
    BY Zenon, <1>8, <2>3, <2>11, <2>12, <2>13 DEF IsBuffer
<1> QED
  BY Zenon, <1>9, <1>10

\* Every token of a buffer lies within its chunk.
LEMMA BufferWithin ==
  ASSUME chunks = <<>> \/ IsBuffer(chunks)
  PROVE  WithinChunk
<1>1. CASE chunks = <<>>
  BY <1>1 DEF WithinChunk
<1>2. CASE IsBuffer(chunks)
  <2>1. PICK p, c : Buffer(chunks, p, c)
    BY Zenon, <1>2 DEF IsBuffer
  <2>2. /\ chunks \in Seq(ChunkRec) /\ Len(chunks) = Len(p) + 1 /\ Len(p) \in Nat
        /\ LastOf(chunks) = c /\ \A k \in 1..Len(p) : chunks[k] = p[k]
    BY Zenon, <2>1, BufferTail
  <2>3. ASSUME NEW i \in 1..Len(chunks)
        PROVE  chunks[i] \in ChunkRec /\ Chained(chunks[i].tokens) /\ chunks[i].end <= Room
    <3>1. CASE i = Len(p) + 1
      <4>1. chunks[i] = c
        BY Zenon, <2>2, <3>1 DEF LastOf
      <4> QED
        BY Zenon, <2>1, <4>1, OpenFields DEF Buffer, OpenChunk
    <3>2. CASE i # Len(p) + 1
      <4>1. i \in 1..Len(p)
        BY <2>2, <3>2
      <4> QED
        BY Zenon, <2>1, <2>2, <4>1 DEF Buffer, ClosedChunk
    <3> QED
      BY Zenon, <3>1, <3>2
  <2>4. ASSUME NEW i \in 1..Len(chunks)
        PROVE  /\ 0 <= chunks[i].end /\ chunks[i].end <= Room
               /\ \A k \in DOMAIN chunks[i].tokens :
                    /\ chunks[i].tokens[k].at % 2 = 0
                    /\ chunks[i].tokens[k].at + 2 + chunks[i].tokens[k].len <= Room
    <3>1. chunks[i].end \in Nat /\ chunks[i].tokens \in Seq(TokenRec)
      BY Zenon, <2>3 DEF ChunkRec
    <3>2. DOMAIN chunks[i].tokens = 1..Len(chunks[i].tokens) /\ 0 <= chunks[i].end
      BY <3>1
    <3> QED
      BY Zenon, <2>3, <3>2 DEF Chained
  <2>5. DOMAIN chunks = 1..Len(chunks)
    BY <2>2
  <2> QED
    BY Zenon, <2>4, <2>5 DEF WithinChunk
<1> QED
  BY Zenon, <1>1, <1>2

----------------------------------------------------------------------------
(* The replay: the columns that are shown are the set V.                   *)

CellRec == [row : Nat, col : Nat, len : 0..MaxToken]
PlaceOf(x) == [row |-> x.row, col |-> x.col]

Shown(V) == V \subseteq Columns /\ COL_MAX \in V
FirstOf(V) == [row |-> 1, col |-> Min(V)]
After(V, x) ==
  LET right == {c \in V : c > x.col}
  IN IF right = {} THEN [row |-> x.row + 1, col |-> Min(V)] ELSE [row |-> x.row, col |-> Min(right)]

\* The place of the first shown column from f on, in line r.
Rest(V, f) == {c \in V : c >= f}
From(V, r, f) == [row |-> r, col |-> Min(Rest(V, f))]

\* The fields w are in the places that the replay gives them; the next one will be in Due.
Due(V, w) == IF w = <<>> THEN FirstOf(V) ELSE After(V, LastOf(w))
Walked(V, w) ==
  /\ w \in Seq(CellRec)
  /\ \A k \in 1..Len(w) : PlaceOf(w[k]) = IF k = 1 THEN FirstOf(V) ELSE After(V, w[k - 1])
SameLens(w, T) == \A k \in 1..Len(w) : w[k].len = T[k].len

\* The fields w are the tokens T, and the last is that of line r and column f.
Caught(V, w, T, r, f) ==
  /\ Walked(V, w) /\ Len(w) = Len(T) /\ SameLens(w, T)
  /\ w # <<>> /\ PlaceOf(LastOf(w)) = [row |-> r, col |-> f]

\* Either that, or the last token is still empty and its field has not been written.
InStep(V, T, w, r, f) ==
  \/ f \in V /\ Caught(V, w, T, r, f)
  \/ /\ Walked(V, w) /\ SameLens(w, T)
     /\ Len(T) = Len(w) + 1 /\ T[Len(T)].len = 0
     /\ From(V, r, f) = Due(V, w)

\* The first shown column from f on.
LEMMA FromColumn ==
  ASSUME NEW V, Shown(V), NEW f \in Columns
  PROVE  /\ Rest(V, f) # {} /\ Min(Rest(V, f)) \in V /\ Min(Rest(V, f)) >= f
         /\ f \in V => Min(Rest(V, f)) = f
         /\ f \notin V => Rest(V, f) = Rest(V, f + 1)
<1> DEFINE S == {c \in V : c >= f}
<1>1. V \subseteq Nat /\ COL_MAX \in V /\ f \in Nat /\ COL_MAX >= f
  BY OutAssumption DEF Shown, Columns
<1>2. S \subseteq Nat /\ S # {}
  BY Zenon, <1>1
<1>3. Min(S) \in S /\ \A y \in S : Min(S) <= y
  <2> HIDE DEF S
  <2> QED
    BY Zenon, <1>2, MinOf
<1>4. Min(S) \in V /\ Min(S) >= f
  <2> DEFINE m == Min(S)
  <2> HIDE DEF m
  <2>1. m \in S
    BY Zenon, <1>3 DEF m
  <2>2. m \in V /\ m >= f
    BY Zenon, <2>1
  <2> QED
    BY Zenon, <2>2 DEF m
<1>5. ASSUME f \in V PROVE Min(S) = f
  <2> DEFINE m == Min(S)
  <2>1. f \in S
    BY <1>1, <1>5
  <2>2. m <= f /\ m >= f /\ m \in Nat
    BY Zenon, <1>1, <1>3, <1>4, <2>1
  <2> HIDE DEF m
  <2>3. m = f
    BY <1>1, <2>2
  <2> QED
    BY Zenon, <2>3 DEF m
<1>6. ASSUME f \notin V PROVE S = {c \in V : c >= f + 1}
  <2>1. \A c \in V : c >= f <=> c >= f + 1
    BY <1>1, <1>6
  <2> QED
    BY Zenon, <2>1
<1> QED
  BY Zenon, <1>2, <1>4, <1>5, <1>6 DEF Rest

\* The place after that of a shown column is the first one from the next column on.
LEMMA AfterColumn ==
  ASSUME NEW V, Shown(V), NEW x, NEW r \in Nat, NEW f \in Columns, PlaceOf(x) = [row |-> r, col |-> f]
  PROVE  /\ f # COL_MAX => After(V, x) = From(V, r, f + 1)
         /\ f = COL_MAX => After(V, x) = From(V, r + 1, 1)
         /\ After(V, x) # [row |-> r, col |-> f]
<1>1. x.row = r /\ x.col = f
  BY Zenon DEF PlaceOf
<1>2. V \subseteq Nat /\ V \subseteq 1..COL_MAX /\ COL_MAX \in V /\ f \in Nat /\ f \in 1..COL_MAX /\ COL_MAX \in Nat
  BY OutAssumption DEF Shown, Columns
<1>3. {c \in V : c > f} = Rest(V, f + 1)
  <2>1. \A c \in V : c > f <=> c >= f + 1
    BY <1>2
  <2> QED
    BY Zenon, <2>1 DEF Rest
<1>4. CASE f # COL_MAX
  <2>1. f + 1 \in Columns
    BY <1>2, <1>4 DEF Columns
  <2> DEFINE S == Rest(V, f + 1)
  <2>2. S # {} /\ Min(S) >= f + 1 /\ Min(S) \in Nat
    <3>1. S # {} /\ Min(S) \in V /\ Min(S) >= f + 1
      BY Zenon, <2>1, FromColumn
    <3>2. Min(S) \in Nat
      <4> HIDE DEF S
      <4> QED
        BY Zenon, <1>2, <3>1
    <3> QED
      BY Zenon, <3>1, <3>2
  <2>3. After(V, x) = [row |-> r, col |-> Min(S)]
    BY Zenon, <1>1, <1>3, <2>2 DEF After
  <2> DEFINE m == Min(S)
  <2>4. m # f
    <3>1. m >= f + 1 /\ m \in Nat
      BY Zenon, <2>2
    <3> HIDE DEF m
    <3> QED
      BY <1>2, <3>1
  <2> HIDE DEF m
  <2>5. After(V, x) = [row |-> r, col |-> m]
    BY Zenon, <2>3 DEF m
  <2>6. After(V, x) # [row |-> r, col |-> f]
    BY <2>4, <2>5
  <2>7. After(V, x) = From(V, r, f + 1)
    BY Zenon, <2>3 DEF From
  <2> QED
    BY Zenon, <1>4, <2>6, <2>7
<1>5. CASE f = COL_MAX
  <2>1. {c \in V : c > f} = {}
    <3>1. \A c \in V : ~(c > f)
      BY <1>2, <1>5
    <3> QED
      BY Zenon, <3>1
  <2>2. Rest(V, 1) = V
    <3>1. \A c \in V : c >= 1
      BY <1>2
    <3> QED
      BY Zenon, <3>1 DEF Rest
  <2>3. After(V, x) = [row |-> r + 1, col |-> Min(V)]
    BY Zenon, <1>1, <2>1 DEF After
  <2>4. After(V, x) = From(V, r + 1, 1)
    BY Zenon, <2>2, <2>3 DEF From
  <2>5. After(V, x) # [row |-> r, col |-> f]
    <3>1. r + 1 # r
      OBVIOUS
    <3>2. After(V, x).row = r + 1
      BY <2>3
    <3> QED
      BY <3>1, <3>2
  <2> QED
    BY Zenon, <1>5, <2>4, <2>5
<1> QED
  BY Zenon, <1>4, <1>5

\* A field more, in the place that is due.
LEMMA WalkedAppend ==
  ASSUME NEW V, NEW w, Walked(V, w), NEW x \in CellRec, PlaceOf(x) = Due(V, w)
  PROVE  Walked(V, Append(w, x))
<1> DEFINE a == Append(w, x)
           L == Len(w)
<1>1. w \in Seq(CellRec) /\ L \in Nat /\ a \in Seq(CellRec) /\ Len(a) = L + 1
  BY DEF Walked
<1>2. a[L + 1] = x /\ \A k \in 1..L : a[k] = w[k]
  BY <1>1
<1>6. w = <<>> <=> L = 0
  BY <1>1
<1> HIDE DEF a, L
<1>3. ASSUME NEW k \in 1..(L + 1)
      PROVE  PlaceOf(a[k]) = IF k = 1 THEN FirstOf(V) ELSE After(V, a[k - 1])
  <2>1. CASE k # L + 1
    <3>1. k \in 1..L /\ a[k] = w[k] /\ (k # 1 => k - 1 \in 1..L)
      BY <1>1, <1>2, <2>1
    <3>2. k # 1 => a[k - 1] = w[k - 1]
      BY Zenon, <1>2, <3>1
    <3>3. PlaceOf(w[k]) = IF k = 1 THEN FirstOf(V) ELSE After(V, w[k - 1])
      BY Zenon, <3>1 DEF Walked, L
    <3> QED
      BY Zenon, <3>1, <3>2, <3>3
  <2>2. CASE k = L + 1 /\ L = 0
    <3>1. w = <<>> /\ k = 1 /\ a[k] = x
      BY <1>2, <1>6, <2>2
    <3> QED
      BY Zenon, <3>1 DEF Due
  <2>3. CASE k = L + 1 /\ L # 0
    <3>1. w # <<>> /\ k # 1 /\ a[k] = x /\ k - 1 = L /\ L \in 1..L
      BY <1>1, <1>2, <1>6, <2>3
    <3>2. a[k - 1] = LastOf(w)
      BY Zenon, <1>2, <3>1 DEF LastOf, L
    <3> QED
      BY Zenon, <3>1, <3>2 DEF Due
  <2> QED
    BY Zenon, <2>1, <2>2, <2>3
<1> QED
  BY Zenon, <1>1, <1>3 DEF Walked, a

\* Cell catches up with the token that is being written.
LEMMA CellInCaught ==
  ASSUME NEW V, Shown(V), NEW m \in V, row \in Nat, NEW T \in Seq(TokenRec), NEW w, InStep(V, T, w, row, m)
  PROVE  Caught(V, CellIn(w, m), T, row, m)
<1>1. m \in Columns /\ m \in Nat
  BY OutAssumption DEF Shown, Columns
<1> DEFINE here == [row |-> row, col |-> m]
           there == w # <<>> /\ LastOf(w).row = row /\ LastOf(w).col = m
           x == [row |-> row, col |-> m, len |-> 0]
<1>2. CASE Caught(V, w, T, row, m)
  <2>1. w # <<>> /\ PlaceOf(LastOf(w)) = here
    BY Zenon, <1>2 DEF Caught
  <2>2. LastOf(w).row = row /\ LastOf(w).col = m
    BY Zenon, <2>1 DEF PlaceOf
  <2>3. CellIn(w, m) = w
    BY Zenon, <2>1, <2>2 DEF CellIn
  <2> QED
    BY Zenon, <1>2, <2>3
<1>3. CASE /\ Walked(V, w) /\ SameLens(w, T)
           /\ Len(T) = Len(w) + 1 /\ T[Len(T)].len = 0
           /\ From(V, row, m) = Due(V, w)
  <2>1. From(V, row, m) = here
    BY Zenon, <1>1, FromColumn DEF From
  <2>2. ~there
    <3>1. SUFFICES ASSUME there PROVE FALSE
      BY Zenon
    <3>2. PlaceOf(LastOf(w)) = here
      BY Zenon, <3>1 DEF PlaceOf
    <3>3. After(V, LastOf(w)) # here
      BY <1>1, <3>2, AfterColumn
    <3> QED
      BY Zenon, <1>3, <2>1, <3>1, <3>3 DEF Due
  <2>3. CellIn(w, m) = Append(w, x)
    BY Zenon, <2>2 DEF CellIn
  <2>4. x \in CellRec /\ PlaceOf(x) = here
    BY <1>1, OutAssumption DEF CellRec, PlaceOf
  <2>5. x.len = 0
    BY Zenon
  <2> HIDE DEF x, here
  <2>6. Walked(V, Append(w, x))
    BY Zenon, <1>3, <2>1, <2>4, WalkedAppend
  <2>7. w \in Seq(CellRec) /\ Len(w) \in Nat /\ Len(Append(w, x)) = Len(w) + 1 /\ Append(w, x) # <<>>
    BY <1>3, <2>4 DEF Walked
  <2>8. Append(w, x)[Len(w) + 1] = x /\ \A k \in 1..Len(w) : Append(w, x)[k] = w[k]
    BY <2>4, <2>7
  <2>9. LastOf(Append(w, x)) = x
    BY Zenon, <2>7, <2>8 DEF LastOf
  <2>10. ASSUME NEW k \in 1..(Len(w) + 1) PROVE Append(w, x)[k].len = T[k].len
    <3>1. CASE k = Len(w) + 1
      BY Zenon, <1>3, <2>5, <2>8, <3>1
    <3>2. CASE k # Len(w) + 1
      <4>1. k \in 1..Len(w)
        BY <2>7, <3>2
      <4> QED
        BY Zenon, <1>3, <2>8, <4>1 DEF SameLens
    <3> QED
      BY Zenon, <3>1, <3>2
  <2>11. SameLens(Append(w, x), T)
    BY Zenon, <2>7, <2>10 DEF SameLens
  <2> QED
    BY Zenon, <1>3, <2>3, <2>4, <2>6, <2>7, <2>9, <2>11 DEF Caught, here
<1> QED
  BY Zenon, <1>2, <1>3 DEF InStep

\* The same for the current field.
LEMMA CellCaught ==
  ASSUME NEW V, Shown(V), field \in V, row \in Nat, NEW T \in Seq(TokenRec), NEW w, InStep(V, T, w, row, field)
  PROVE  Caught(V, Cell(w), T, row, field)
BY Zenon, CellInCaught DEF Cell

\* From a column that is not shown on, the last token is that of the next shown column.
LEMMA InStepShown ==
  ASSUME NEW V, Shown(V), NEW T, NEW w, NEW r, NEW f \in Columns, InStep(V, T, w, r, f)
  PROVE  Min(Rest(V, f)) \in V /\ InStep(V, T, w, r, Min(Rest(V, f)))
<1> DEFINE m == Min(Rest(V, f))
<1>1. m \in V /\ (f \in V => m = f)
  BY Zenon, FromColumn
<1>2. m \in Columns
  BY Zenon, <1>1 DEF Shown
<1>3. Min(Rest(V, m)) = m
  BY Zenon, <1>1, <1>2, FromColumn
<1>4. From(V, r, m) = From(V, r, f)
  BY Zenon, <1>3 DEF From
<1> HIDE DEF m
<1>5. InStep(V, T, w, r, m)
  BY Zenon, <1>1, <1>4 DEF InStep
<1> QED
  BY Zenon, <1>1, <1>5 DEF m

\* A new buffer is in step with no field at all.
LEMMA FreshInStep ==
  ASSUME NEW V, Shown(V), NEW f \in Columns, \A c \in V : c >= f
  PROVE  InStep(V, <<Token(0, 0)>>, <<>>, 1, f)
<1> DEFINE T == <<Token(0, 0)>>
<1>1. Len(T) = 1 /\ T[Len(T)].len = 0 /\ Len(<<>>) = 0 /\ Len(T) = Len(<<>>) + 1
  BY NewOpen
<1>2. Walked(V, <<>>) /\ SameLens(<<>>, T)
  BY DEF Walked, SameLens
<1>3. Rest(V, f) = V
  BY Zenon DEF Rest
<1>4. From(V, 1, f) = Due(V, <<>>)
  BY Zenon, <1>3 DEF From, Due, FirstOf
<1> HIDE DEF T
<1>5. InStep(V, T, <<>>, 1, f)
  BY Zenon, <1>1, <1>2, <1>4 DEF InStep
<1> QED
  BY Zenon, <1>5 DEF T

\* The last field grows with its token.
LEMMA CaughtLonger ==
  ASSUME NEW V, NEW w, NEW r, NEW f, NEW n \in Nat, NEW R \in Seq(TokenRec), NEW t \in TokenRec, NEW u \in TokenRec,
         Caught(V, w, Append(R, t), r, f), u.len = MinNat(t.len + n, MaxToken)
  PROVE  Caught(V, [w EXCEPT ![Len(w)].len = MinNat(@ + n, MaxToken)], Append(R, u), r, f)
<1> DEFINE x == w[Len(w)]
           y == [x EXCEPT !.len = u.len]
           v == [w EXCEPT ![Len(w)] = y]
           L == Len(w)
<1>1. /\ w \in Seq(CellRec) /\ w # <<>> /\ L \in Nat \ {0} /\ L = Len(R) + 1 /\ Len(R) \in Nat
      /\ Len(Append(R, t)) = L /\ Len(Append(R, u)) = L
      /\ Append(R, t)[L] = t /\ Append(R, u)[L] = u
      /\ \A k \in 1..(L - 1) : Append(R, t)[k] = R[k] /\ Append(R, u)[k] = R[k]
  <2>1. w \in Seq(CellRec) /\ w # <<>> /\ Len(w) = Len(Append(R, t))
    BY Zenon DEF Caught, Walked
  <2>2. Len(Append(R, t)) = Len(R) + 1 /\ Len(Append(R, u)) = Len(R) + 1 /\ Len(R) \in Nat
    OBVIOUS
  <2>3. L = Len(R) + 1
    BY Zenon, <2>1, <2>2
  <2> HIDE DEF L
  <2> QED
    BY <2>1, <2>2, <2>3
<1>2. x \in CellRec /\ x.len = t.len
  <2>1. L \in 1..L
    BY <1>1
  <2>2. w[L].len = Append(R, t)[L].len
    BY Zenon, <2>1 DEF Caught, SameLens
  <2> QED
    BY <1>1, <2>1, <2>2
<1>3. y \in CellRec /\ PlaceOf(y) = PlaceOf(x) /\ y.len = u.len /\ y.row = x.row /\ y.col = x.col
  <2>1. u.len \in 0..MaxToken
    BY Zenon, TokenFields
  <2> HIDE DEF x
  <2> QED
    BY Zenon, <1>2, <2>1 DEF CellRec, PlaceOf
<1>4. [w EXCEPT ![Len(w)].len = MinNat(@ + n, MaxToken)] = v
  BY Zenon, <1>1, <1>2
<1>5. v \in Seq(CellRec) /\ Len(v) = L /\ v[L] = y /\ \A k \in 1..(L - 1) : v[k] = w[k]
  <2> HIDE DEF y
  <2> QED
    BY <1>1, <1>3
<1> HIDE DEF v, y, x
<1>6. v # <<>> /\ LastOf(v) = y /\ LastOf(w) = x
  BY Zenon, <1>1, <1>5 DEF LastOf, x
<1>7. \A k \in 1..L : PlaceOf(v[k]) = PlaceOf(w[k]) /\ v[k].row = w[k].row /\ v[k].col = w[k].col
  <2>1. ASSUME NEW k \in 1..L PROVE k = L \/ k \in 1..(L - 1)
    BY <1>1
  <2> QED
    BY Zenon, <1>3, <1>5, <2>1 DEF x
<1>8. \A a, b : a.row = b.row /\ a.col = b.col => After(V, a) = After(V, b)
  BY Zenon DEF After
<1>9. ASSUME NEW k \in 1..L
      PROVE  PlaceOf(v[k]) = IF k = 1 THEN FirstOf(V) ELSE After(V, v[k - 1])
  <2>1. PlaceOf(w[k]) = IF k = 1 THEN FirstOf(V) ELSE After(V, w[k - 1])
    BY Zenon DEF Caught, Walked
  <2>2. k # 1 => k - 1 \in 1..L
    BY <1>1
  <2> QED
    BY Zenon, <1>7, <1>8, <2>1, <2>2
<1>10. ASSUME NEW k \in 1..L PROVE v[k].len = Append(R, u)[k].len
  <2>1. CASE k = L
    BY Zenon, <1>1, <1>3, <1>5, <2>1
  <2>2. CASE k # L
    <3>1. k \in 1..(L - 1)
      BY <1>1, <2>2
    <3>2. w[k].len = Append(R, t)[k].len
      BY Zenon DEF Caught, SameLens
    <3> QED
      BY Zenon, <1>1, <1>5, <3>1, <3>2
  <2> QED
    BY Zenon, <2>1, <2>2
<1>11. PlaceOf(LastOf(v)) = [row |-> r, col |-> f]
  BY Zenon, <1>3, <1>6 DEF Caught
<1> HIDE DEF L
<1>12. Caught(V, v, Append(R, u), r, f)
  <2>1. Walked(V, v)
    BY Zenon, <1>5, <1>9 DEF Walked
  <2>2. SameLens(v, Append(R, u))
    BY Zenon, <1>5, <1>10 DEF SameLens
  <2>3. Len(v) = Len(Append(R, u))
    BY Zenon, <1>1, <1>5
  <2> QED
    BY Zenon, <1>6, <1>11, <2>1, <2>2, <2>3 DEF Caught
<1> QED
  BY Zenon, <1>4, <1>12

\* field_flush: the next token is due in the next shown column, and is empty.
LEMMA CaughtNext ==
  ASSUME NEW V, Shown(V), NEW w, NEW T \in Seq(TokenRec), NEW u \in TokenRec, u.len = 0,
         NEW r \in Nat, NEW f \in Columns, Caught(V, w, T, r, f)
  PROVE  /\ f # COL_MAX => InStep(V, Append(T, u), w, r, f + 1)
         /\ f = COL_MAX => InStep(V, Append(T, u), w, r + 1, 1)
<1> DEFINE A == Append(T, u)
<1>1. Walked(V, w) /\ Len(w) = Len(T) /\ SameLens(w, T) /\ w # <<>> /\ PlaceOf(LastOf(w)) = [row |-> r, col |-> f]
  BY Zenon DEF Caught
<1>2. Len(A) = Len(T) + 1 /\ A[Len(T) + 1] = u /\ Len(T) \in Nat /\ \A k \in 1..Len(T) : A[k] = T[k]
  OBVIOUS
<1> HIDE DEF A
<1>3. Len(A) = Len(w) + 1 /\ A[Len(A)].len = 0
  BY Zenon, <1>1, <1>2
<1>4. SameLens(w, A)
  BY Zenon, <1>1, <1>2 DEF SameLens
<1>5. Due(V, w) = After(V, LastOf(w))
  BY Zenon, <1>1 DEF Due
<1>6. /\ f # COL_MAX => From(V, r, f + 1) = Due(V, w)
      /\ f = COL_MAX => From(V, r + 1, 1) = Due(V, w)
  <2> DEFINE x == LastOf(w)
  <2> HIDE DEF x
  <2>1. PlaceOf(x) = [row |-> r, col |-> f] /\ Due(V, w) = After(V, x)
    BY Zenon, <1>1, <1>5 DEF x
  <2>2. /\ f # COL_MAX => After(V, x) = From(V, r, f + 1)
        /\ f = COL_MAX => After(V, x) = From(V, r + 1, 1)
    BY ZenonT(60), <2>1, AfterColumn
  <2> QED
    BY Zenon, <2>1, <2>2
<1> QED
  BY Zenon, <1>1, <1>3, <1>4, <1>6 DEF InStep, A

\* A column that is not shown is passed without a token.
LEMMA SkippedColumn ==
  ASSUME NEW V, Shown(V), NEW T, NEW w, NEW r, NEW f \in Columns, f \notin V, InStep(V, T, w, r, f)
  PROVE  InStep(V, T, w, r, f + 1)
<1>1. Rest(V, f) = Rest(V, f + 1)
  BY Zenon, FromColumn
<1>2. From(V, r, f) = From(V, r, f + 1)
  BY Zenon, <1>1 DEF From
<1> QED
  BY Zenon, <1>2 DEF InStep

\* The columns of the code are such a set.
LEMMA ShownVisible ==
  ASSUME setup \in Setups
  PROVE  /\ Shown(Visible) /\ \A c \in Columns : Disabled(c) <=> c \notin Visible
         /\ FirstPlace = FirstOf(Visible) /\ \A x : NextPlace(x) = After(Visible, x)
<1>1. setup.disabled \subseteq 1..(COL_MAX - 1) /\ COL_MAX \in Nat \ {0}
  BY Zenon, OutAssumption
<1>2. COL_MAX \in Columns /\ COL_MAX \notin 1..(COL_MAX - 1)
  BY <1>1 DEF Columns
<1>3. Shown(Visible)
  BY Zenon, <1>1, <1>2 DEF Shown, Visible, Disabled
<1>4. \A c \in Columns : Disabled(c) <=> c \notin Visible
  BY Zenon DEF Visible
<1>5. FirstPlace = FirstOf(Visible) /\ \A x : NextPlace(x) = After(Visible, x)
  BY Zenon DEF FirstPlace, FirstOf, NextPlace, After
<1> QED
  BY Zenon, <1>3, <1>4, <1>5

\* The replay has no choice: the fields that are caught up with the tokens are what it prints.
LEMMA CellsCaught ==
  ASSUME setup \in Setups, NEW T \in Seq(TokenRec), NEW w, NEW r, NEW f, Caught(Visible, w, T, r, f)
  PROVE  Cells(T) = w
<1> DEFINE L == Len(T)
           Put(g, k) == CellAt(IF k = 1 THEN FirstPlace ELSE NextPlace(g[k - 1]), T[k].len)
           Steps(g) == g = [k \in DOMAIN T |-> Put(g, k)]
           cell == CHOOSE g : Steps(g)
<1>1. w \in Seq(CellRec) /\ Len(w) = L /\ L \in Nat /\ DOMAIN T = 1..L
  BY DEF Caught, Walked
<1>2. ASSUME NEW k \in 1..L PROVE w[k] = Put(w, k)
  <2>1. PlaceOf(w[k]) = IF k = 1 THEN FirstPlace ELSE NextPlace(w[k - 1])
    BY Zenon, <1>1, ShownVisible DEF Caught, Walked
  <2>2. w[k] \in CellRec /\ w[k].len = T[k].len
    BY <1>1 DEF Caught, SameLens
  <2> DEFINE q == IF k = 1 THEN FirstPlace ELSE NextPlace(w[k - 1])
             y == w[k]
  <2> HIDE DEF q, y
  <2>3. y \in CellRec /\ y.len = T[k].len /\ PlaceOf(y) = q
    BY Zenon, <2>1, <2>2 DEF y, q
  <2>4. q.row = y.row /\ q.col = y.col
    BY Zenon, <2>3 DEF PlaceOf
  <2>5. y = CellAt(q, T[k].len)
    BY Zenon, <2>3, <2>4 DEF CellAt, CellRec
  <2> QED
    BY Zenon, <2>5 DEF y, q
<1>3. Steps(w)
  <2> HIDE DEF Put
  <2>1. w = [k \in 1..L |-> w[k]]
    BY <1>1
  <2> QED
    BY Zenon, <1>1, <1>2, <2>1
<1>4. Steps(cell)
  BY Zenon, <1>3
<1>5. Cells(T) = cell
  BY Zenon DEF Cells
<1> HIDE DEF cell
<1>6. cell = [k \in 1..L |-> Put(cell, k)]
  BY Zenon, <1>1, <1>4
<1> DEFINE K == {m \in Nat : \A k \in 1..L : k <= m => cell[k] = w[k]}
<1>7. 0 \in K
  BY <1>1
<1>8. ASSUME NEW m \in Nat, m \in K PROVE m + 1 \in K
  <2>1. ASSUME NEW k \in 1..L, k <= m + 1 PROVE cell[k] = w[k]
    <3>1. cell[k] = Put(cell, k)
      <4> HIDE DEF Put
      <4> QED
        BY Zenon, <1>6
    <3>2. k # 1 => k - 1 \in 1..L /\ k - 1 <= m
      BY <1>1, <2>1
    <3>3. k # 1 => cell[k - 1] = w[k - 1]
      BY Zenon, <1>8, <3>2
    <3> QED
      BY Zenon, <1>2, <3>1, <3>3
  <2>2. m + 1 \in Nat
    OBVIOUS
  <2> QED
    BY Zenon, <2>1, <2>2
<1> HIDE DEF K
<1>9. L \in K
  BY SMTT(20), <1>1, <1>7, <1>8, SetInduction
<1>10. \A k \in 1..L : cell[k] = w[k]
  <2>1. \A k \in 1..L : k <= L
    BY <1>1
  <2> QED
    BY Zenon, <1>9, <2>1 DEF K
<1>11. cell = w
  <2> HIDE DEF Put
  <2>1. w = [k \in 1..L |-> w[k]]
    BY <1>1
  <2>2. cell = [k \in 1..L |-> cell[k]]
    BY Zenon, <1>6
  <2> QED
    BY Zenon, <1>10, <2>1, <2>2
<1> QED
  BY Zenon, <1>5, <1>11

\* What has been written since the last render is what a render would print now.
Following ==
  IF chunks = <<>> THEN wrote = <<>> /\ row = 1 /\ \A c \in Visible : c >= field
  ELSE InStep(Visible, Live(chunks), wrote, row, field)

\* The inductive invariant.
OutInv ==
  /\ setup \in Setups /\ field \in Columns /\ row \in Nat
  /\ chunks = <<>> \/ IsBuffer(chunks)
  /\ RenderedAsWritten
  /\ crashed \/ over \/ Following

\* Before the first call nothing is written, and no column is behind.
LEMMA OutInitial == OutInit => OutInv
<1> SUFFICES ASSUME OutInit PROVE OutInv
  BY Zenon
<1>1. setup \in Setups /\ chunks = <<>> /\ field = 1 /\ row = 1 /\ wrote = <<>> /\ shown.printed = shown.expected
  BY Zenon DEF OutInit
<1>2. field \in Columns /\ row \in Nat
  BY <1>1, OutAssumption DEF Columns
<1>3. \A c \in Visible : c >= field
  BY <1>1, OutAssumption DEF Visible, Columns
<1> QED
  BY Zenon, <1>1, <1>2, <1>3 DEF OutInv, RenderedAsWritten, Following

\* A buffer is not empty, and render finds at least one token in it.
LEMMA SomeBuffer ==
  ASSUME NEW b, IsBuffer(b)
  PROVE  /\ b # <<>> /\ Live(b) \in Seq(TokenRec)
         /\ \A i \in DOMAIN AlignEnd(b) : Replayed(AlignEnd(b)[i]) # Overrun
<1>1. PICK p, c : Buffer(b, p, c)
  BY Zenon DEF IsBuffer
<1> QED
  BY Zenon, <1>1, BufferTail, LiveBuffer

\* render prints what was written.
LEMMA RenderKeeps ==
  ASSUME OutInv, ~crashed, ~over, render
  PROVE  RenderedAsWritten'
<1>1. /\ setup \in Setups /\ field \in Columns /\ row \in Nat /\ Following
      /\ chunks = <<>> \/ IsBuffer(chunks)
  BY Zenon DEF OutInv
<1>2. Shown(Visible)
  BY Zenon, <1>1, ShownVisible
<1>3. LastColumn = Min(Rest(Visible, field))
  BY Zenon DEF LastColumn, Rest
<1>4. shown' = [printed |-> IF chunks = <<>> THEN <<>> ELSE Printed(chunks),
                expected |-> IF chunks = <<>> THEN wrote ELSE CellIn(wrote, LastColumn)]
  BY Zenon DEF render
<1>5. CASE chunks = <<>>
  <2>1. wrote = <<>>
    BY Zenon, <1>1, <1>5 DEF Following
  <2> QED
    BY <1>4, <1>5, <2>1 DEF RenderedAsWritten
<1>6. CASE chunks # <<>>
  <2>1. InStep(Visible, Live(chunks), wrote, row, field) /\ IsBuffer(chunks)
    BY Zenon, <1>1, <1>6 DEF Following
  <2>2. /\ Live(chunks) \in Seq(TokenRec)
        /\ \A i \in DOMAIN AlignEnd(chunks) : Replayed(AlignEnd(chunks)[i]) # Overrun
    BY Zenon, <2>1, SomeBuffer
  <2>3. LastColumn \in Visible /\ InStep(Visible, Live(chunks), wrote, row, LastColumn)
    BY Zenon, <1>1, <1>2, <1>3, <2>1, InStepShown
  <2> DEFINE x == Printed(chunks)
             y == CellIn(wrote, LastColumn)
  <2>4. Caught(Visible, y, Live(chunks), row, LastColumn)
    BY Zenon, <1>1, <1>2, <2>2, <2>3, CellInCaught
  <2>5. shown' = [printed |-> x, expected |-> y]
    BY Zenon, <1>4, <1>6
  <2> HIDE DEF x, y
  <2>6. Cells(Live(chunks)) = y
    BY Zenon, <1>1, <2>2, <2>4, CellsCaught
  <2>7. x = y
    BY Zenon, <2>2, <2>6 DEF Printed, Live, x
  <2>8. shown'.printed = x /\ shown'.expected = y
    BY Zenon, <2>5
  <2> QED
    BY Zenon, <2>7, <2>8 DEF RenderedAsWritten
<1> QED
  BY Zenon, <1>5, <1>6

\* vout keeps the invariant.
LEMMA PrintFieldKeeps ==
  ASSUME OutInv, NEW n \in Lengths, PrintField(n)
  PROVE  OutInv'
<1>1. /\ setup \in Setups /\ field \in Columns /\ row \in Nat
      /\ chunks = <<>> \/ IsBuffer(chunks)
      /\ RenderedAsWritten /\ Following
  BY Zenon DEF OutInv, PrintField
<1>2. /\ setup' = setup /\ field' = field /\ row' = row /\ shown' = shown /\ Out(n)
      /\ Visible' = Visible /\ RenderedAsWritten'
  BY Zenon, <1>1 DEF PrintField, Visible, Disabled, RenderedAsWritten
<1>3. n \in Nat
  BY Zenon, OutAssumption
<1>4. Shown(Visible) /\ (\A c \in Columns : Disabled(c) <=> c \notin Visible)
  BY Zenon, <1>1, ShownVisible
<1>5. CASE Disabled(field)
  <2>1. chunks' = chunks /\ wrote' = wrote
    BY Zenon, <1>2, <1>5 DEF Out
  <2>2. Following'
    BY Zenon, <1>1, <1>2, <2>1 DEF Following, Live
  <2> QED
    BY Zenon, <1>1, <1>2, <2>1, <2>2 DEF OutInv
<1>6. CASE ~Disabled(field)
  <2> DEFINE b == IF chunks = <<>> THEN <<NewChunk>> ELSE chunks
  <2>1. chunks' = buf_update(b, n) /\ wrote' = CellOut(wrote, n)
    BY Zenon, <1>2, <1>6 DEF Out
  <2>2. field \in Visible
    BY Zenon, <1>1, <1>4, <1>6
  <2>3. IsBuffer(b) /\ InStep(Visible, Live(b), wrote, row, field)
    <3>1. CASE chunks = <<>>
      <4>1. b = <<NewChunk>> /\ wrote = <<>> /\ row = 1 /\ \A c \in Visible : c >= field
        BY Zenon, <1>1, <3>1 DEF Following
      <4> HIDE DEF b
      <4>2. InStep(Visible, <<Token(0, 0)>>, <<>>, 1, field)
        BY Zenon, <1>1, <1>4, <4>1, FreshInStep
      <4> QED
        BY Zenon, <4>1, <4>2, NewBuffer
    <3>2. CASE chunks # <<>>
      BY Zenon, <1>1, <3>2 DEF Following
    <3> QED
      BY <3>1, <3>2
  <2> HIDE DEF b
  <2>4. Live(b) \in Seq(TokenRec)
    BY Zenon, <2>3, SomeBuffer
  <2>5. IsBuffer(chunks') /\ Lengthened(Live(b), Live(chunks'), n)
    BY Zenon, <1>3, <2>1, <2>3, UpdatedBuffer
  <2>6. Caught(Visible, Cell(wrote), Live(b), row, field)
    BY Zenon, <1>1, <1>4, <2>2, <2>3, <2>4, CellCaught
  <2>7. PICK R \in Seq(TokenRec), t \in TokenRec, u \in TokenRec :
          Live(b) = Append(R, t) /\ Live(chunks') = Append(R, u) /\ u.len = MinNat(t.len + n, MaxToken)
    BY Zenon, <2>5 DEF Lengthened
  <2>8. Caught(Visible, Cell(wrote), Append(R, t), row, field)
    BY Zenon, <2>6, <2>7
  <2> DEFINE v == [Cell(wrote) EXCEPT ![Len(Cell(wrote))].len = MinNat(@ + n, MaxToken)]
  <2>9. Caught(Visible, v, Append(R, u), row, field)
    BY Zenon, <1>3, <2>7, <2>8, CaughtLonger
  <2>10. wrote' = v
    BY Zenon, <2>1 DEF CellOut
  <2> HIDE DEF v
  <2>11. InStep(Visible, Live(chunks'), wrote', row, field)
    BY Zenon, <2>2, <2>7, <2>9, <2>10 DEF InStep
  <2>12. chunks' # <<>>
    BY Zenon, <2>5, SomeBuffer
  <2>13. Following'
    BY Zenon, <1>2, <2>11, <2>12 DEF Following, Live
  <2> QED
    BY Zenon, <1>1, <1>2, <2>5, <2>13 DEF OutInv
<1> QED
  BY Zenon, <1>5, <1>6

\* field_next keeps the invariant.
LEMMA FieldSetKeeps ==
  ASSUME OutInv, FieldSetStep
  PROVE  OutInv'
<1>1. /\ setup \in Setups /\ field \in Columns /\ row \in Nat
      /\ chunks = <<>> \/ IsBuffer(chunks)
      /\ RenderedAsWritten /\ Following /\ ~crashed /\ ~over
  BY Zenon DEF OutInv, FieldSetStep
<1>2. setup' = setup /\ field_next /\ Visible' = Visible
  BY Zenon, <1>1 DEF FieldSetStep, Visible, Disabled
<1>4. Shown(Visible) /\ (\A c \in Columns : Disabled(c) <=> c \notin Visible)
  BY Zenon, <1>1, ShownVisible
<1>5. 1 \in Columns /\ 1 \in Nat /\ row + 1 \in Nat /\ (field # COL_MAX => field + 1 \in Columns)
  BY <1>1, OutAssumption DEF Columns
<1>6. CASE field_is_last /\ Len(chunks) >= setup.chunks
  <2>1. render /\ field' = 1
    BY Zenon, <1>2, <1>6 DEF field_next
  <2>2. RenderedAsWritten'
    BY Zenon, <1>1, <1>6, <2>1, RenderKeeps
  <2>3. chunks' = <<>> /\ wrote' = <<>> /\ row' = 1
    BY Zenon, <2>1 DEF render
  <2>4. \A c \in Visible : c >= 1
    BY OutAssumption DEF Visible, Columns
  <2>5. Following'
    BY Zenon, <1>2, <2>1, <2>3, <2>4 DEF Following
  <2> QED
    BY Zenon, <1>1, <1>2, <1>5, <2>1, <2>2, <2>3, <2>5 DEF OutInv
<1>7. CASE ~(field_is_last /\ Len(chunks) >= setup.chunks)
  <2>1. /\ field' = IF field_is_last THEN 1 ELSE field + 1
        /\ row' = IF field_is_last THEN row + 1 ELSE row
        /\ shown' = shown
        /\ IF Disabled(field) THEN UNCHANGED <<chunks, wrote, crashed>>
           ELSE IF chunks = <<>> THEN crashed' = TRUE /\ UNCHANGED <<chunks, wrote>>
           ELSE chunks' = field_flush /\ wrote' = Cell(wrote) /\ UNCHANGED crashed
    BY Zenon, <1>2, <1>7 DEF field_next
  <2>2. field' \in Columns /\ row' \in Nat /\ RenderedAsWritten'
    BY Zenon, <1>1, <1>5, <2>1 DEF field_is_last, RenderedAsWritten
  <2>3. CASE Disabled(field)
    <3>1. chunks' = chunks /\ wrote' = wrote
      BY Zenon, <2>1, <2>3
    <3>2. field \notin Visible /\ field # COL_MAX
      BY Zenon, <1>1, <1>4, <2>3 DEF Shown
    <3>3. field' = field + 1 /\ row' = row
      BY Zenon, <2>1, <3>2 DEF field_is_last
    <3>4. CASE chunks = <<>>
      <4>1. wrote = <<>> /\ row = 1 /\ \A c \in Visible : c >= field
        BY Zenon, <1>1, <3>4 DEF Following
      <4>2. \A c \in Visible : c >= field + 1
        <5>1. Visible \subseteq Nat /\ field \in Nat
          BY <1>1, OutAssumption DEF Visible, Columns
        <5> QED
          BY <3>2, <4>1, <5>1
      <4> QED
        BY Zenon, <1>1, <1>2, <2>2, <3>1, <3>3, <3>4, <4>1, <4>2 DEF OutInv, Following
    <3>5. CASE chunks # <<>>
      <4>1. InStep(Visible, Live(chunks), wrote, row, field)
        BY Zenon, <1>1, <3>5 DEF Following
      <4>2. InStep(Visible, Live(chunks), wrote, row, field + 1)
        BY Zenon, <1>1, <1>4, <3>2, <4>1, SkippedColumn
      <4>3. Following'
        BY Zenon, <1>2, <3>1, <3>3, <3>5, <4>2 DEF Following, Live
      <4> QED
        BY Zenon, <1>1, <1>2, <2>2, <3>1, <4>3 DEF OutInv
    <3> QED
      BY Zenon, <3>4, <3>5
  <2>4. CASE ~Disabled(field) /\ chunks = <<>>
    <3>1. crashed' = TRUE /\ chunks' = chunks
      BY Zenon, <2>1, <2>4
    <3> QED
      BY Zenon, <1>1, <1>2, <2>2, <3>1 DEF OutInv
  <2>5. CASE ~Disabled(field) /\ chunks # <<>>
    <3>1. chunks' = field_flush /\ wrote' = Cell(wrote)
      BY Zenon, <2>1, <2>5
    <3>2. IsBuffer(chunks) /\ InStep(Visible, Live(chunks), wrote, row, field)
      BY Zenon, <1>1, <2>5 DEF Following
    <3>3. PICK u \in TokenRec : IsBuffer(chunks') /\ u.len = 0 /\ Live(chunks') = Append(Live(chunks), u)
      BY Zenon, <3>1, <3>2, FlushedBuffer
    <3>4. Live(chunks) \in Seq(TokenRec) /\ chunks' # <<>>
      BY Zenon, <3>2, <3>3, SomeBuffer
    <3>5. field \in Visible
      BY Zenon, <1>1, <1>4, <2>5
    <3>6. Caught(Visible, wrote', Live(chunks), row, field)
      BY Zenon, <1>1, <1>4, <3>1, <3>2, <3>4, <3>5, CellCaught
    <3>7. /\ field # COL_MAX => InStep(Visible, Append(Live(chunks), u), wrote', row, field + 1)
          /\ field = COL_MAX => InStep(Visible, Append(Live(chunks), u), wrote', row + 1, 1)
      BY Zenon, <1>1, <1>4, <3>3, <3>4, <3>6, CaughtNext
    <3>8. InStep(Visible, Live(chunks'), wrote', row', field')
      BY Zenon, <2>1, <3>3, <3>7 DEF field_is_last
    <3>9. Following'
      BY Zenon, <1>2, <3>4, <3>8 DEF Following, Live
    <3> QED
      BY Zenon, <1>1, <1>2, <2>2, <3>3, <3>9 DEF OutInv
  <2> QED
    BY Zenon, <2>3, <2>4, <2>5
<1> QED
  BY Zenon, <1>6, <1>7

\* Every step keeps the invariant.
LEMMA OutStep == OutInv /\ [OutNext]_outVars => OutInv'
<1> SUFFICES ASSUME OutInv, [OutNext]_outVars PROVE OutInv'
  BY Zenon
<1>1. ASSUME UNCHANGED <<setup, chunks, field, row, wrote, shown, crashed, over>> PROVE OutInv'
  <2>1. Visible' = Visible
    BY Zenon, <1>1 DEF Visible, Disabled
  <2>2. Following' <=> Following
    BY Zenon, <1>1, <2>1 DEF Following, Live
  <2> QED
    BY Zenon, <1>1, <2>2 DEF OutInv, RenderedAsWritten
<1>2. CASE FieldSetStep
  BY Zenon, <1>2, FieldSetKeeps
<1>3. CASE \E n \in Lengths : PrintField(n)
  BY Zenon, <1>3, PrintFieldKeeps
<1>4. CASE NextField
  BY Zenon, <1>1, <1>4 DEF NextField
<1>5. CASE NextSocket
  BY Zenon, <1>1, <1>5 DEF NextSocket
<1>6. CASE Finish
  <2>1. render /\ ~crashed /\ ~over /\ over' = TRUE /\ setup' = setup /\ field' = field
    BY Zenon, <1>6 DEF Finish
  <2>2. RenderedAsWritten'
    BY Zenon, <2>1, RenderKeeps
  <2>3. chunks' = <<>> /\ row' = 1 /\ 1 \in Nat
    BY Zenon, <2>1 DEF render
  <2> QED
    BY Zenon, <2>1, <2>2, <2>3 DEF OutInv
<1>7. CASE UNCHANGED outVars
  BY Zenon, <1>1, <1>7 DEF outVars
<1> QED
  BY Zenon, <1>2, <1>3, <1>4, <1>5, <1>6, <1>7 DEF OutNext

\* The buffer of ss, for every chunk size, every longest token, every set of columns and every
\* sequence of calls of out, field_set and field_next: no token reaches beyond its chunk.
THEOREM TokensWithinChunks == OutSpec => []WithinChunk
<1>1. OutInv => WithinChunk
  BY Zenon, BufferWithin DEF OutInv
<1> QED
  BY OutInitial, OutStep, <1>1, PTL DEF OutSpec

\* And what render prints is what was written.
THEOREM RenderPrintsWritten == OutSpec => []RenderedAsWritten
<1>1. OutInv => RenderedAsWritten
  BY Zenon DEF OutInv
<1> QED
  BY OutInitial, OutStep, <1>1, PTL DEF OutSpec

=============================================================================
