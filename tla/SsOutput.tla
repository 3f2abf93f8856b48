------------------------------ MODULE SsOutput ------------------------------
(***************************************************************************)
(* The output buffer of ss (misc/ss.c): every field of every socket is     *)
(* written as a token into a chain of chunks, and render() replays the     *)
(* tokens into the columns when the number of chunks reaches its limit and *)
(* at the end.  A token is a 16-bit length and that many bytes, and starts *)
(* at an even place of its chunk.                                          *)
(***************************************************************************)
EXTENDS Integers, Sequences, FiniteSetsExt

CONSTANTS
  Room,        \* bytes of data in a chunk
  MaxToken,    \* USHRT_MAX
  COL_MAX,     \* the number of columns
  Lengths,     \* the bytes that one call of out() prints
  MaxRows,     \* sockets
  Setups       \* what is printed: see OutInit; the last column, COL_EXT, always is

ASSUME OutAssumption ==
  /\ Room \in Nat /\ Room % 2 = 0
  /\ MaxToken \in Nat /\ MaxToken + 2 < Room
  /\ COL_MAX \in Nat \ {0}
  /\ Lengths \subseteq Nat
  /\ MaxRows \in Nat
  /\ Setups \subseteq [disabled : SUBSET (1..(COL_MAX - 1)), free : SUBSET (1..COL_MAX),
                     assoc : BOOLEAN, chunks : Nat]

VARIABLES
  setup,       \* disabled columns, the columns that may be left empty, whether associations
               \* are shown, BUF_CHUNKS_MAX
  chunks,      \* buffer: the chain of chunks; buffer.cur is the last token of the last
  field,       \* current_field
  goal,        \* the column that field_set walks to
  row,         \* history: the line of the output that is being written
  wrote,       \* history: the fields since the last render
  shown,       \* what the last render printed, and what it should have printed
  crashed,     \* field_flush had no buffer
  over         \* main has called render

outVars == <<setup, chunks, field, goal, row, wrote, shown, crashed, over>>

Columns == 1..COL_MAX
Disabled(c) == c \in setup.disabled
field_is_last == field = COL_MAX

MinNat(a, b) == IF a < b THEN a ELSE b
LEN_ALIGN(n) == n + (n % 2)

Token(at, len) == [at |-> at, len |-> len]
NewChunk == [tokens |-> <<Token(0, 0)>>, end |-> 2]

LastOf(s) == s[Len(s)]
tail == LastOf(chunks)
cur == LastOf(tail.tokens)
TokenEnd(t) == t.at + 2 + LEN_ALIGN(t.len)
Avail(chunk) == Room - chunk.end
SetTail(c) == [chunks EXCEPT ![Len(chunks)] = c]
SetCur(c, t) == [c.tokens EXCEPT ![Len(c.tokens)] = t]

\* buf_update, in the chain b: len bytes fit, or they are cut, or the token moves to
\* a chunk of its own and is printed again there.
Stored(b, n) ==
  LET c == LastOf(b)
      t == LastOf(c.tokens)
      len == MinNat(MinNat(n, Avail(c)), MaxToken - t.len)
  IN [b EXCEPT ![Len(b)] = [tokens |-> SetCur(c, Token(t.at, t.len + len)), end |-> c.end + len]]
MovedForgetful(b) ==
  LET c == LastOf(b)
      t == LastOf(c.tokens)
  IN Append([b EXCEPT ![Len(b)].end = @ - (t.len + 2)], NewChunk)
Moved(b) ==
  LET c == LastOf(b)
      t == LastOf(c.tokens)
  IN Append([b EXCEPT ![Len(b)].end = @ - (t.len + 2)],
            [tokens |-> <<Token(0, t.len)>>, end |-> 2 + t.len])
Fits(c, n) == n < Avail(c) \/ Len(c.tokens) = 1
buf_update(b, n) == IF Fits(LastOf(b), n) THEN Stored(b, n) ELSE Stored(Moved(b), n)

----------------------------------------------------------------------------
(* Writing fields.                                                         *)

\* History: the cell of column c, which is there even if it is empty.
CellIn(w, c) ==
  IF w # <<>> /\ LastOf(w).row = row /\ LastOf(w).col = c THEN w
  ELSE Append(w, [row |-> row, col |-> c, len |-> 0])
Cell(w) == CellIn(w, field)
CellOut(w, n) ==
  [Cell(w) EXCEPT ![Len(Cell(w))].len = MinNat(@ + n, MaxToken)]

\* vout.
Out(n) ==
  /\ field = goal
  /\ IF Disabled(field)
     THEN UNCHANGED <<chunks, wrote>>
     ELSE /\ chunks' = buf_update(IF chunks = <<>> THEN <<NewChunk>> ELSE chunks, n)
          /\ wrote' = CellOut(wrote, n)

\* field_flush, without its comparison for max_len.
FlushAlways ==
  SetTail([tokens |-> Append(tail.tokens, Token(TokenEnd(cur), 0)), end |-> TokenEnd(cur) + 2])
\* avail - pad is unsigned: below zero it would be large.
field_flush ==
  LET pad == cur.len % 2
      left == Avail(tail) - pad
  IN IF 0 <= left /\ left < 2
     THEN Append(SetTail([tail EXCEPT !.end = @ + pad]), NewChunk)
     ELSE SetTail([tokens |-> Append(tail.tokens, Token(TokenEnd(cur), 0)),
                   end |-> TokenEnd(cur) + 2])

----------------------------------------------------------------------------
(* render.                                                                 *)

\* The tokens that the replay finds in a chunk: buf_token_next goes on until the
\* aligned end of a token is the end of the chunk.
Overrun == <<Token(0, -1)>>
Replayed(c) ==
  LET last == {i \in DOMAIN c.tokens : TokenEnd(c.tokens[i]) = c.end}
  IN IF last = {} THEN Overrun
     ELSE [k \in 1..Min(last) |-> c.tokens[k]]
AlignEnd(b) == [b EXCEPT ![Len(b)].end = @ + (LastOf(LastOf(b).tokens).len % 2)]
Tokens(b) ==
  LET upto[i \in 0..Len(b)] == IF i = 0 THEN <<>> ELSE upto[i - 1] \o Replayed(b[i])
  IN upto[Len(b)]

Visible == {c \in Columns : ~Disabled(c)}

\* The tokens go to the visible columns in turn: the next to the right, or the first of
\* the next line.
FirstPlace == [row |-> 1, col |-> Min(Visible)]
NextPlace(p) ==
  LET right == {c \in Visible : c > p.col}
  IN IF right = {} THEN [row |-> p.row + 1, col |-> Min(Visible)]
     ELSE [row |-> p.row, col |-> Min(right)]
CellAt(p, len) == [row |-> p.row, col |-> p.col, len |-> len]
Cells(tokens) ==
  LET cell[k \in DOMAIN tokens] ==
        CellAt(IF k = 1 THEN FirstPlace ELSE NextPlace(cell[k - 1]), tokens[k].len)
  IN cell

Printed(b) == IF \E i \in DOMAIN AlignEnd(b) : Replayed(AlignEnd(b)[i]) = Overrun THEN Overrun
              ELSE Cells(Tokens(AlignEnd(b)))

\* The column of the last token: the first one that is shown from the current field on.
LastColumn == Min({c \in Visible : c >= field})

render ==
  /\ shown' = [printed |-> IF chunks = <<>> THEN <<>> ELSE Printed(chunks),
               expected |-> IF chunks = <<>> THEN wrote ELSE CellIn(wrote, LastColumn)]
  /\ chunks' = <<>>
  /\ wrote' = <<>>
  /\ row' = 1

----------------------------------------------------------------------------
(* field_next and field_set.                                               *)

field_next ==
  IF field_is_last /\ Len(chunks) >= setup.chunks
  THEN render /\ field' = 1 /\ UNCHANGED crashed
  ELSE /\ field' = IF field_is_last THEN 1 ELSE field + 1
       /\ row' = IF field_is_last THEN row + 1 ELSE row
       /\ UNCHANGED shown
       /\ IF Disabled(field) THEN UNCHANGED <<chunks, wrote, crashed>>
          ELSE IF chunks = <<>> THEN crashed' = TRUE /\ UNCHANGED <<chunks, wrote>>
          ELSE chunks' = field_flush /\ wrote' = Cell(wrote) /\ UNCHANGED crashed

FieldSetStep ==
  /\ ~over /\ ~crashed
  /\ field # goal
  /\ field_next
  /\ UNCHANGED <<setup, goal, over>>

\* A socket is printed: something in every field (sock_state_print, sock_addr_print), nothing
\* or any number of strings in a service, in COL_PROC (proc_ctx_print) and in the last; an
\* association has an empty Netid, and a netlink socket ends in COL_PROC.
Free == field_is_last \/ field \in setup.free
Wrote == Disabled(field) \/ (wrote # <<>> /\ LastOf(wrote).row = row /\ LastOf(wrote).col = field
                             /\ LastOf(wrote).len > 0)

PrintField(n) ==
  /\ ~over /\ ~crashed
  /\ ~Wrote \/ Free
  /\ Out(n)
  /\ UNCHANGED <<setup, field, goal, row, shown, crashed, over>>

NextField ==
  /\ ~over /\ ~crashed
  /\ field = goal /\ ~field_is_last
  /\ Wrote \/ Free
  /\ goal' = field + 1
  /\ UNCHANGED <<setup, chunks, field, row, wrote, shown, crashed, over>>

NextSocket ==
  /\ ~over /\ ~crashed
  /\ field = goal /\ Free
  /\ row < MaxRows
  /\ goal' \in IF setup.assoc THEN {1, 2} ELSE {1}
  /\ UNCHANGED <<setup, chunks, field, row, wrote, shown, crashed, over>>

\* The end of main.
Finish ==
  /\ ~over /\ ~crashed
  /\ field = goal /\ Free
  /\ render
  /\ over' = TRUE
  /\ UNCHANGED <<setup, field, goal, crashed>>

OutInit ==
  /\ setup \in Setups
  /\ chunks = <<>> /\ field = 1 /\ goal = 1 /\ row = 1 /\ wrote = <<>>
  /\ shown = [printed |-> <<>>, expected |-> <<>>]
  /\ crashed = FALSE /\ over = FALSE

OutNext == FieldSetStep \/ (\E n \in Lengths : PrintField(n)) \/ NextField \/ NextSocket \/ Finish

OutSpec == OutInit /\ [][OutNext]_outVars

----------------------------------------------------------------------------
(* Properties.                                                             *)

\* No token reaches beyond its chunk: buf_update and field_flush leave room for the
\* length of the next token, in spite of the unsigned arithmetic of field_flush.
WithinChunk == \A i \in DOMAIN chunks :
                 /\ 0 <= chunks[i].end /\ chunks[i].end <= Room
                 /\ \A k \in DOMAIN chunks[i].tokens :
                      LET t == chunks[i].tokens[k] IN t.at % 2 = 0 /\ t.at + 2 + t.len <= Room

\* What render prints is what was written: every field in its line and its column,
\* whole or cut at 65535 bytes, also where a token was moved to a new chunk, and the
\* replay never runs past the end of a chunk.
RenderedAsWritten == shown.printed = shown.expected

=============================================================================
