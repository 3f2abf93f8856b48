------------------------------ MODULE SsWidth -------------------------------
(***************************************************************************)
(* render_calc_width of misc/ss.c: the widths of the columns on a screen   *)
(* of known width.  render() never breaks a line inside a socket's fields: *)
(* it is the terminal that wraps, so the widths have to add up.            *)
(***************************************************************************)
EXTENDS Naturals, Sequences, FiniteSets, FiniteSetsExt

CONSTANT WidthInputs   \* len: the longest content of each column; delim: the length of
                       \* its delimiter; screen: the screen's width

SumOver(S, w) == MapThenSumSet(LAMBDA c : w[c], S)

\* First pass: the measured length and the left delimiter, which the first column that
\* has anything does without, but not more than the screen.
FirstPass(len, delim, screen) ==
  [c \in DOMAIN len |->
     LET first == \A d \in 1..(c - 1) : len[d] = 0
         width == IF len[c] > 0 /\ ~first THEN len[c] + delim[c] ELSE len[c]
     IN IF width < screen THEN width ELSE screen]

\* What is left on a line goes to its columns, the remainder to the last of them.
SpreadToLast(w, line, pad) ==
  [c \in DOMAIN w |-> IF c \in line /\ \A d \in line : d <= c THEN w[c] + pad ELSE w[c]]
Spread(w, line, pad) ==
  [c \in DOMAIN w |->
     IF c \notin line THEN w[c]
     ELSE w[c] + (pad \div Cardinality(line))
               + IF Cardinality({d \in line : d > c}) < pad % Cardinality(line) THEN 1 ELSE 0]

\* "Columns fit on screen so far, nothing to do yet".
FitsSoFarShort(last, len, screen) == ~last /\ len + 1 < screen
FitsSoFar(last, len, screen) == ~last /\ len < screen

\* Second pass, at column c: the columns since eol are the line so far.  The column that
\* is too much starts the next line.
RECURSIVE SecondPass(_, _, _, _)
SecondPass(c, eol, w, screen) ==
  IF c > Len(w) THEN w
  ELSE LET line(e) == {d \in (eol + 1)..e : w[d] > 0}
           len == SumOver(line(c), w)
           last == \A d \in (c + 1)..Len(w) : w[d] = 0
           e == IF len > screen THEN c - 1 ELSE c
       IN IF w[c] = 0 \/ FitsSoFar(last, len, screen) THEN SecondPass(c + 1, eol, w, screen)
          ELSE SecondPass(e + 1, e, Spread(w, line(e), screen - SumOver(line(e), w)), screen)

VARIABLES content, width

widthVars == <<content, width>>

WidthInit == content \in WidthInputs /\ width = <<>>

render_calc_width ==
  /\ width = <<>>
  /\ width' = SecondPass(1, 0, FirstPass(content.len, content.delim, content.screen), content.screen)
  /\ UNCHANGED content

WidthSpec == WidthInit /\ [][render_calc_width]_widthVars

----------------------------------------------------------------------------
(* Properties.                                                             *)

Measured == FirstPass(content.len, content.delim, content.screen)
EndOf(c) == SumOver(1..c, width)
Lines == EndOf(Len(width)) \div content.screen

\* A set of columns, all of which start a line, breaks the measured columns into lines
\* that fit.
Breaks(B) ==
  \A c \in DOMAIN width :
    LET start == Max({b \in B \cup {1} : b <= c})
    IN SumOver(start..c, Measured) <= content.screen

\* render_calc_width breaks the columns "into the least possible amount of lines": no
\* other way to break them needs fewer.
LinesLeast ==
  width # <<>> => \A B \in SUBSET (2..Len(width)) : Breaks(B) => Lines <= Cardinality(B) + 1

\* The columns of a line fill the screen to its edge, so that the terminal wraps between
\* two columns and the fields of all sockets stay aligned; and "available screen space is
\* equally spread between fields": no two columns of a line get more than one place apart.
SpreadEqually ==
  width # <<>> =>
    /\ EndOf(Len(width)) % content.screen = 0
    /\ \A k \in 1..Lines : \E c \in DOMAIN width : EndOf(c) = k * content.screen
    /\ \A c, d \in DOMAIN width :
         /\ width[c] > 0 /\ width[d] > 0
         /\ (EndOf(c) - 1) \div content.screen = (EndOf(d) - 1) \div content.screen
         => width[c] - Measured[c] <= (width[d] - Measured[d]) + 1

=============================================================================
