------------------------------ MODULE SsFilter ------------------------------
(***************************************************************************)
(* The filter expressions of ss: how misc/ssfilter.y parses them, how      *)
(* run_ssfilter evaluates them in the program, and how                     *)
(* ssfilter_bytecompile turns them into the bytecode by which the kernel   *)
(* selects the sockets it reports.                                         *)
(***************************************************************************)
EXTENDS Naturals, Sequences, SequencesExt

CONSTANTS
  Conditions,   \* the conditions that are written: see Cond
  MaxList       \* conditions in a list

\* A condition: its type, and for SSF_DCOND the addresses its host resolves to.
\* ("dst" stands for "src" as well, and "ge" for the four comparisons of ports.)
Cond(type, hosts) == <<type, hosts>>

\* What the conditions ask of a socket.
Sockets == [addr : 1..3, auto : BOOLEAN, port : BOOLEAN, dev : BOOLEAN]

----------------------------------------------------------------------------
(* Syntax.  An expression is a list: conditions, negations and lists in    *)
(* parentheses, joined by "or" and "and".                                  *)

List(first, rest) == <<"list", first, rest>>
Not(item) == <<"!", item>>
Leaf(c) == <<"leaf", c>>

Leaves == {Leaf(c) : c \in Conditions}
Simple == Leaves \cup {Not(l) : l \in Leaves}
Joined(S, n) == UNION {{List(f, r) : f \in S, r \in [1..k -> {"or", "and"} \X S]} : k \in 0..(n - 1)}
Grouped == Simple \cup Joined(Leaves, 2) \cup {Not(l) : l \in Joined(Leaves, 2)}
Expressions == Joined(Simple, MaxList) \cup Joined(Grouped, 2)

\* The actions of the grammar: exprlist grows to the left, whatever the operator is, so
\* "or" and "and" bind alike.
RECURSIVE Parse(_)
Join(op, f, g) == IF op = "or" THEN <<"SSF_OR", f, g>> ELSE <<"SSF_AND", f, g>>
ParseList(e) == FoldLeft(LAMBDA f, r : Join(r[1], f, Parse(r[2])), Parse(e[2]), e[3])
Parse(e) == CASE e[1] = "leaf" -> e[2]
              [] e[1] = "!" -> <<"SSF_NOT", Parse(e[2])>>
              [] e[1] = "list" -> ParseList(e)

----------------------------------------------------------------------------
(* run_ssfilter.                                                           *)

\* The leaves mean the same here and in the kernel.  In the code two of them do not
\* always: "autobound" is a port of the ephemeral range to run_ssfilter and a port
\* that was not asked for to the kernel, and inet2_addr_match has rules of its own
\* for v4-mapped addresses.  What is compared is how the leaves are put together.
Holds(c, s) == CASE c[1] = "SSF_S_AUTO" -> s.auto
                 [] c[1] = "SSF_D_GE" -> s.port
                 [] c[1] = "SSF_DEVCOND" -> s.dev
                 [] c[1] = "SSF_DCOND" -> \E i \in DOMAIN c[2] : c[2][i] = s.addr

RECURSIVE run_ssfilter(_, _)
run_ssfilter(f, s) == CASE f[1] = "SSF_AND" -> run_ssfilter(f[2], s) /\ run_ssfilter(f[3], s)
                        [] f[1] = "SSF_OR" -> run_ssfilter(f[2], s) \/ run_ssfilter(f[3], s)
                        [] f[1] = "SSF_NOT" -> ~run_ssfilter(f[2], s)
                        [] OTHER -> Holds(f, s)

----------------------------------------------------------------------------
(* ssfilter_bytecompile.  A program is a sequence of operations; yes and   *)
(* no are distances in bytes, yes being the length of the operation.       *)

Op(code, arg, yes, no) == [code |-> code, arg |-> arg, yes |-> yes, no |-> no]
JMP(no) == Op("JMP", <<>>, 4, no)

\* The bytes of a program, and of what is left of it from operation i on.
Length(bc) == FoldLeft(LAMBDA n, o : n + o.yes, 0, bc)
Left(bc, i) == Length(SubSeq(bc, i, Len(bc)))

\* ssfilter_patch: "Relocate external jumps by reloc".
PatchAll(bc, reloc) ==
  [i \in DOMAIN bc |-> [bc[i] EXCEPT !.no = IF @ >= Left(bc, i) THEN @ + reloc ELSE @]]
ssfilter_patch(bc, reloc) ==
  [i \in DOMAIN bc |-> [bc[i] EXCEPT !.no = IF @ = Left(bc, i) + 4 THEN @ + reloc ELSE @]]

\* The addresses of a host, each but the last followed by a jump to the end.  The
\* address that is compared is the first one every time.
HostLength == 16
CompileHosts(type, hosts) ==
  LET k == Len(hosts)
      host == Op(type, <<hosts[1]>>, HostLength, HostLength + 4)
      jump(i) == JMP(4 + (k - i) * HostLength + (k - 1 - i) * 4)
  IN FlattenSeq([i \in 1..k |-> IF i < k THEN <<host, jump(i)>> ELSE <<host>>])

CompileCond(c) == CASE c[1] = "SSF_S_AUTO" -> <<Op(c[1], <<>>, 4, 8)>>
                    [] c[1] = "SSF_D_GE" -> <<Op(c[1], <<>>, 8, 12)>>
                    [] c[1] = "SSF_DCOND" -> CompileHosts(c[1], c[2])
                    [] c[1] = "SSF_DEVCOND" -> <<>>

CompileAnd(a1, a2) ==
  IF a1 = <<>> \/ a2 = <<>> THEN <<>> ELSE ssfilter_patch(a1, Length(a2)) \o a2
CompileOr(a1, a2) ==
  IF a1 = <<>> \/ a2 = <<>> THEN <<>> ELSE a1 \o <<JMP(Length(a2) + 4)>> \o a2
CompileNot(a1) == IF a1 = <<>> THEN <<>> ELSE a1 \o <<JMP(8)>>

RECURSIVE ssfilter_bytecompile(_)
ssfilter_bytecompile(f) ==
  CASE f[1] = "SSF_AND" -> CompileAnd(ssfilter_bytecompile(f[2]), ssfilter_bytecompile(f[3]))
    [] f[1] = "SSF_OR" -> CompileOr(ssfilter_bytecompile(f[2]), ssfilter_bytecompile(f[3]))
    [] f[1] = "SSF_NOT" -> CompileNot(ssfilter_bytecompile(f[2]))
    [] OTHER -> CompileCond(f)

----------------------------------------------------------------------------
(* The kernel: inet_diag_bc_audit and inet_diag_bc_run.                    *)

\* Where the byte at distance d from operation i is: an operation, one past the
\* last (accept), or elsewhere (0).
Target(bc, i, d) ==
  LET hits == {j \in i..(Len(bc) + 1) : Length(SubSeq(bc, i, j - 1)) = d}
  IN IF hits = {} THEN 0 ELSE CHOOSE j \in hits : TRUE

Audited(bc) == \A i \in DOMAIN bc :
                 bc[i].no = Left(bc, i) + 4 \/ Target(bc, i, bc[i].no) > i

RECURSIVE RunFrom(_, _, _)
RunFrom(bc, i, s) ==
  IF i = Len(bc) + 1 THEN TRUE
  ELSE IF i = 0 THEN FALSE
  ELSE LET o == bc[i]
           yes == o.code # "JMP" /\ Holds(<<o.code, o.arg>>, s)
       IN RunFrom(bc, Target(bc, i, IF yes THEN o.yes ELSE o.no), s)
inet_diag_bc_run(bc, s) == RunFrom(bc, 1, s)

----------------------------------------------------------------------------
(* ss: the filter is parsed, and sent along with the request if it can be  *)
(* compiled; what the kernel reports is filtered once more.                *)

VARIABLES expr, filter, bytecode

ssVars == <<expr, filter, bytecode>>

NoFilter == <<"none">>

Reported(s) == bytecode = <<>> \/ inet_diag_bc_run(bytecode, s)
Shown(s) == Reported(s) /\ run_ssfilter(filter, s)

SsInit == expr \in Expressions /\ filter = NoFilter /\ bytecode = <<>>

SsParse ==
  /\ filter = NoFilter
  /\ filter' = Parse(expr)
  /\ UNCHANGED <<expr, bytecode>>

\* sockdiag_send.
SsSend ==
  /\ filter # NoFilter
  /\ bytecode' = ssfilter_bytecompile(filter)
  /\ UNCHANGED <<expr, filter>>

SsNext == SsParse \/ SsSend

SsSpec == SsInit /\ [][SsNext]_ssVars

----------------------------------------------------------------------------
(* Properties.                                                             *)

\* ss(8): "dst HOST" tests whether the destination matches HOST, which may be a
\* hostname that resolves to an address.
HostsAsDocumented ==
  bytecode # <<>> => \A s \in Sockets : Shown(s) <=> run_ssfilter(filter, s)

\* The kernel accepts the bytecode and selects by it exactly the sockets that the
\* program itself would select, for every nesting of and, or and not: every jump that
\* ssfilter_bytecompile makes and ssfilter_patch moves leads where run_ssfilter goes.
CompiledAgrees ==
  bytecode # <<>> =>
    /\ Audited(bytecode)
    /\ \A s \in Sockets : inet_diag_bc_run(bytecode, s) <=> run_ssfilter(filter, s)

=============================================================================
