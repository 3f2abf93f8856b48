------------------------------ MODULE MCTools -------------------------------
(* Other programs for TLC.  A behaviour is that of one of: a filter of ss, *)
(* the output buffer of ss, the columns of ss, "devlink dev flash", or     *)
(* several programs that load BPF objects.                                 *)
EXTENDS MCSsFilter, MCSsOutput, MCSsWidth, MCDevlinkFlash, MCBpfMaps

VARIABLE program

Programs == {"ss filter", "ss output", "ss columns", "devlink flash", "bpf"}

allVars == <<program, ssVars, outVars, widthVars, flashVars, bpfVars>>

InFilter(A) == program = "ss filter" /\ A /\ UNCHANGED <<program, outVars, widthVars, flashVars, bpfVars>>
InOutput(A) == program = "ss output" /\ A /\ UNCHANGED <<program, ssVars, widthVars, flashVars, bpfVars>>
InColumns(A) == program = "ss columns" /\ A /\ UNCHANGED <<program, ssVars, outVars, flashVars, bpfVars>>
InFlash(A) == program = "devlink flash" /\ A /\ UNCHANGED <<program, ssVars, outVars, widthVars, bpfVars>>
InBpf(A) == program = "bpf" /\ A /\ UNCHANGED <<program, ssVars, outVars, widthVars, flashVars>>

\* Of what a program does not use, one state will do.
MCInit ==
  /\ program \in Programs
  /\ SsInit
  /\ program # "ss filter" => expr = List(Leaf(Cond("SSF_D_GE", <<>>)), <<>>)
  /\ WidthInit
  /\ program # "ss columns" => content = [len |-> <<0, 0, 0, 0, 0>>, delim |-> <<0, 1, 1, 0, 1>>, screen |-> 3]
  /\ OutInit
  /\ program # "ss output" => setup = OutSetup({}, {}, FALSE, 2)
  /\ FlashInit
  /\ program # "devlink flash" => fset = FlashSetup(FALSE, TRUE, FALSE)
  /\ BpfInit
  /\ program # "bpf" => bset = BpfSetup([l \in Loaders |-> OneMap], 2, TRUE, TRUE, "shown")

MCNext ==
  \/ InFilter(SsNext) \/ InOutput(OutNext) \/ InColumns(render_calc_width)
  \/ InFlash(FlashNext) \/ InBpf(BpfNext)

MCSpec ==
  /\ MCInit /\ [][MCNext]_allVars
  /\ WF_allVars(InFlash(Parent)) /\ WF_allVars(InFlash(Child)) /\ WF_allVars(InFlash(Kernel))
  /\ \A l \in Loaders : WF_allVars(InBpf(LoadStep(l)))

=============================================================================
