----------------------------- MODULE MCSsFilter -----------------------------
(* Filter expressions for SsFilter.                                        *)
EXTENDS SsFilter

OneAddress == {Cond("SSF_DCOND", <<1>>), Cond("SSF_D_GE", <<>>), Cond("SSF_S_AUTO", <<>>),
               Cond("SSF_DEVCOND", <<>>)}
TwoAddresses == {Cond("SSF_DCOND", <<1, 2>>)}

=============================================================================
