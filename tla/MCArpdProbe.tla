---------------------------- MODULE MCArpdProbe -----------------------------
(* Instances of ArpdProbe.                                                 *)
EXTENDS ArpdProbe

=============================================================================
