------------------------------- MODULE MCArpd -------------------------------
(* Instances of Arpd.                                                      *)
EXTENDS Arpd

Budget(e, s) == [events |-> e, signals |-> s]

\* Messages without signals, and signals with fewer messages.
MessagesOrSignals == {Budget(3, 0), Budget(1, 3)}
TwoSignals == {Budget(0, 2)}

=============================================================================
