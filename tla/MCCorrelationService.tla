------------------------ MODULE MCCorrelationService ------------------------
(***************************************************************************)
(* Two signals: psi_io, and psi_cpu with storms.  DevK = 4 in units of     *)
(* MAD_FLOOR is the default band; a third of the ring is the recent tail.  *)
(***************************************************************************)
EXTENDS CorrelationService, TLC

TwoSignals == <<"psi_io", "psi_cpu">>

\* psi_io stays low, psi_cpu storms.
CalmAndStormy == ("psi_io" :> {4}) @@ ("psi_cpu" :> {0, 20})

\* A busy database: well above zero, but always within one band.
Busy == <<"psi_io">>
BusyLevels == "psi_io" :> {9, 12}
=============================================================================
