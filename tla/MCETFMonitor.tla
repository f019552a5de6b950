----------------------------- MODULE MCETFMonitor -----------------------------
(* ETFMonitor with the times of config.yaml in quarters of an hour, for TLC. *)
EXTENDS ETFMonitor, TLC

CONSTANTS qqq, spy

Symmetry == Permutations(Etfs)

\* Restarts, the engine's sales and a broker that fails; everything that
\* never makes the state file wrong; everything at once.
Ordinary == {"liquidate", "broker", "restart"}
OrdinaryFaults == {Ordinary}
AllFaults == {Ordinary, FaultKinds \ {"engine", "disk", "cold"}, FaultKinds}
=============================================================================
