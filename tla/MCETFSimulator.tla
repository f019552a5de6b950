---------------------------- MODULE MCETFSimulator ----------------------------
(* ETFSimulator over a Thursday, a Friday, a weekend and a Monday. *)
EXTENDS ETFSimulator

\* All green, a red Friday, or a red Monday.
MCRegimes == {[d \in Dates |-> TRUE], [d \in Dates |-> d # 1], [d \in Dates |-> d # 4]}
=============================================================================
