--------------------------- MODULE MCDecisionEngine ---------------------------
(* DecisionEngine on small sets of tickers and signals, for TLC. *)
EXTENDS DecisionEngine, TLC

CONSTANTS t1, t2

Hold == [action |-> "HOLD", qty |-> 1, bracket |-> FALSE]
SignalOf(action, qty, bracket) == [action |-> action, qty |-> qty, bracket |-> bracket]
Entry1 == SignalOf("NEW", 1, TRUE)

\* A bracketed entry, an exit, or nothing to do.
EntryOrExit == [Tickers -> {Hold, Entry1, SignalOf("SELL", 1, FALSE)}]

\* Entries with and without a bracket, reductions and exits.
Mixed == [Tickers -> {Entry1, SignalOf("ADD", 2, FALSE), SignalOf("TRIM", 1, FALSE),
                      SignalOf("SELL", 1, FALSE)}]

\* Any of these, or nothing to do.
MixedOrHold == Mixed \cup EntryOrExit

\* Both tickers are entered.
BothEnter == {[t \in Tickers |-> Entry1]}

\* A broker that fails, or runs published during a job.
MainFaults == {{"broker", "late"}, {"broker"}, {"midpublish"}}
SaveFaults == {{"broker", "late", "disk", "crash"}}
LiveFaults == {{"midpublish", "broker"}}
NoFaults == {{}}
OverlapFaults == {{"overlap"}}

Symmetry == Permutations(Tickers)
=============================================================================
