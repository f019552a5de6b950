------------------------------ MODULE MCCashCycle ------------------------------
(* CashCycle with the thresholds of config.yaml, smaller caps and four stocks. *)
EXTENDS CashCycle

S(t, a, d, c) == [ticker |-> t, action |-> a, dollars |-> d, composite |-> c]

\* Two NEW names that compete, an exit that pays for an entry, a purchase of more than
\* the cash there is, a trim, and entries that are too small.
MCRunSets == {
    <<S("a", "NEW", 10000, 60), S("b", "NEW", 8000, 90)>>,
    <<S("a", "SELL", 0, 0), S("b", "ADD", 9000, 70)>>,
    <<S("a", "SELL", 0, 0), S("c", "NEW", 9000, 70)>>,
    <<S("a", "TRIM", 4000, 0), S("c", "NEW", 16000, 80), S("b", "NEW", 7000, 90)>>,
    <<S("c", "NEW", 25000, 75)>>,
    <<S("d", "NEW", 9000, 40)>>}

MCAccounts == {
    [cash |-> 12000, pos |-> [x \in Assets |-> IF x \in ETFs THEN 8000 ELSE 0]],
    [cash |-> 3000,  pos |-> [x \in Assets |->
        CASE x = "a" -> 8000 [] x = "QQQ" -> 26000 [] OTHER -> 0]],
    [cash |-> 30000, pos |-> [x \in Assets |-> IF x \in {"a", "b", "d"} THEN 8000 ELSE 0]]}

MCFaultSets == {{}, {"limit"}, {"slow"}, {"legs"}, {"broker"}}
=============================================================================
