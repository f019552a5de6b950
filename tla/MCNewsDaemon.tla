----------------------------- MODULE MCNewsDaemon -----------------------------
(* NewsDaemon on a small market: up to two filings and a press release, about two *)
(* tickers.                                                                       *)
EXTENDS NewsDaemon

CONSTANTS e1, e2, e3, A, B

MCTickerOf == [e \in Events |-> IF e = e2 THEN B ELSE A]

\* An account that loses fifteen per cent has lost exactly the limit.
MCLevels == {100, 85}

MCNoRows == {<<0, 0>>}
MCOneRow == {<<100, 100>>}

\* Long days without mishaps of the broker, and short ones with them.
MCDayFaults == {{}, {"crawler"}, {"llm"}}
MCBrokerFaults == {{}, {"late", "raise"}, {"stop", "llm"}, {"close", "blind", "late"},
                   {"dayend", "close"}, {"blind", "stop"}}
=============================================================================
