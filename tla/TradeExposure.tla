----------------------------- MODULE TradeExposure -----------------------------
(***************************************************************************)
(* What the news trader promises about the broker's positions, without     *)
(* saying how: it has one trade at a time, stays with it until it is gone, *)
(* and only a mishap leaves a position that nobody watches.                *)
(*                                                                         *)
(* The trade of a ticker is "flat", "ordered" (an entry is out and awaited),*)
(* "watched" (entered, and the executor is holding it) or "unwatched"      *)
(* (shares, or an order that may still buy some, that nobody holds).       *)
(***************************************************************************)
CONSTANT Tickers

VARIABLES
    careless,  \* fixed: a call may fail, or lie, or the process may end
    exposure   \* the state of each ticker's trade

vars == <<careless, exposure>>

Phases == {"flat", "ordered", "watched", "unwatched"}

Init ==
    /\ careless \in BOOLEAN
    /\ exposure = [t \in Tickers |-> "flat"]

Busy == \E t \in Tickers : exposure[t] \in {"ordered", "watched"}
Becomes(t, from, to) ==
    /\ exposure[t] \in from
    /\ exposure' = [exposure EXCEPT ![t] = to]
    /\ UNCHANGED careless

\* An entry is sent, while no other trade is in hand.  It may be on top of shares
\* that nobody watches.
OrderOut(t) == ~Busy /\ Becomes(t, {"flat", "unwatched"}, "ordered")

\* The entry filled and is now held.
Enter(t) == Becomes(t, {"ordered"}, "watched")

\* The order is dead without a fill, or the position is gone.
Settle(t) == Becomes(t, {"ordered", "watched"}, "flat")

\* The executor turns away from what it does not see or cannot close.
Lose(t) == careless /\ Becomes(t, {"ordered", "watched"}, "unwatched")

\* An entry reaches the broker although the call that sent it failed.
Stray(t) == careless /\ Becomes(t, {"flat"}, "unwatched")

\* The bracket, or the end of the day for orders, removes what nobody watches, be it in
\* several tickers at once.
Unwind(S) ==
    /\ S # {} /\ \A t \in S : exposure[t] = "unwatched"
    /\ exposure' = [t \in Tickers |-> IF t \in S THEN "flat" ELSE exposure[t]]
    /\ UNCHANGED careless

Next ==
    \/ \E t \in Tickers : OrderOut(t) \/ Enter(t) \/ Settle(t) \/ Lose(t) \/ Stray(t)
    \/ \E S \in SUBSET Tickers : Unwind(S)

\* A trade does not stay in the executor's hands for ever.
Fairness == \A t \in Tickers : WF_vars(Settle(t) \/ Lose(t))

Spec == Init /\ [][Next]_vars
FairSpec == Spec /\ Fairness
=============================================================================
