----------------------------- MODULE ETFSimulator -----------------------------
(***************************************************************************)
(* run_simulation of simulate_etf_monitor.py: the rules of the ETF monitor *)
(* replayed over recorded bars.  The parameters the monitor trades with    *)
(* were chosen by it, so what it promises about sessions, cooldowns and    *)
(* red days has to hold over the bars a data provider delivers: bars       *)
(* outside the session, bars that are missing, dates that are UTC dates.   *)
(*                                                                         *)
(* Time is counted in slots; every slot has one bar of the primary ETF or  *)
(* none.  A day is a UTC date and has Day slots, the hours without any     *)
(* bars left out: slot 0 is the evening before in New York, the session    *)
(* has Session slots from `opens' on, an hour later in winter than in      *)
(* summer, and the rest is after hours.                                    *)
(*                                                                         *)
(* Left out: money and commissions, and which of the two ETFs is held.     *)
(* Signals, volatility and the squeeze are choices; so is the price, in    *)
(* steps above or below the entry price (a gap in the bars of the second   *)
(* ETF repeats its last price, which is one of the choices).               *)
(*                                                                         *)
(* A definition named ..._Mutant is a plausible bug in the definition that *)
(* follows it; no other definition uses it.                                *)
(***************************************************************************)
EXTENDS Integers, FiniteSets

CONSTANTS
    Days,          \* number of days the bars span (bound)
    Weekend,       \* those that are a Saturday or a Sunday
    Day,           \* slots in a day
    Opens,         \* slots the session may begin at, one per season
    Session,       \* slots in a session
    Reset,         \* 14:30 UTC, where the circuit breaker ends
    Regimes,       \* the regime gates to consider: [0..Days-1 -> BOOLEAN]
    Warmup,        \* warmup_bars
    MinHold,       \* min_hold_bars
    EodClose,      \* eod_close_minutes
    NoEntry,       \* no_entry_minutes
    OpenSkip,      \* open_skip_minutes
    LateEntry,     \* LATE_ENTRY_MINUTES
    Tighten,       \* eod_tighten_stop_min
    StopLoss,      \* STOP_LOSS_PCT, in price steps
    TightStop,     \* eod_tighten_stop_pct
    Breakeven,     \* breakeven_bps
    MinProfit,     \* min_profit_bps
    MaxMove,       \* price steps a bar can be away from the entry (bound)
    Cooldown,      \* stop_loss_cooldown
    MaxStops       \* MAX_STOP_LOSSES_DAY

Dates == 0..Days - 1

ASSUME CalendarAssumption ==
    /\ {Days, Day, Session, Warmup, MaxStops} \subseteq Nat \ {0}
    /\ Opens \subseteq Nat \ {0} /\ \A o \in Opens : o + Session <= Day
    /\ Weekend \subseteq Dates /\ \A d \in Dates : ~({d + 1, d + 2, d + 3} \subseteq Weekend)
    /\ Reset \in 0..Day - 1
    /\ Regimes \subseteq [Dates -> BOOLEAN]
ASSUME ModeAssumption ==
    {MinHold, EodClose, NoEntry, OpenSkip, LateEntry, Tighten, StopLoss, TightStop,
     Breakeven, MinProfit, MaxMove, Cooldown} \subseteq Nat

VARIABLES
    opens,        \* the slot the sessions of this replay begin at
    regime,       \* regime, TRUE on the green days
    now,          \* the slot whose bar is next
    ts,           \* the slot of the last bar there was, -1 before the first
    bars,         \* closes in the primary ETF's buffer, counted up to Warmup
    pos,          \* position
    blockedUntil, \* entry_blocked_until
    stops,        \* stop_losses_today
    stopDate,     \* stop_loss_date
    stopSales,    \* history: the slots of the sales at a stop, for the length of a day
    sound         \* history: no bar of the session is missing since it opened, or since
                  \* the entry if that was later

data == <<opens, regime>>
rules == <<blockedUntil, stops, stopDate>>
vars == <<data, now, ts, bars, pos, rules, stopSales, sound>>

MinOf(a, b) == IF a < b THEN a ELSE b
MaxOf(a, b) == IF a > b THEN a ELSE b

\* SimPosition: the date of the entry and the bars since then, counted up to MinHold.
NoPos == [date |-> -1, age |-> 0]
PositionOrNone == {NoPos} \cup [date : Dates, age : 0..MinHold]

\* Types; no position is entered and no stop counted without a bar, and a date with
\* stops counts at least one.
TypeOK ==
    /\ opens \in Opens /\ regime \in Regimes
    /\ now \in 0..Days * Day /\ ts \in -1..now - 1 /\ bars \in 0..Warmup
    /\ pos \in PositionOrNone /\ pos.date <= ts \div Day
    /\ blockedUntil \in Nat /\ stops \in Nat /\ stopDate \in Dates \cup {-1}
    /\ stopDate <= ts \div Day /\ (stopDate # -1 => stops > 0)
    /\ stopSales \subseteq Nat /\ sound \in BOOLEAN

Init ==
    /\ opens \in Opens /\ regime \in Regimes
    /\ now = 0 /\ ts = -1 /\ bars = 0 /\ pos = NoPos
    /\ blockedUntil = 0 /\ stops = 0 /\ stopDate = -1
    /\ stopSales = {} /\ sound = FALSE

-----------------------------------------------------------------------------
(* Where in the day a bar is *)

Slot == now % Day
Today == now \div Day
Close == opens + Session
InSession == opens <= Slot /\ Slot < Close

\* mins_to_close, which is None after the close, the evening before included, is at
\* most n.
Within(n) == Slot # 0 /\ Slot < Close /\ Close - Slot <= n

\* Recorded bars: none on a weekend, but Friday's evening is Saturday in UTC.
Recorded == IF Slot = 0 THEN Today - 1 \notin Weekend ELSE Today \notin Weekend

-----------------------------------------------------------------------------
(* The rules *)

\* The signal s is 1 above entry_threshold and 2 above LATE_ENTRY_THRESHOLD.
Strong(s) == s > IF Within(LateEntry) THEN 1 ELSE 0

EntryWindow_Mutant == InSession /\ Slot - opens >= OpenSkip
EntryWindow == InSession /\ Slot - opens >= OpenSkip /\ ~Within(NoEntry)

\* A block that has passed; 0 stands for none.
MayEnter_Mutant == EntryWindow /\ regime[Today]
MayEnter == EntryWindow /\ regime[Today] /\ now >= blockedUntil

\* The stop, below the entry price or, for a profit near the close, at it; p is the price.
StopAt(near, p) ==
    LET stop == IF near THEN -TightStop ELSE -StopLoss IN
    IF near /\ p >= Breakeven THEN MaxOf(stop, 0) ELSE stop
ForceStop(p) == p <= StopAt(Within(Tighten), p)
ForceEod == Within(EodClose)
RegimeFlip_Mutant == Today # pos.date /\ ~regime[Today] /\ InSession
RegimeFlip == Today # pos.date /\ ~regime[Today]

\* The second stop of a date blocks entries until 14:30 UTC of the next weekday, any
\* other one for the cooldown.
NextWeekday(d) == CHOOSE e \in d + 1..d + 3 :
    e \notin Weekend /\ \A f \in d + 1..e - 1 : f \in Weekend
StopsNow_Mutant == IF stopDate = Today THEN stops + 1 ELSE 0
StopsNow == IF stopDate = Today THEN stops + 1 ELSE 1
BlockAfterStop_Mutant == now + Cooldown
BlockAfterStop == IF StopsNow >= MaxStops THEN NextWeekday(Today) * Day + Reset
                                          ELSE now + Cooldown

-----------------------------------------------------------------------------
(* One bar *)

\* Time passes; sold is the slot of a sale at a stop in it, if there was one.
Advance(sold) ==
    /\ now' = now + 1
    /\ stopSales' = {s \in stopSales : now - s < Day} \cup sold
    /\ UNCHANGED data

Arrives(sold) ==
    /\ Recorded /\ Advance(sold)
    /\ ts' = now /\ bars' = MinOf(bars + 1, Warmup)

\* A bar after which the soundness of the session is what it was, or begins.
Seen == sound' = (IF Slot = opens THEN TRUE ELSE sound)

\* No bar: a gap in the data, a half day after its close, a night or a weekend.
Missing ==
    /\ Advance({})
    /\ sound' = (sound /\ ~InSession)
    /\ UNCHANGED <<ts, bars, pos, rules>>

\* Too few closes for a signal, nothing that may be bought, or a gate that is not met.
StaysOut ==
    /\ Arrives({}) /\ Seen
    /\ pos = NoPos
    /\ UNCHANGED <<pos, rules>>

Enters(s) ==
    /\ Arrives({})
    /\ pos = NoPos /\ bars' = Warmup
    /\ MayEnter /\ Strong(s)
    /\ pos' = [date |-> Today, age |-> 0] /\ sound' = TRUE
    /\ UNCHANGED rules

Age == MinOf(pos.age + 1, MinHold)

\* Too young to be sold, or neither forced nor with a signal and a profit to leave.
Keeps(s, p) ==
    /\ Arrives({}) /\ Seen
    /\ pos # NoPos
    /\ \/ Age < MinHold
       \/ /\ ~RegimeFlip /\ ~ForceEod /\ ~ForceStop(p)
          /\ s >= 0 \/ p <= MinProfit
    /\ pos' = [pos EXCEPT !.age = Age]
    /\ UNCHANGED rules

\* A sale at a price under the stop counts as a stop-loss whatever the reason given.
Sells(p) ==
    /\ Arrives(IF ForceStop(p) THEN {now} ELSE {}) /\ Seen
    /\ pos # NoPos /\ Age >= MinHold
    /\ pos' = NoPos
    /\ IF ForceStop(p)
       THEN /\ stopDate' = Today /\ stops' = StopsNow
            /\ blockedUntil' = BlockAfterStop
       ELSE /\ blockedUntil' = 0
            /\ UNCHANGED <<stopDate, stops>>

FlipExit(p) == RegimeFlip /\ Sells(p)
ForcedExit(p) == ~RegimeFlip /\ (ForceEod \/ ForceStop(p)) /\ Sells(p)
SignalExit(s, p) ==
    /\ ~RegimeFlip /\ ~ForceEod /\ ~ForceStop(p)
    /\ s < 0 /\ p > MinProfit
    /\ Sells(p)

Signals == -1..2
Prices == -MaxMove..MaxMove

Next ==
    /\ now < Days * Day
    /\ \/ Missing
       \/ StaysOut
       \/ \E s \in Signals : Enters(s)
       \/ \E s \in Signals, p \in Prices :
            Keeps(s, p) \/ FlipExit(p) \/ ForcedExit(p) \/ SignalExit(s, p)

Spec == Init /\ [][Next]_vars

-----------------------------------------------------------------------------
(* Properties *)

\* No position is carried out of a session unless a bar of the session was missing: the
\* no-entry window leaves each entry its minimum hold before the sale at the close, and a
\* position carried in is sold at the close as well.  Half days, on which the bars end
\* before the window in which positions are closed, are the exception the code has.
FlatOvernight == pos # NoPos /\ ~InSession => ~sound

\* Nothing is bought within the cooldown of a sale at a stop, through nights, dates that
\* change within a session's evening and exits of other kinds that clear the block.
Buys == pos = NoPos /\ pos' # NoPos
CooldownKept == [][Buys => \A s \in stopSales : now - s >= Cooldown]_vars

\* After the last stop-loss a UTC date may have, nothing is bought on that date, although
\* dates change in the evening and sales at a stop happen outside the session too.
StopsToday == {s \in stopSales : s \div Day = Today}
BreakerKept == [][Buys => Cardinality(StopsToday) < MaxStops]_vars

\* A red day is not sat out: once a bar of it has come, be it before the session, the only
\* position still held is one younger than the minimum hold, and nothing is bought on it.
RedDayLeft == pos # NoPos /\ ~regime[ts \div Day] => pos.age < MinHold /\ pos.date # ts \div Day

\* Not checked by a run, since TLC refutes it: a position is sold for a regime that was
\* known at an earlier close, as the comment on "exit at next open" has it.  The regime
\* of a day is computed from that day's own close.
FlipKnown ==
    [][(\E p \in Prices : FlipExit(p)) => \E d \in pos.date..Today - 1 : ~regime[d]]_vars
=============================================================================
