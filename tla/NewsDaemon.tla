------------------------------ MODULE NewsDaemon ------------------------------
(***************************************************************************)
(* The loop of news_quant/daemon.py around the executor: it polls EDGAR,   *)
(* then the press wires, takes what the store has not seen, scores it, and *)
(* lets through the gate what it trades.  One thread does all of it, so a  *)
(* trade that is held holds up everything else.  The store, the ledger and *)
(* the costs are files and outlive the process; the counter of the day's   *)
(* trades and the batch being read do not.                                 *)
(*                                                                         *)
(* What a filing says, and what the scorer makes of it, are choices of the *)
(* model.  Time counts half days, so that a day can begin at two moments:  *)
(* costs are booked under the UTC day and looked up under the local one.   *)
(***************************************************************************)
EXTENDS NewsExecutor

CONSTANTS
    Wire,       \* the events that come from the press wires, not from EDGAR
    MaxCycles,  \* strategy.max_cycles_per_day
    MaxClock,   \* half days the model looks at (bound)
    MaxMishaps, \* stops and deaths it looks at (bound)
    Shifts      \* half days the local date may be ahead of the UTC date

ASSUME WireAssumption == Wire \subseteq Events
ASSUME MaxCyclesAssumption == MaxCycles \in Nat \ {0}
ASSUME ClockAssumption == MaxClock \in Nat /\ MaxMishaps \in Nat /\ Shifts \subseteq {0, 1}

VARIABLES
    at,       \* what the daemon is doing
    poll,     \* the feed it is reading
    batch,    \* the entries of it still to be looked at
    count,    \* _cycles_today
    countDay, \* _cycle_day, -1 at the start
    stop,     \* _stop
    old,      \* the events that have left the lookback of fifteen minutes
    stored,   \* the events in news.sqlite
    over,     \* the days whose recorded LLM costs have reached the cap
    clock,
    shift,    \* fixed: one of Shifts
    \* history, for the properties
    handled,  \* the events dropped or traded, to the end
    traded,   \* how often each event was executed
    cycles,   \* how many trades were begun in each UTC day
    mishaps   \* how often something happened that may lose an event

memVars == <<at, poll, batch, count, countDay, stop>>
worldVars == <<old, clock, shift>>
histVars == <<handled, traded, cycles, mishaps>>
vars == <<execVars, memVars, worldVars, stored, over, histVars>>

Days == 0..((MaxClock + 1) \div 2)
UtcDay == clock \div 2
LocalDay_Mutant == (clock + 1 - shift) \div 2
LocalDay == (clock + shift) \div 2

Init ==
    /\ ExecInit
    /\ at = "top" /\ poll = "edgar" /\ batch = {}
    /\ count = 0 /\ countDay = -1 /\ stop = FALSE
    /\ old = {} /\ stored = {} /\ over = {}
    /\ clock = 0 /\ shift \in Shifts
    /\ handled = {} /\ traded = [e \in Events |-> 0]
    /\ cycles = [d \in Days |-> 0] /\ mishaps = 0

-----------------------------------------------------------------------------
(* A poll *)

\* What a feed has within the lookback and the store has not.  A poll finds some of
\* it: the rest is not published yet, or the fetch fails and it finds nothing.
Entries(p) == {e \in Events : (p = "wire") = (e \in Wire)} \ (old \cup stored)

\* The top of the loop: the counter of a new day, then EDGAR.
PollBegins_Mutant ==
    /\ at = "top" /\ ~stop
    /\ at' = "read" /\ poll' = "edgar" /\ batch' \in SUBSET Entries("edgar")
    /\ count' = 0 /\ countDay' = UtcDay
    /\ UNCHANGED <<execVars, stop, worldVars, stored, over, histVars>>
PollBegins ==
    /\ at = "top" /\ ~stop
    /\ at' = "read" /\ poll' = "edgar" /\ batch' \in SUBSET Entries("edgar")
    /\ count' = IF countDay # UtcDay THEN 0 ELSE count
    /\ countDay' = UtcDay
    /\ UNCHANGED <<execVars, stop, worldVars, stored, over, histVars>>

\* Nothing is left in a feed: on to the press wires, or to the pause.
FeedEnds ==
    /\ at = "read" /\ batch = {}
    /\ IF poll = "edgar"
       THEN at' = at /\ poll' = "wire" /\ batch' \in SUBSET Entries("wire")
       ELSE at' = "top" /\ UNCHANGED <<poll, batch>>
    /\ UNCHANGED <<execVars, count, countDay, stop, worldVars, stored, over, histVars>>

\* The generator stores the next entry and, if it is new, yields it.  A stop that
\* was requested is looked at only then: it ends this feed, and loses the entry.
UpsertAll_Mutant(e) == stored' = stored \cup {e} \cup batch
UpsertNone_Mutant(e) == stored' = stored
Upsert(e) == stored' = stored \cup {e}
Take(e) ==
    /\ at = "read" /\ e \in batch
    /\ Upsert(e)
    /\ IF e \in stored \/ stop
       THEN /\ batch' = IF stop /\ e \notin stored THEN {} ELSE batch \ {e}
            /\ UNCHANGED <<at, pc, cur>>
       ELSE /\ batch' = batch \ {e} /\ at' = "score" /\ cur' = e
            /\ UNCHANGED pc
    /\ UNCHANGED <<faults, dryRun, orderVars, tradeVars, equityVars,
                   poll, count, countDay, stop, worldVars, over, histVars>>

-----------------------------------------------------------------------------
(* handle_event *)

\* The event is done with: excluded, without a ticker, outside the universe, not
\* scored, or not let through.  From these points a drop is always possible.
Drop ==
    /\ at \in {"score", "gate"}
    /\ at' = "read" /\ cur' = NoEvent /\ handled' = handled \cup {cur}
    /\ UNCHANGED <<faults, dryRun, orderVars, tradeVars, equityVars, pc, poll,
                   batch, count, countDay, stop, worldVars, stored, over, traded, cycles,
                   mishaps>>

\* _score_event: the cost is booked under the UTC day, whatever the answer is
\* worth.
Books == {over, over \cup {UtcDay}}
Score ==
    /\ at = "score" /\ at' = "gate"
    /\ over' \in Books
    /\ UNCHANGED <<execVars, poll, batch, count, countDay, stop, worldVars, stored,
                   histVars>>

\* A trade in the ticker's shares is open, as far as the account tells.
Open(t) == net[t] # 0

\* The gate lets the event through to the executor.
GateOpen == count < MaxCycles /\ (~Open(Ticker) \/ dryRun \/ "blind" \in faults)
Gate ==
    /\ at = "gate" /\ GateOpen
    /\ at' = "execute" /\ pc' = "guard"
    /\ traded' = [traded EXCEPT ![cur] = @ + 1]
    /\ cycles' = [cycles EXCEPT ![UtcDay] = @ + 1]
    /\ UNCHANGED <<faults, dryRun, orderVars, tradeVars, equityVars, cur, poll,
                   batch, count, countDay, stop, worldVars, stored, over, handled, mishaps>>

\* A step of the executor.
Trade ==
    /\ at = "execute" /\ Execute(LocalDay \in over)
    /\ UNCHANGED <<memVars, worldVars, stored, over, histVars>>

\* execute returned, whatever it did: it counts as a cycle.
Return_Mutant == FALSE
Return ==
    /\ at = "execute" /\ pc = "returned"
    /\ at' = "read" /\ pc' = "off" /\ cur' = NoEvent
    /\ count' = count + 1 /\ handled' = handled \cup {cur}
    /\ UNCHANGED <<faults, dryRun, orderVars, tradeVars, equityVars, poll, batch,
                   countDay, stop, worldVars, stored, over, traded, cycles, mishaps>>

\* An exception, of the executor, of a scorer that cannot be used at all or in an answer
\* that is no record of numbers, which is paid for by then, ends the poll.  The rest of
\* the batch comes back, the event in hand does not.
Abort ==
    /\ pc = "raised" \/ (at \in {"score", "gate"} /\ "llm" \in faults)
    /\ at' = "top" /\ batch' = {} /\ pc' = "off" /\ cur' = NoEvent
    /\ mishaps' = mishaps + 1
    /\ UNCHANGED <<faults, dryRun, orderVars, tradeVars, equityVars, poll, count,
                   countDay, stop, worldVars, stored, over, handled, traded, cycles>>

-----------------------------------------------------------------------------
(* Stop, death and restart *)

RequestStop ==
    /\ "stop" \in faults /\ at # "down" /\ ~stop /\ mishaps < MaxMishaps
    /\ stop' = TRUE /\ mishaps' = mishaps + 2
    /\ UNCHANGED <<execVars, at, poll, batch, count, countDay, worldVars, stored, over,
                   handled, traded, cycles>>

\* The loop ends, or the process is killed wherever it is.
Ends ==
    \/ at = "top" /\ stop /\ UNCHANGED mishaps
    \/ /\ "stop" \in faults /\ at # "down" /\ mishaps < MaxMishaps
       /\ mishaps' = mishaps + 1
Down ==
    /\ Ends
    /\ at' = "down" /\ pc' = "off" /\ cur' = NoEvent /\ batch' = {}
    /\ UNCHANGED <<faults, dryRun, orderVars, tradeVars, equityVars, poll, count,
                   countDay, stop, worldVars, stored, over, handled, traded, cycles>>

Restart ==
    /\ at = "down"
    /\ at' = "top" /\ count' = 0 /\ countDay' = -1 /\ stop' = FALSE
    /\ UNCHANGED <<execVars, poll, batch, worldVars, stored, over, histVars>>

-----------------------------------------------------------------------------
(* Around the daemon *)

\* An event leaves the lookback of fifteen minutes while the daemon is held up: polls
\* a minute apart do not miss it.
Ages(e) ==
    /\ e \notin old \cup stored /\ (at \in {"execute", "down"} \/ stop)
    /\ old' = old \cup {e}
    /\ UNCHANGED <<execVars, memVars, clock, shift, stored, over, histVars>>

Tick ==
    /\ clock < MaxClock /\ clock' = clock + 1
    /\ UNCHANGED <<execVars, memVars, old, shift, stored, over, histVars>>

\* crawl_once of rss_crawler.py stores the same headline of a press wire.
Crawl(e) ==
    /\ "crawler" \in faults /\ e \in Wire \ stored
    /\ stored' = stored \cup {e}
    /\ UNCHANGED <<execVars, memVars, worldVars, over, histVars>>

TheMarket == Market /\ UNCHANGED <<memVars, worldVars, stored, over, histVars>>

Daemon ==
    \/ PollBegins \/ FeedEnds \/ (\E e \in Events : Take(e)) \/ Score \/ Gate \/ Drop
    \/ Trade \/ Return \/ Abort

\* The poll that finds the feed there.
EdgarAnswers == PollBegins /\ batch' = Entries("edgar")
WireAnswers == poll = "edgar" /\ FeedEnds /\ batch' = Entries("wire")

Next ==
    \/ Daemon \/ RequestStop \/ Down \/ Restart
    \/ (\E e \in Events : Ages(e) \/ Crawl(e))
    \/ Tick \/ TheMarket

Spec == Init /\ [][Next]_vars

\* The one thread goes on unless it is stopped, and a feed does not stay away.
FairSpec == Spec /\ WF_vars(Daemon) /\ SF_vars(EdgarAnswers) /\ SF_vars(WireAnswers)

-----------------------------------------------------------------------------
(* What is claimed *)

TypeOK ==
    /\ ExecTypeOK
    /\ at \in {"down", "top", "read", "score", "gate", "execute"}
    /\ poll \in {"edgar", "wire"} /\ batch \subseteq Events
    /\ count \in Nat /\ countDay \in Days \cup {-1} /\ stop \in BOOLEAN
    /\ old \subseteq Events
    /\ stored \subseteq Events /\ over \subseteq Days
    /\ clock \in 0..MaxClock /\ shift \in Shifts
    /\ handled \subseteq Events /\ traded \in [Events -> Nat]
    /\ cycles \in [Days -> Nat] /\ mishaps \in Nat

\* An event is traded at most once, whatever fails and however often the daemon is
\* stopped, killed and started again: store.upsert comes before everything else, and
\* outlives the process.
EventOnce == \A e \in Events : traded[e] <= 1

\* max_cycles_per_day holds within a factor of two: the counter is reset at the top of
\* the loop only, so a poll that runs past midnight trades on the old counter, and the
\* next one on a new.  A trade that raises (also for want of the account) is not counted,
\* and a restart forgets the counter (daemon.py 61 and 179); no bound holds then.
CyclesPerDay ==
    faults \cap {"raise", "blind", "stop"} = {} => \A d \in Days : cycles[d] <= 2 * MaxCycles

\* An event that was stored and is neither dropped, nor traded to the end, nor in hand,
\* was lost to an exception, a stop or a kill, which lose no more than one of each feed
\* in progress: the pollers store lazily, one entry at a time (rss_live.py 72).  The
\* crawler, which works on the same store, takes what it likes from the daemon.
LossBounded ==
    "crawler" \notin faults => Cardinality((stored \ handled) \ {cur}) <= mishaps

\* The mishaps that leave shares nobody looks after.
Careless == faults \cap {"late", "close", "raise", "dayend", "stop"} # {}

\* Without them the ledger agrees with the broker about every trade that is over: an
\* entry exactly where shares were bought, of all of them if the order filled whole and
\* of no fewer if it did not; an exit of the same quantity; and nothing left of it.
LedgerSettled ==
    (~dryRun /\ ~Careless) =>
        /\ \A e \in Events \ {cur} :
              /\ exited[e] = entered[e] /\ got[e] <= entered[e]
              /\ entered[e] > 0 <=> got[e] > 0
              /\ order[e] = "filled" => entered[e] = got[e]
        /\ \A t \in Tickers : at # "execute" \/ Ticker # t => net[t] = 0

\* "call record_trade() after every fill" (ledger.py 4): what was bought is in the
\* ledger once the trade is over.
FillsRecorded == ~dryRun => \A e \in Events \ {cur} : got[e] > 0 => entered[e] > 0

Sends(e) == order[e] = "none" /\ order'[e] # "none"

\* No entry is sent once an equity row of the ledger is max_dd_pct below the best one,
\* nor after a restart (executor._ok_to_trade; equity is recorded after trades only).
DrawdownStops == [][\A e \in Events : Sends(e) =>
    ~halted /\ (peak = 0 \/ (peak - recorded) * 100 < MaxDrawdown * peak)]_vars

\* No entry is sent on a day whose LLM costs have reached the cap, where the local date
\* is the UTC date.  Elsewhere cost_meter.today_spend_usd looks up another day.
BudgetStops == [][\A e \in Events : Sends(e) /\ shift = 0 => UtcDay \notin over]_vars

\* The daemon's trades are those of TradeExposure: one at a time, and only a mishap
\* leaves shares, or an order, that nobody looks after.
Exposure == [t \in Tickers |->
    IF cur # NoEvent /\ Ticker = t /\ pc \in {"wait", "cancel"} THEN "ordered"
    ELSE IF cur # NoEvent /\ Ticker = t /\ pc \in {"enter", "hold", "close", "book"}
    THEN "watched"
    ELSE IF net[t] # 0 \/ Working(t) # {} THEN "unwatched" ELSE "flat"]
Promised == INSTANCE TradeExposure WITH careless <- Careless, exposure <- Exposure
OneTradeInHand == Promised!Spec

\* A trade leaves the executor's hands in the end: the wait and the hold have deadlines.
TradeEnds == Promised!Fairness

\* An event in a feed is stored, and so handled, or has left the lookback because the
\* daemon was busy with a trade.
NewsTaken == \A e \in Events :
    ("stop" \notin faults) ~> (e \in stored \cup old)
=============================================================================
