--------------------------- MODULE NewsDaemonProofs ---------------------------
(***************************************************************************)
(* Theorems about NewsDaemon for any events, tickers, caps and faults.     *)
(***************************************************************************)
EXTENDS NewsDaemon, TLAPS

-----------------------------------------------------------------------------
(* Types *)

\* Which event is in hand, and where the executor is, while the daemon is at something.
Phases ==
    /\ at \in {"score", "gate", "execute"} => cur \in Events
    /\ at \notin {"score", "gate", "execute"} => cur = NoEvent
    /\ at = "execute" => pc \in ExecPCs \cup {"returned", "raised"}
    /\ at # "execute" => pc = "off"

\* What the constants are.
LEMMA Given ==
    /\ NoEvent \notin Events /\ TickerOf \in [Events -> Tickers]
    /\ Lot \in Nat /\ Lot > 0 /\ Levels \subseteq Nat \ {0} /\ MaxDrawdown \in Nat
    /\ MaxCycles \in Nat /\ MaxCycles > 0 /\ MaxClock \in Nat /\ Shifts \subseteq {0, 1}
BY EventsAssumption, TickersAssumption, LotAssumption, LevelsAssumption,
   MaxCyclesAssumption, ClockAssumption

\* A step of the executor keeps the types of the broker, the ledger and the executor,
\* and leaves the event in hand there.
LEMMA ExecuteTypes ==
    ASSUME ExecTypeOK, cur \in Events, NEW o \in BOOLEAN, Execute(o)
    PROVE  ExecTypeOK' /\ cur' = cur /\ pc' \in ExecPCs \cup {"returned", "raised"}
<1> USE DEF ExecTypeOK, orderVars, tradeVars, equityVars, ExecPCs, OrderStates, At
<1>1. CASE Guard(o)
  <2>1. halted' \in BOOLEAN
    BY <1>1 DEF Guard, Halts
  <2> QED BY <1>1, <2>1 DEF Guard
<1>2. CASE Size
  BY <1>2 DEF Size
<1>3. ASSUME NEW s \in {-1, 1}, Place(s)
      PROVE  ExecTypeOK' /\ cur' = cur /\ pc' \in ExecPCs \cup {"returned", "raised"}
  <2>1. order' \in [Events -> OrderStates] /\ side' \in [Events -> {-1, 0, 1}]
    BY <1>3 DEF Place, Submit, Taken
  <2> QED BY <1>3, <2>1 DEF Place
<1>4. CASE WaitEnds
  BY <1>4 DEF WaitEnds
<1>5. CASE Cancel
  <2>1. order' \in [Events -> OrderStates]
    BY <1>5 DEF Cancel
  <2> QED BY <1>5, <2>1 DEF Cancel
<1>6. CASE CancelFails
  BY <1>6 DEF CancelFails
<1>7. CASE RecordEntry
  <2>1. entered' \in [Events -> 0..Lot]
    BY <1>7, Given DEF RecordEntry
  <2> QED BY <1>7, <2>1 DEF RecordEntry
<1>8. CASE HoldEnds
  BY <1>8 DEF HoldEnds
<1>9. CASE Close
  <2>1. order' \in [Events -> OrderStates] /\ legs' \in [Events -> 0..Lot]
        /\ net' \in [Tickers -> Int]
    BY <1>9, Given DEF Close
  <2> QED BY <1>9, <2>1 DEF Close
<1>10. CASE RecordExit
  <2>1. exited' \in [Events -> 0..Lot]
    BY <1>10 DEF RecordExit
  <2> QED BY <1>10, <2>1 DEF RecordExit
<1>11. CASE RecordEquity
  <2>1. recorded' \in Levels \cup {0} /\ peak' \in Levels \cup {0}
    BY <1>11 DEF RecordEquity, NewRow
  <2> QED BY <1>11, <2>1 DEF RecordEquity
<1>12. CASE Raises
  <2>1. order' \in [Events -> OrderStates] /\ side' \in [Events -> {-1, 0, 1}]
    BY <1>12 DEF Raises, Submit, Taken
  <2> QED BY <1>12, <2>1 DEF Raises
<1> QED BY <1>1, <1>2, <1>3, <1>4, <1>5, <1>6, <1>7, <1>8, <1>9, <1>10, <1>11, <1>12
        DEF Execute

\* So does a step of the market.
LEMMA MarketTypes ==
    ASSUME ExecTypeOK, Market
    PROVE  ExecTypeOK' /\ cur' = cur /\ pc' = pc
<1> USE DEF ExecTypeOK, tradeVars, equityVars, OrderStates
<1>1. ASSUME NEW e \in Events, Fills(e) PROVE ExecTypeOK' /\ cur' = cur /\ pc' = pc
  <2>1. PICK q \in 1..(Lot - got[e]) :
           /\ got' = [got EXCEPT ![e] = @ + q]
           /\ net' = [net EXCEPT ![TickerOf[e]] = @ + q * side[e]]
           /\ order' = IF got[e] + q = Lot THEN [order EXCEPT ![e] = "filled"] ELSE order
           /\ legs' = IF got[e] + q = Lot THEN [legs EXCEPT ![e] = Lot] ELSE legs
    BY <1>1 DEF Fills
  <2>2. got' \in [Events -> 0..Lot] /\ order' \in [Events -> OrderStates]
        /\ legs' \in [Events -> 0..Lot]
    BY <2>1, Given
  <2>3. q * side[e] \in Int /\ TickerOf[e] \in Tickers
    BY Given
  <2>4. net[TickerOf[e]] + q * side[e] \in Int
    BY <2>3
  <2>5. net' \in [Tickers -> Int]
    BY <2>1, <2>3, <2>4
  <2> QED BY <1>1, <2>2, <2>5 DEF Fills
<1>2. ASSUME NEW e \in Events, LegFires(e) PROVE ExecTypeOK' /\ cur' = cur /\ pc' = pc
  <2>1. legs' \in [Events -> 0..Lot]
    BY <1>2, Given DEF LegFires
  <2>2. legs[e] * side[e] \in Int /\ TickerOf[e] \in Tickers
    BY Given
  <2>3. net[TickerOf[e]] - legs[e] * side[e] \in Int
    BY <2>2
  <2>4. \/ net' = net
        \/ net' = [net EXCEPT ![TickerOf[e]] = net[TickerOf[e]] - legs[e] * side[e]]
    BY <1>2 DEF LegFires
  <2>5. net' \in [Tickers -> Int]
    BY <2>2, <2>3, <2>4
  <2> QED BY <1>2, <2>1, <2>5 DEF LegFires
<1>3. CASE SessionEnds
  <2>1. order' \in [Events -> OrderStates] /\ legs' \in [Events -> 0..Lot]
    BY <1>3, Given DEF SessionEnds
  <2> QED BY <1>3, <2>1 DEF SessionEnds
<1> QED BY <1>1, <1>2, <1>3 DEF Market

\* A day's number is one of Days.
LEMMA DayKnown ==
    ASSUME clock \in 0..MaxClock
    PROVE  UtcDay \in Days
BY Given DEF UtcDay, Days

LEMMA FirstTypes == Init => TypeOK /\ Phases
<1> SUFFICES ASSUME Init PROVE TypeOK /\ Phases
  OBVIOUS
<1>1. recorded \in Levels \cup {0} /\ peak \in Levels \cup {0}
  BY LedgersAssumption DEF Init, ExecInit
<1>2. order \in [Events -> OrderStates] /\ side \in [Events -> {-1, 0, 1}]
      /\ net \in [Tickers -> Int]
  BY DEF Init, ExecInit, OrderStates
<1>3. /\ got \in [Events -> 0..Lot] /\ legs \in [Events -> 0..Lot]
      /\ entered \in [Events -> 0..Lot] /\ exited \in [Events -> 0..Lot]
  BY Given DEF Init, ExecInit
<1>4. ExecTypeOK
  BY <1>1, <1>2, <1>3 DEF Init, ExecInit, ExecTypeOK, ExecPCs
<1>5. clock \in 0..MaxClock /\ traded \in [Events -> Nat] /\ cycles \in [Days -> Nat]
  BY Given DEF Init
<1>6. Phases
  BY DEF Init, ExecInit, Phases
<1> QED BY <1>4, <1>5, <1>6 DEF Init, TypeOK

\* Every step keeps the types and the phases.
LEMMA StepTypes == TypeOK /\ Phases /\ [Next]_vars => TypeOK' /\ Phases'
<1> SUFFICES ASSUME TypeOK, Phases, [Next]_vars PROVE TypeOK' /\ Phases'
  OBVIOUS
<1> USE DEF TypeOK, Phases
<1>d. UtcDay \in Days
  BY DayKnown
<1>n. NoEvent \notin Events
  BY Given
<1> DEFINE Exec == execVars' = execVars
           Broker == <<faults, dryRun, orderVars, tradeVars, equityVars>>
<1>e. ASSUME Exec PROVE ExecTypeOK' /\ pc' = pc /\ cur' = cur
  BY <1>e DEF ExecTypeOK, execVars, orderVars, tradeVars, equityVars
<1>b. ASSUME Broker' = Broker, pc' \in ExecPCs \cup {"off", "returned", "raised"},
             cur' \in Events \cup {NoEvent}
      PROVE  ExecTypeOK'
  BY <1>b DEF ExecTypeOK, orderVars, tradeVars, equityVars
<1>1. CASE PollBegins
  <2>1. batch' \subseteq Events
    BY <1>1 DEF PollBegins, Entries
  <2> QED BY <1>1, <1>d, <1>e, <2>1 DEF PollBegins, worldVars, histVars
<1>2. CASE FeedEnds
  <2>1. batch' \subseteq Events
    BY <1>2 DEF FeedEnds, Entries
  <2> QED BY <1>2, <1>e, <2>1 DEF FeedEnds, worldVars, histVars
<1>3. ASSUME NEW e \in Events, Take(e) PROVE TypeOK' /\ Phases'
  <2>1. stored' \subseteq Events /\ batch' \subseteq Events
    BY <1>3 DEF Take, Upsert
  <2>2. CASE e \in stored \/ stop
    BY <1>3, <1>b, <2>1, <2>2 DEF Take, worldVars, histVars
  <2>3. CASE ~(e \in stored \/ stop)
    BY <1>3, <1>b, <2>1, <2>3 DEF Take, worldVars, histVars
  <2> QED BY <2>2, <2>3
<1>4. CASE Drop
  BY <1>4, <1>b, <1>n DEF Drop, worldVars
<1>5. CASE Score
  <2>1. over' \subseteq Days
    BY <1>5, <1>d DEF Score, Books
  <2> QED BY <1>5, <1>e, <2>1 DEF Score, worldVars, histVars
<1>6. CASE Gate
  <2>1. traded' \in [Events -> Nat] /\ cycles' \in [Days -> Nat]
    BY <1>6, <1>d DEF Gate
  <2>2. ExecTypeOK' /\ pc' \in ExecPCs
    BY <1>6, <1>b DEF Gate, ExecPCs
  <2> QED BY <1>6, <2>1, <2>2 DEF Gate, worldVars
<1>7. CASE Trade
  <2> DEFINE o == LocalDay \in over
  <2>1. o \in BOOLEAN /\ Execute(o) /\ at = "execute"
    BY <1>7 DEF Trade
  <2> HIDE DEF o
  <2>2. ExecTypeOK' /\ cur' = cur /\ pc' \in ExecPCs \cup {"returned", "raised"}
    BY <2>1, ExecuteTypes
  <2> QED BY <1>7, <2>1, <2>2 DEF Trade, memVars, worldVars, histVars
<1>8. CASE Return
  BY <1>8, <1>b DEF Return, worldVars
<1>9. CASE Abort
  BY <1>9, <1>b DEF Abort, worldVars
<1>10. CASE RequestStop
  BY <1>10, <1>e DEF RequestStop, worldVars
<1>11. CASE Down
  <2>1. mishaps' \in Nat
    BY <1>11 DEF Down, Ends
  <2> QED BY <1>11, <1>b, <2>1 DEF Down, worldVars
<1>12. CASE Restart
  BY <1>12, <1>e DEF Restart, worldVars, histVars
<1>13. ASSUME NEW e \in Events, Ages(e) PROVE TypeOK' /\ Phases'
  BY <1>13, <1>e DEF Ages, memVars, histVars
<1>14. ASSUME NEW e \in Events, Crawl(e) PROVE TypeOK' /\ Phases'
  BY <1>14, <1>e DEF Crawl, memVars, worldVars, histVars
<1>15. CASE Tick
  BY <1>15, <1>e, Given DEF Tick, memVars, histVars
<1>16. CASE TheMarket
  BY <1>16, MarketTypes DEF TheMarket, memVars, worldVars, histVars
<1>17. CASE UNCHANGED vars
  BY <1>17, <1>e DEF vars, memVars, worldVars, histVars
<1> QED
  BY <1>1, <1>2, <1>3, <1>4, <1>5, <1>6, <1>7, <1>8, <1>9, <1>10, <1>11, <1>12,
     <1>13, <1>14, <1>15, <1>16, <1>17 DEF Next, Daemon

\* The kinds of faults of a behaviour, and whether it is a dry run, are fixed.
LEMMA FaultsFixed ==
    ASSUME [Next]_vars
    PROVE  faults' = faults /\ dryRun' = dryRun
BY DEF Next, Daemon, vars, execVars, PollBegins, FeedEnds, Take, Drop, Score, Gate,
       Trade, Return, Abort, RequestStop, Down, Restart, Ages, Crawl, Tick, TheMarket,
       Market, Fills, LegFires, SessionEnds, Execute, Guard, Size, Place, WaitEnds,
       Cancel, CancelFails, RecordEntry, HoldEnds, Close, RecordExit, RecordEquity,
       Raises

\* The variables of the daemon, its executor and its broker keep their types.
THEOREM NewsTypes == Spec => []TypeOK
<1>1. Spec => [](TypeOK /\ Phases)
  BY FirstTypes, StepTypes, PTL DEF Spec
<1> QED BY <1>1, PTL

-----------------------------------------------------------------------------
(* An event is traded once *)

\* What is not stored was never traded, and what is on the way to the gate is stored
\* and not traded yet.
OnceOnly ==
    /\ \A e \in Events : traded[e] <= 1 /\ (e \notin stored => traded[e] = 0)
    /\ at \in {"score", "gate"} => cur \in stored /\ traded[cur] = 0

LEMMA OnceStep == TypeOK /\ Phases /\ OnceOnly /\ [Next]_vars => OnceOnly'
<1> SUFFICES ASSUME TypeOK, Phases, OnceOnly, [Next]_vars PROVE OnceOnly'
  OBVIOUS
<1> USE DEF OnceOnly, TypeOK, Phases
<1>1. CASE PollBegins
  BY <1>1 DEF PollBegins, histVars
<1>2. CASE FeedEnds
  BY <1>2 DEF FeedEnds, histVars
<1>3. ASSUME NEW e \in Events, Take(e) PROVE OnceOnly'
  <2>1. /\ stored' = stored \cup {e} /\ traded' = traded
        /\ at' \in {"score", "gate"} => cur' = e /\ e \notin stored
    BY <1>3 DEF Take, Upsert, histVars
  <2> QED BY <2>1
<1>4. CASE Drop
  BY <1>4 DEF Drop
<1>5. CASE Score
  BY <1>5 DEF Score, execVars, histVars
<1>6. CASE Gate
  <2>1. /\ at = "gate" /\ at' = "execute" /\ stored' = stored
        /\ traded' = [traded EXCEPT ![cur] = @ + 1]
    BY <1>6 DEF Gate
  <2>2. cur \in Events /\ cur \in stored /\ traded[cur] = 0
    BY <2>1
  <2>3. traded'[cur] = 1 /\ \A e \in Events \ {cur} : traded'[e] = traded[e]
    BY <2>1, <2>2
  <2> QED BY <2>1, <2>2, <2>3
<1>7. CASE Trade
  BY <1>7 DEF Trade, memVars, histVars
<1>8. CASE Return
  BY <1>8 DEF Return
<1>9. CASE Abort
  BY <1>9 DEF Abort
<1>10. CASE RequestStop
  BY <1>10 DEF RequestStop, execVars
<1>11. CASE Down
  BY <1>11 DEF Down
<1>12. CASE Restart
  BY <1>12 DEF Restart, histVars
<1>13. ASSUME NEW e \in Events, Ages(e) PROVE OnceOnly'
  BY <1>13 DEF Ages, execVars, memVars, histVars
<1>14. ASSUME NEW e \in Events, Crawl(e) PROVE OnceOnly'
  BY <1>14 DEF Crawl, execVars, memVars, histVars
<1>15. CASE Tick
  BY <1>15 DEF Tick, execVars, memVars, histVars
<1>16. CASE TheMarket
  BY <1>16, MarketTypes DEF TheMarket, memVars, histVars
<1>17. CASE UNCHANGED vars
  BY <1>17 DEF vars, execVars, memVars, histVars
<1> QED
  BY <1>1, <1>2, <1>3, <1>4, <1>5, <1>6, <1>7, <1>8, <1>9, <1>10, <1>11, <1>12,
     <1>13, <1>14, <1>15, <1>16, <1>17 DEF Next, Daemon

\* EventOnce: whatever raises, and however often the daemon is stopped, killed and
\* started again, it executes no event twice.
THEOREM NoEventTwice == Spec => []EventOnce
<1>1. Init => OnceOnly
  BY DEF Init, OnceOnly
<1>2. OnceOnly => EventOnce
  BY DEF OnceOnly, EventOnce
<1>3. Spec => [](TypeOK /\ Phases /\ OnceOnly)
  BY <1>1, FirstTypes, StepTypes, OnceStep, PTL DEF Spec
<1> QED BY <1>2, <1>3, PTL

-----------------------------------------------------------------------------
(* What the guards let through *)

\* An entry is sent at one place, for the event in hand.
LEMMA SentAtPlace ==
    ASSUME TypeOK, Phases, [Next]_vars, NEW e \in Events, Sends(e)
    PROVE  at = "execute" /\ pc = "place" /\ cur = e
<1> USE DEF TypeOK, ExecTypeOK, Phases
<1>1. CASE order' = order
  BY <1>1 DEF Sends
<1>2. CASE Trade
  <2>1. at = "execute" /\ Execute(LocalDay \in over)
    BY <1>2 DEF Trade
  <2>2. ASSUME NEW s \in {-1, 1}, Submit(s) PROVE cur = e
    BY <2>2 DEF Submit, Sends
  <2>3. CASE \E s \in {-1, 1} : Place(s)
    BY <1>1, <2>1, <2>2, <2>3 DEF Place, At
  <2>4. CASE Raises
    BY <1>1, <2>1, <2>2, <2>4 DEF Raises
  <2>5. CASE Cancel
    BY <2>5 DEF Cancel, Sends
  <2>6. CASE Close
    BY <2>6 DEF Close, Sends, Working
  <2> QED
    BY <1>1, <2>1, <2>3, <2>4, <2>5, <2>6
       DEF Execute, orderVars, Guard, Size, WaitEnds, CancelFails, RecordEntry,
           HoldEnds, RecordExit, RecordEquity
<1>3. CASE TheMarket
  <2>1. ASSUME NEW f \in Events, Fills(f) PROVE FALSE
    BY <2>1 DEF Fills, Sends
  <2>2. CASE SessionEnds
    BY <2>2 DEF SessionEnds, Sends
  <2> QED BY <1>1, <1>3, <2>1, <2>2 DEF TheMarket, Market, LegFires
<1> QED
  BY <1>1, <1>2, <1>3
     DEF Next, Daemon, vars, execVars, orderVars, PollBegins, FeedEnds, Take, Drop,
         Score, Gate, Return, Abort, RequestStop, Down, Restart, Ages, Crawl, Tick

\* Between the guard and the entry nothing is recorded.
Cleared == pc \in {"size", "place"} => ~halted /\ ~Breached

LEMMA ClearedStep == TypeOK /\ Phases /\ Cleared /\ [Next]_vars => Cleared'
<1> SUFFICES ASSUME TypeOK, Phases, Cleared, [Next]_vars, pc' \in {"size", "place"}
             PROVE  ~halted' /\ ~Breached'
  BY DEF Cleared
<1>1. CASE pc' = pc /\ UNCHANGED equityVars
  BY <1>1 DEF Cleared, equityVars, Breached
<1>2. CASE Trade
  <2> DEFINE o == LocalDay \in over
  <2>1. o \in BOOLEAN /\ Execute(o)
    BY <1>2 DEF Trade
  <2> HIDE DEF o
  <2>2. CASE Guard(o)
    BY <2>2 DEF Guard, Halts, Breached, TypeOK, ExecTypeOK
  <2>3. CASE Size
    BY <2>3 DEF Size, At, Cleared, equityVars, Breached
  <2> QED
    BY <2>1, <2>2, <2>3
       DEF Execute, Place, At, WaitEnds, Cancel, CancelFails, RecordEntry, HoldEnds,
           Close, RecordExit, RecordEquity, Raises
<1> QED
  BY <1>1, <1>2
     DEF Next, Daemon, vars, execVars, PollBegins, FeedEnds, Take, Drop,
         Score, Gate, Return, Abort, RequestStop, Down, Restart, Ages, Crawl, Tick,
         TheMarket, Market, Fills, LegFires, SessionEnds

\* DrawdownStops: whatever the account was worth at each recording, no entry is sent
\* while the latest equity row is too far below the largest, or after the halt.
THEOREM DrawdownGuards == Spec => DrawdownStops
<1>1. Init => Cleared
  BY DEF Init, ExecInit, Cleared
<1> DEFINE Step == \A e \in Events : Sends(e) =>
              ~halted /\ (peak = 0 \/ (peak - recorded) * 100 < MaxDrawdown * peak)
<1>2. TypeOK /\ Phases /\ Cleared /\ [Next]_vars => [Step]_vars
  <2> SUFFICES ASSUME TypeOK, Phases, Cleared, [Next]_vars, NEW e \in Events, Sends(e)
               PROVE  ~halted /\ (peak = 0
                                  \/ (peak - recorded) * 100 < MaxDrawdown * peak)
    OBVIOUS
  <2>1. ~halted /\ ~Breached
    BY SentAtPlace DEF Cleared
  <2>2. peak \in Nat /\ recorded \in Nat /\ MaxDrawdown \in Nat
    BY Given DEF TypeOK, ExecTypeOK
  <2>3. (peak - recorded) * 100 \in Int /\ MaxDrawdown * peak \in Int
    BY <2>2
  <2> QED BY <2>1, <2>2, <2>3 DEF Breached
<1>3. Spec => [](TypeOK /\ Phases /\ Cleared)
  BY <1>1, FirstTypes, StepTypes, ClearedStep, PTL DEF Spec
<1> QED BY <1>2, <1>3, PTL DEF Spec, DrawdownStops

\* What is booked is booked under a day that has come, and where the dates agree no
\* trade is between its guard and its entry on a day over the cap.
InBudget ==
    /\ \A d \in over : d <= UtcDay
    /\ pc \in {"size", "place"} /\ shift = 0 => UtcDay \notin over

LEMMA InBudgetStep == TypeOK /\ Phases /\ InBudget /\ [Next]_vars => InBudget'
<1> SUFFICES ASSUME TypeOK, Phases, InBudget, [Next]_vars PROVE InBudget'
  OBVIOUS
<1> USE DEF TypeOK, Phases
<1>1. CASE pc' \in {pc, "off", "guard"} /\ UNCHANGED <<clock, shift, over>>
  BY <1>1 DEF InBudget, UtcDay
<1>2. CASE Score
  <2>1. pc' = "off" /\ clock' = clock /\ over' \in Books
    BY <1>2 DEF Score, execVars, worldVars
  <2>2. UtcDay' = UtcDay /\ UtcDay \in Days
    BY <2>1, DayKnown DEF UtcDay
  <2>3. UtcDay \in Int
    BY <2>2 DEF Days
  <2> QED BY <2>1, <2>2, <2>3 DEF InBudget, Books
<1>3. CASE Trade
  <2> DEFINE o == LocalDay \in over
  <2>1. o \in BOOLEAN /\ Execute(o) /\ UNCHANGED <<clock, shift, over>>
    BY <1>3 DEF Trade, worldVars
  <2>2. UtcDay' = UtcDay
    BY <2>1 DEF UtcDay
  <2>3. CASE Guard(o)
    <3>1. pc' \in {"size", "place"} => LocalDay \notin over
      BY <2>3 DEF Guard
    <3>2. shift = 0 => LocalDay = UtcDay
      BY DEF LocalDay, UtcDay
    <3> QED BY <2>1, <2>2, <3>1, <3>2 DEF InBudget
  <2>4. CASE Size
    BY <2>1, <2>2, <2>4 DEF Size, At, InBudget
  <2>5. CASE pc' \notin {"size", "place"}
    BY <2>1, <2>2, <2>5 DEF InBudget
  <2> HIDE DEF o
  <2> QED
    BY <2>1, <2>3, <2>4, <2>5
       DEF Execute, Place, At, WaitEnds, Cancel, CancelFails, RecordEntry, HoldEnds,
           Close, RecordExit, RecordEquity, Raises
<1>4. CASE Tick
  <2>1. clock' = clock + 1 /\ UNCHANGED <<pc, shift, over>> /\ clock \in Nat
    BY <1>4, Given DEF Tick, execVars
  <2>2. UtcDay \in Int /\ (UtcDay' = UtcDay \/ UtcDay' = UtcDay + 1)
    BY <2>1 DEF UtcDay
  <2>3. over \subseteq Int
    BY DEF Days
  <2> QED BY <2>1, <2>2, <2>3 DEF InBudget
<1> QED
  BY <1>1, <1>2, <1>3, <1>4
     DEF Next, Daemon, vars, worldVars, execVars, PollBegins, FeedEnds, Take, Drop,
         Gate, Return, Abort, RequestStop, Down, Restart, Ages, Crawl,
         TheMarket, Market, Fills, LegFires, SessionEnds

\* BudgetStops: where the local date is the UTC date, no entry is sent on a day whose
\* recorded costs have reached the cap, however long sizing and sending take.
THEOREM BudgetGuards == Spec => BudgetStops
<1>1. Init => InBudget
  BY DEF Init, ExecInit, InBudget
<1> DEFINE Step == \A e \in Events : Sends(e) /\ shift = 0 => UtcDay \notin over
<1>2. TypeOK /\ Phases /\ InBudget /\ [Next]_vars => [Step]_vars
  BY SentAtPlace DEF InBudget
<1>3. Spec => [](TypeOK /\ Phases /\ InBudget)
  BY <1>1, FirstTypes, StepTypes, InBudgetStep, PTL DEF Spec
<1> QED BY <1>2, <1>3, PTL DEF Spec, BudgetStops

-----------------------------------------------------------------------------
(* The trades of a day *)

\* Without exceptions of execute, stops and deaths: the counter and the trade in hand account for
\* all of the day's trades, or, once the counter of the day was begun anew, for all but
\* what the last poll of the day before traded in it.
Quiet == faults \cap {"raise", "blind", "stop"} = {}
InHand == IF at = "execute" THEN 1 ELSE 0
Counted ==
    /\ pc # "raised" /\ at # "down" /\ stop = FALSE
    /\ count + InHand <= MaxCycles /\ countDay <= UtcDay
    /\ \A d \in Days : cycles[d] <= 2 * MaxCycles /\ (d > UtcDay => cycles[d] = 0)
    /\ countDay < UtcDay => cycles[UtcDay] <= count + InHand
    /\ cycles[UtcDay] <= MaxCycles + count + InHand

\* A step that leaves the counter, the clock and the trade in hand alone.
LEMMA CountedSame ==
    ASSUME TypeOK, Counted, stop' = stop, pc' # "raised", at' # "down",
           InHand' = InHand, UNCHANGED <<count, countDay, clock, cycles>>
    PROVE  Counted'
BY DEF Counted, UtcDay

LEMMA CountedStep ==
    TypeOK /\ Phases /\ (Quiet => Counted) /\ [Next]_vars => (Quiet' => Counted')
<1> SUFFICES ASSUME TypeOK, Phases, Quiet => Counted, [Next]_vars, Quiet' PROVE Counted'
  OBVIOUS
<1>q. Quiet /\ Counted
  BY FaultsFixed DEF Quiet
<1>d. UtcDay \in Days /\ Days \subseteq Int /\ count \in Nat /\ countDay \in Int
      /\ MaxCycles \in Nat /\ MaxCycles > 0 /\ cycles \in [Days -> Nat] /\ clock \in Nat
  BY DayKnown, Given DEF TypeOK, Days
<1>1. CASE PollBegins
  <2>1. /\ at = "top" /\ at' = "read" /\ stop' = stop /\ pc' = pc
        /\ clock' = clock /\ cycles' = cycles /\ countDay' = UtcDay
        /\ count' = IF countDay # UtcDay THEN 0 ELSE count
    BY <1>1 DEF PollBegins, execVars, worldVars, histVars
  <2>2. InHand = 0 /\ InHand' = 0 /\ UtcDay' = UtcDay
    BY <2>1 DEF InHand, UtcDay
  <2>3. CASE countDay = UtcDay
    BY <2>1, <2>2, <2>3, <1>q, <1>d DEF Counted
  <2>4. CASE countDay # UtcDay
    BY <2>1, <2>2, <2>4, <1>q, <1>d DEF Counted
  <2> QED BY <2>3, <2>4
<1>2. CASE FeedEnds
  BY <1>2, <1>q, CountedSame
     DEF FeedEnds, execVars, worldVars, histVars, InHand, Counted
<1>3. ASSUME NEW e \in Events, Take(e) PROVE Counted'
  BY <1>3, <1>q, CountedSame DEF Take, worldVars, histVars, InHand, Counted
<1>4. CASE Drop
  BY <1>4, <1>q, CountedSame DEF Drop, worldVars, InHand, Counted
<1>5. CASE Score
  BY <1>5, <1>q, CountedSame DEF Score, execVars, worldVars, histVars, InHand, Counted
<1>6. CASE Gate
  <2>1. /\ at = "gate" /\ at' = "execute" /\ stop' = stop /\ pc' = "guard"
        /\ clock' = clock /\ countDay' = countDay /\ count' = count
        /\ count < MaxCycles
        /\ cycles' = [cycles EXCEPT ![UtcDay] = @ + 1]
    BY <1>6 DEF Gate, GateOpen, worldVars
  <2>2. InHand = 0 /\ InHand' = 1 /\ UtcDay' = UtcDay
    BY <2>1 DEF InHand, UtcDay
  <2>3. cycles'[UtcDay] = cycles[UtcDay] + 1
        /\ \A d \in Days \ {UtcDay} : cycles'[d] = cycles[d]
    BY <2>1, <1>d
  <2>4. cycles[UtcDay] \in Nat /\ cycles[UtcDay] <= MaxCycles + count
        /\ (countDay < UtcDay => cycles[UtcDay] <= count)
    BY <2>2, <1>q, <1>d DEF Counted
  <2>5. cycles'[UtcDay] <= 2 * MaxCycles
    BY <2>1, <2>3, <2>4, <1>d
  <2>6. \A d \in Days : cycles'[d] <= 2 * MaxCycles /\ (d > UtcDay => cycles'[d] = 0)
    BY <2>3, <2>5, <1>q, <1>d DEF Counted
  <2> QED BY <2>1, <2>2, <2>3, <2>4, <2>6, <1>q, <1>d DEF Counted
<1>7. CASE Trade
  <2> DEFINE o == LocalDay \in over
  <2>1. /\ at = "execute" /\ o \in BOOLEAN /\ Execute(o)
        /\ UNCHANGED <<at, count, countDay, stop, clock, cycles>>
    BY <1>7 DEF Trade, memVars, worldVars, histVars
  <2> HIDE DEF o
  <2>2. "raise" \notin faults /\ "blind" \notin faults
    BY <1>q DEF Quiet
  <2>3. pc' # "raised"
    BY <2>1, <2>2
       DEF Execute, Guard, Size, Place, At, WaitEnds, Cancel, CancelFails, RecordEntry,
           HoldEnds, Close, RecordExit, RecordEquity, Raises
  <2> QED BY <2>1, <2>3, <1>q, CountedSame DEF InHand
<1>8. CASE Return
  <2>1. /\ at = "execute" /\ at' = "read" /\ pc' = "off" /\ stop' = stop
        /\ count' = count + 1 /\ UNCHANGED <<countDay, clock, cycles>>
    BY <1>8 DEF Return, worldVars
  <2>2. InHand = 1 /\ InHand' = 0 /\ UtcDay' = UtcDay
    BY <2>1 DEF InHand, UtcDay
  <2> QED BY <2>1, <2>2, <1>q, <1>d DEF Counted
<1>9. CASE Abort
  BY <1>9, <1>q, CountedSame DEF Abort, worldVars, InHand, Counted, Phases
<1>10. CASE RequestStop
  BY <1>10, <1>q DEF RequestStop, Quiet
<1>11. CASE Down
  BY <1>11, <1>q DEF Down, Ends, Quiet, Counted
<1>12. CASE Restart
  BY <1>12, <1>q DEF Restart, Counted
<1>13. ASSUME NEW e \in Events, Ages(e) PROVE Counted'
  BY <1>13, <1>q, CountedSame DEF Ages, execVars, memVars, histVars, InHand, Counted
<1>14. ASSUME NEW e \in Events, Crawl(e) PROVE Counted'
  BY <1>14, <1>q, CountedSame
     DEF Crawl, execVars, memVars, worldVars, histVars, InHand, Counted
<1>15. CASE Tick
  <2>1. /\ clock' = clock + 1 /\ clock' \in 0..MaxClock
        /\ UNCHANGED <<at, pc, stop, count, countDay, cycles>>
    BY <1>15, <1>d, Given DEF Tick, TypeOK, execVars, memVars, histVars
  <2>2. InHand' = InHand /\ InHand \in 0..1
    BY <2>1 DEF InHand
  <2>3. CASE UtcDay' = UtcDay
    BY <2>1, <2>2, <2>3, <1>q DEF Counted
  <2>4. CASE UtcDay' = UtcDay + 1
    <3>1. UtcDay' \in Days
      BY <2>1, Given DEF UtcDay, Days
    <3>2. cycles[UtcDay'] = 0
      BY <2>4, <3>1, <1>q, <1>d DEF Counted
    <3>3. \A d \in Days : cycles[d] <= 2 * MaxCycles /\ (d > UtcDay' => cycles[d] = 0)
      BY <2>4, <1>q, <1>d DEF Counted
    <3>4. countDay <= UtcDay' /\ count + InHand <= MaxCycles
      BY <2>4, <1>q, <1>d DEF Counted
    <3> QED BY <2>1, <2>2, <3>2, <3>3, <3>4, <1>q, <1>d DEF Counted
  <2>5. UtcDay' = UtcDay \/ UtcDay' = UtcDay + 1
    BY <2>1, <1>d DEF UtcDay
  <2> QED BY <2>3, <2>4, <2>5
<1>16. CASE TheMarket
  BY <1>16, <1>q, CountedSame, MarketTypes
     DEF TheMarket, memVars, worldVars, histVars, InHand, Counted, TypeOK
<1>17. CASE UNCHANGED vars
  BY <1>17, <1>q, CountedSame DEF vars, execVars, memVars, worldVars, histVars, InHand, Counted
<1> QED
  BY <1>1, <1>2, <1>3, <1>4, <1>5, <1>6, <1>7, <1>8, <1>9, <1>10, <1>11, <1>12,
     <1>13, <1>14, <1>15, <1>16, <1>17 DEF Next, Daemon

\* CyclesPerDay: however the polls, the trades and midnight fall, a day sees at most
\* twice max_cycles_per_day trades.
THEOREM DaysBounded == Spec => []CyclesPerDay
<1>1. Init => (Quiet => Counted)
  <2> SUFFICES ASSUME Init PROVE Counted
    OBVIOUS
  <2>1. UtcDay = 0 /\ InHand = 0
    BY DEF Init, UtcDay, InHand
  <2> QED BY <2>1, Given DEF Init, ExecInit, Counted, Days
<1>2. (Quiet => Counted) => CyclesPerDay
  BY DEF Counted, Quiet, CyclesPerDay
<1>3. Spec => [](TypeOK /\ Phases /\ (Quiet => Counted))
  BY <1>1, FirstTypes, StepTypes, CountedStep, PTL DEF Spec
<1> QED BY <1>2, <1>3, PTL

-----------------------------------------------------------------------------
(* Orders, shares and the ledger *)

\* An event that was not executed has no order, one without an order has no shares, and
\* the event in hand has none before its entry is sent.
OrdersKnown ==
    /\ \A e \in Events : /\ order[e] = "none" => got[e] = 0 /\ legs[e] = 0
                         /\ traded[e] = 0 => order[e] = "none"
    /\ at = "execute" => traded[cur] > 0
    /\ pc \in {"guard", "size", "place"} => order[cur] = "none"

\* A step outside the executor and the broker.
LEMMA OrdersSame ==
    ASSUME OrdersKnown, UNCHANGED <<order, got, legs, traded>>,
           at' = "execute" => at = "execute" /\ cur' = cur,
           pc' \in {"guard", "size", "place"} => pc' = pc /\ cur' = cur
    PROVE  OrdersKnown'
BY DEF OrdersKnown

LEMMA OrdersStep ==
    TypeOK /\ Phases /\ OnceOnly /\ OrdersKnown /\ [Next]_vars => OrdersKnown'
<1> SUFFICES ASSUME TypeOK, Phases, OnceOnly, OrdersKnown, [Next]_vars
             PROVE  OrdersKnown'
  OBVIOUS
<1>1. CASE Gate
  <2>1. /\ at = "gate" /\ at' = "execute" /\ cur' = cur /\ cur \in Events
        /\ UNCHANGED <<order, got, legs>>
        /\ traded' = [traded EXCEPT ![cur] = @ + 1]
    BY <1>1 DEF Gate, orderVars, Phases
  <2>2. traded[cur] = 0 /\ traded \in [Events -> Nat]
    BY <2>1 DEF OnceOnly, TypeOK
  <2>3. traded'[cur] = 1 /\ \A e \in Events \ {cur} : traded'[e] = traded[e]
    BY <2>1, <2>2
  <2> QED BY <2>1, <2>2, <2>3 DEF OrdersKnown
<1>2. CASE Trade
  <2> DEFINE o == LocalDay \in over
  <2>0. /\ o \in BOOLEAN /\ Execute(o) /\ at = "execute" /\ at' = at
        /\ traded' = traded /\ cur \in Events
    BY <1>2 DEF Trade, memVars, histVars, Phases
  <2> HIDE DEF o
  <2>1. /\ Execute(o) /\ at = "execute" /\ at' = at /\ traded' = traded
        /\ cur \in Events /\ cur' = cur
    BY <2>0, ExecuteTypes DEF TypeOK
  <2> USE DEF At, orderVars
  <2>2. CASE pc' \notin {"guard", "size", "place"} /\ UNCHANGED orderVars
    BY <2>1, <2>2 DEF OrdersKnown
  <2>3. CASE Guard(o)
    BY <2>1, <2>3 DEF Guard, OrdersKnown
  <2>4. CASE Size
    BY <2>1, <2>4 DEF Size, OrdersKnown
  <2>5. ASSUME NEW s \in {-1, 1}, Submit(s), UNCHANGED <<got, legs>>,
               pc' \in {"wait", "raised"}
        PROVE  OrdersKnown'
    <3>1. order'[cur] # "none" /\ \A e \in Events \ {cur} : order'[e] = order[e]
      BY <2>1, <2>5 DEF Submit, Taken, TypeOK, ExecTypeOK
    <3> QED BY <2>1, <2>5, <3>1 DEF OrdersKnown
  <2>6. CASE \E s \in {-1, 1} : Place(s)
    BY <2>1, <2>2, <2>5, <2>6 DEF Place
  <2>7. CASE Cancel
    <3>1. \A e \in Events : order'[e] = "none" <=> order[e] = "none"
      BY <2>7 DEF Cancel, TypeOK, ExecTypeOK
    <3> QED BY <2>1, <2>7, <3>1 DEF Cancel, OrdersKnown
  <2>8. CASE Close
    <3>1. \A e \in Events : order'[e] = "none" <=> order[e] = "none"
      BY <2>8 DEF Close, Working, TypeOK, ExecTypeOK
    <3>2. \A e \in Events : legs'[e] \in {0, legs[e]}
      BY <2>8 DEF Close
    <3> QED BY <2>1, <2>8, <3>1, <3>2 DEF Close, OrdersKnown
  <2>9. CASE Raises
    BY <2>1, <2>2, <2>5, <2>9 DEF Raises
  <2> QED
    BY <2>1, <2>2, <2>3, <2>4, <2>6, <2>7, <2>8, <2>9
       DEF Execute, WaitEnds, CancelFails, RecordEntry, HoldEnds, RecordExit, RecordEquity
<1>3. CASE TheMarket
  <2>1. pc' = pc /\ cur' = cur /\ at' = at /\ traded' = traded
    BY <1>3, MarketTypes DEF TheMarket, memVars, histVars, TypeOK
  <2>2. ASSUME NEW e \in Events, Fills(e) PROVE OrdersKnown'
    <3>1. /\ order[e] = "working" /\ order'[e] # "none"
          /\ \A f \in Events \ {e} : UNCHANGED <<order[f], got[f], legs[f]>>
      BY <2>2 DEF Fills, TypeOK, ExecTypeOK
    <3> QED BY <2>1, <3>1 DEF OrdersKnown, Phases, ExecPCs
  <2>3. ASSUME NEW e \in Events, LegFires(e) PROVE OrdersKnown'
    BY <2>1, <2>3 DEF LegFires, OrdersKnown, TypeOK, ExecTypeOK
  <2>4. CASE SessionEnds
    <3>1. \A e \in Events : (order'[e] = "none" <=> order[e] = "none") /\ legs'[e] = 0
      BY <2>4 DEF SessionEnds
    <3> QED BY <2>1, <2>4, <3>1 DEF SessionEnds, OrdersKnown, Phases, ExecPCs
  <2> QED BY <1>3, <2>2, <2>3, <2>4 DEF TheMarket, Market
<1> QED
  BY <1>1, <1>2, <1>3, OrdersSame
     DEF Next, Daemon, vars, memVars, histVars, execVars, orderVars, PollBegins, FeedEnds,
         Take, Drop, Score, Return, Abort, RequestStop, Down, Restart, Ages, Crawl,
         Tick, Phases

\* The faults under which the ledger may miss what was bought or sold.
Prompt == ~dryRun /\ faults \cap {"late", "raise", "dayend", "stop"} = {}

\* The ledger's entry of an event has its exit, of the same quantity, that of an order;
\* shares were bought exactly if there is one; an order that works on has bought some.
Settled(e) ==
    /\ exited[e] = entered[e] /\ entered[e] \in {0, Lot} /\ (entered[e] > 0 <=> got[e] > 0)
    /\ order[e] = "working" => got[e] > 0

\* Only the event in hand is not settled, as far as the executor has come with it.
LedgerSteps ==
    /\ at # "down" /\ stop = FALSE
    /\ \A e \in Events :
          /\ order[e] = "none" => entered[e] = 0 /\ exited[e] = 0
          /\ order[e] = "filled" => got[e] = Lot
          /\ (e # cur \/ pc \notin {"wait", "cancel", "enter", "hold", "close", "book"})
                => Settled(e)
    /\ pc \in {"wait", "cancel", "enter"} => entered[cur] = 0 /\ exited[cur] = 0
    /\ pc = "wait" => order[cur] \in {"working", "filled"}
    /\ pc = "cancel" => got[cur] = 0
    /\ pc \in {"enter", "hold", "close", "book"} => got[cur] > 0
    /\ pc \in {"hold", "close", "book"} => entered[cur] = Lot /\ exited[cur] = 0

\* A step that neither trades nor records, and does not leave a trade.
LEMMA LedgerSame ==
    ASSUME LedgerSteps, stop' = stop, at' # "down", UNCHANGED <<orderVars, tradeVars>>,
           \/ pc' = pc /\ cur' = cur
           \/ pc \in {"off", "guard", "size", "place", "equity", "returned", "raised"}
              /\ pc' \in {"off", "guard", "size", "place", "equity", "returned", "raised"}
    PROVE  LedgerSteps'
<1>1. \A e \in Events : Settled(e)' <=> Settled(e)
  BY DEF Settled, orderVars, tradeVars
<1> QED BY <1>1 DEF LedgerSteps, orderVars, tradeVars

LEMMA LedgerStep ==
    /\ TypeOK /\ Phases /\ OrdersKnown /\ (Prompt => LedgerSteps) /\ [Next]_vars
    => (Prompt' => LedgerSteps')
<1> SUFFICES ASSUME TypeOK, Phases, OrdersKnown, Prompt => LedgerSteps, [Next]_vars, Prompt'
             PROVE  LedgerSteps'
  OBVIOUS
<1>q. Prompt /\ LedgerSteps
  BY FaultsFixed DEF Prompt
<1>t. /\ order \in [Events -> OrderStates] /\ got \in [Events -> 0..Lot]
      /\ entered \in [Events -> 0..Lot] /\ exited \in [Events -> 0..Lot] /\ Lot \in Nat
      /\ Lot > 0
  BY Given DEF TypeOK, ExecTypeOK
<1>1. CASE Trade
  <2> DEFINE o == LocalDay \in over
  <2>0. /\ o \in BOOLEAN /\ Execute(o) /\ at = "execute" /\ at' = at
        /\ stop' = stop /\ cur \in Events
    BY <1>1 DEF Trade, memVars, Phases
  <2> HIDE DEF o
  <2>1. cur' = cur
    BY <2>0, ExecuteTypes DEF TypeOK
  <2> USE DEF At
  <2>2. CASE Guard(o) \/ Size
    BY <2>0, <2>2, <1>q, LedgerSame DEF Guard, Size
  <2>3. ASSUME NEW s \in {-1, 1}, Place(s) PROVE LedgerSteps'
    <3>1. CASE pc' = "returned"
      BY <2>0, <3>1, <2>3, <1>q, LedgerSame DEF Place, orderVars
    <3>2. CASE pc' = "wait"
      <4>1. /\ order' = [order EXCEPT ![cur] = "working"] /\ pc = "place"
            /\ UNCHANGED <<got, entered, exited>>
        BY <2>3, <3>2, <1>q DEF Place, Submit, Taken, Prompt, tradeVars
      <4>2. order[cur] = "none"
        BY <4>1 DEF OrdersKnown
      <4>3. \A e \in Events \ {cur} : Settled(e)' <=> Settled(e)
        BY <4>1, <1>t DEF Settled
      <4> QED BY <2>0, <2>1, <3>2, <4>1, <4>2, <4>3, <1>q, <1>t DEF LedgerSteps
    <3> QED BY <2>3, <3>1, <3>2 DEF Place
  <2>4. CASE WaitEnds
    <3>1. /\ pc = "wait" /\ pc' \in {"enter", "cancel"}
          /\ UNCHANGED <<order, got, entered, exited>>
          /\ pc' = "enter" => got[cur] > 0
          /\ pc' = "cancel" => got[cur] = 0
      BY <2>0, <2>4, <1>q, <1>t DEF WaitEnds, Filled, Prompt, LedgerSteps, orderVars, tradeVars
    <3>2. \A e \in Events : Settled(e)' <=> Settled(e)
      BY <3>1 DEF Settled
    <3> QED BY <2>0, <2>1, <3>1, <3>2, <1>q DEF LedgerSteps
  <2>5. CASE Cancel
    <3>1. /\ pc = "cancel" /\ pc' = "returned" /\ UNCHANGED <<got, entered, exited>>
          /\ order'[cur] # "working" /\ got[cur] = 0
          /\ order'[cur] = "none" => order[cur] = "none"
          /\ order'[cur] = "filled" => order[cur] = "filled"
          /\ \A e \in Events \ {cur} : order'[e] = order[e]
      BY <2>0, <2>5, <1>q, <1>t DEF Cancel, LedgerSteps, tradeVars
    <3>2. \A e \in Events \ {cur} : Settled(e)' <=> Settled(e)
      BY <3>1 DEF Settled
    <3>3. Settled(cur)'
      BY <2>0, <2>1, <3>1, <1>q DEF Settled, LedgerSteps
    <3> QED BY <2>0, <2>1, <3>1, <3>2, <3>3, <1>q DEF LedgerSteps
  <2>6. CASE RecordEntry
    <3>1. /\ pc = "enter" /\ pc' = "hold" /\ UNCHANGED <<order, got, exited>>
          /\ entered'[cur] = Lot /\ order[cur] # "none"
          /\ \A e \in Events \ {cur} : entered'[e] = entered[e]
      BY <2>0, <2>6, <1>q, <1>t DEF RecordEntry, LedgerSteps, orderVars, OrdersKnown
    <3>2. \A e \in Events \ {cur} : Settled(e)' <=> Settled(e)
      BY <3>1 DEF Settled
    <3> QED BY <2>0, <2>1, <3>1, <3>2, <1>q DEF LedgerSteps
  <2>7. CASE HoldEnds
    <3>1. /\ pc = "hold" /\ pc' \in {"book", "close"}
          /\ UNCHANGED <<order, got, entered, exited>>
      BY <2>7 DEF HoldEnds, orderVars, tradeVars
    <3>2. \A e \in Events : Settled(e)' <=> Settled(e)
      BY <3>1 DEF Settled
    <3> QED BY <2>0, <2>1, <3>1, <3>2, <1>q DEF LedgerSteps
  <2>8. CASE Close
    <3>1. /\ pc = "close" /\ pc' = "book" /\ UNCHANGED <<got, entered, exited>>
          /\ \A e \in Events : /\ order'[e] \in {order[e], "dead"}
                               /\ order'[e] = "none" => order[e] = "none"
      BY <2>8 DEF Close, tradeVars
    <3>2. \A e \in Events : Settled(e) => Settled(e)'
      BY <3>1 DEF Settled
    <3> QED BY <2>0, <2>1, <3>1, <3>2, <1>q DEF LedgerSteps
  <2>9. CASE RecordExit
    <3>1. /\ pc = "book" /\ pc' = "equity" /\ UNCHANGED <<order, got, entered>>
          /\ exited'[cur] = entered[cur] /\ order[cur] # "none"
          /\ \A e \in Events \ {cur} : exited'[e] = exited[e]
      BY <2>0, <2>9, <1>q, <1>t DEF RecordExit, LedgerSteps, orderVars, OrdersKnown
    <3>2. \A e \in Events \ {cur} : Settled(e)' <=> Settled(e)
      BY <3>1 DEF Settled
    <3>3. Settled(cur)'
      BY <2>0, <2>1, <3>1, <1>q, <1>t DEF Settled, LedgerSteps
    <3> QED BY <2>0, <2>1, <3>1, <3>2, <3>3, <1>q DEF LedgerSteps
  <2>10. CASE RecordEquity
    BY <2>0, <2>10, <1>q, LedgerSame DEF RecordEquity
  <2>11. CASE Raises
    <3>1. pc = "size" /\ pc' = "raised" /\ UNCHANGED <<orderVars, tradeVars>>
      BY <2>11, <1>q DEF Raises, Prompt, orderVars
    <3> QED BY <2>0, <3>1, <1>q, LedgerSame
  <2> QED
    BY <2>0, <2>2, <2>3, <2>4, <2>5, <2>6, <2>7, <2>8, <2>9, <2>10, <2>11, <1>q
       DEF Execute, CancelFails, Prompt
<1>2. CASE TheMarket
  <2>1. pc' = pc /\ cur' = cur /\ at' = at /\ stop' = stop
    BY <1>2, MarketTypes DEF TheMarket, memVars, TypeOK
  <2>2. ASSUME NEW e \in Events, Fills(e) PROVE LedgerSteps'
    <3>1. /\ order[e] = "working" /\ order'[e] \in {"working", "filled"} /\ got'[e] > 0
          /\ order'[e] = "filled" => got'[e] = Lot
          /\ UNCHANGED <<entered, exited>>
          /\ \A f \in Events \ {e} : UNCHANGED <<order[f], got[f]>>
      BY <2>2, <1>t DEF Fills, tradeVars
    <3>2. ~(cur = e /\ pc = "cancel")
      BY <2>2, <1>q DEF Fills, Prompt
    <3>3. \A f \in Events : Settled(f) => Settled(f)'
      BY <3>1, <1>t DEF Settled
    <3>4. \A f \in Events :
             /\ order'[f] = "none" => entered'[f] = 0 /\ exited'[f] = 0
             /\ order'[f] = "filled" => got'[f] = Lot
      BY <3>1, <1>q DEF LedgerSteps
    <3>5. CASE cur = e
      BY <2>1, <3>1, <3>2, <3>3, <3>4, <3>5, <1>q DEF LedgerSteps
    <3>6. CASE cur # e /\ pc # "off"
      <4>1. cur \in Events
        BY <3>6 DEF Phases
      <4>2. UNCHANGED <<order[cur], got[cur], entered[cur], exited[cur]>>
        BY <2>1, <3>1, <3>6, <4>1
      <4> QED BY <2>1, <3>1, <3>3, <3>4, <4>2, <1>q DEF LedgerSteps
    <3>7. CASE pc = "off"
      BY <2>1, <3>1, <3>3, <3>4, <3>7, <1>q DEF LedgerSteps
    <3> QED BY <3>5, <3>6, <3>7
  <2>3. ASSUME NEW e \in Events, LegFires(e) PROVE LedgerSteps'
    <3>1. \A f \in Events : Settled(f)' <=> Settled(f)
      BY <2>3 DEF LegFires, Settled, tradeVars
    <3> QED BY <2>1, <2>3, <3>1, <1>q DEF LegFires, LedgerSteps, tradeVars
  <2> QED BY <1>2, <2>2, <2>3, <1>q DEF TheMarket, Market, SessionEnds, Prompt
<1>3. CASE Down \/ RequestStop \/ Restart
  BY <1>3, <1>q DEF Down, Ends, RequestStop, Restart, Prompt, LedgerSteps
<1> QED
  BY <1>1, <1>2, <1>3, <1>q, LedgerSame
     DEF Next, Daemon, vars, memVars, execVars, PollBegins, FeedEnds, Take, Drop, Score,
         Gate, Return, Abort, Ages, Crawl, Tick, Phases, LedgerSteps

-----------------------------------------------------------------------------
(* One trade in hand: the daemon implements TradeExposure *)

Hands == {"wait", "cancel", "enter", "hold", "close", "book"}

\* A dry run has no orders and no shares.
NothingSent ==
    /\ \A e \in Events : order[e] # "working" /\ legs[e] = 0
    /\ \A t \in Tickers : net[t] = 0

LEMMA NothingSentStep ==
    /\ TypeOK /\ Phases /\ (dryRun => NothingSent) /\ [Next]_vars
    => (dryRun' => NothingSent')
<1> SUFFICES ASSUME TypeOK, Phases, dryRun, NothingSent, [Next]_vars PROVE NothingSent'
  BY FaultsFixed
<1>1. CASE UNCHANGED <<order, legs, net>>
  BY <1>1 DEF NothingSent
<1>2. CASE Trade
  <2> DEFINE o == LocalDay \in over
  <2>0. o \in BOOLEAN /\ Execute(o)
    BY <1>2 DEF Trade
  <2> HIDE DEF o
  <2>1. ASSUME NEW s \in {-1, 1}, Submit(s), UNCHANGED <<legs, net>> PROVE NothingSent'
    BY <2>1 DEF Submit, Taken, NothingSent, TypeOK, ExecTypeOK
  <2>2. CASE Cancel
    BY <2>2 DEF Cancel, NothingSent
  <2>3. CASE Close
    <3>1. \A e \in Events : order'[e] \in {order[e], "dead"} /\ legs'[e] \in {0, legs[e]}
      BY <2>3 DEF Close
    <3>2. \A t \in Tickers : net'[t] = 0
      BY <2>3 DEF Close, NothingSent, TypeOK, ExecTypeOK
    <3> QED BY <3>1, <3>2 DEF NothingSent
  <2> QED
    BY <2>0, <2>1, <2>2, <2>3, <1>1
       DEF Execute, Guard, Size, Place, WaitEnds, CancelFails, RecordEntry, HoldEnds,
           RecordExit, RecordEquity, Raises, orderVars
<1>3. CASE TheMarket
  <2>1. CASE SessionEnds
    BY <2>1 DEF SessionEnds, NothingSent
  <2>2. ASSUME NEW e \in Events PROVE ~Fills(e) /\ ~LegFires(e)
    <3>1. order[e] # "working" /\ legs[e] = 0
      BY DEF NothingSent
    <3>2. ~Fills(e)
      BY <3>1 DEF Fills
    <3>3. ~LegFires(e)
      BY <3>1 DEF LegFires
    <3> QED BY <3>2, <3>3
  <2> QED BY <1>3, <2>1, <2>2 DEF TheMarket, Market
<1> QED
  BY <1>1, <1>2, <1>3
     DEF Next, Daemon, vars, execVars, orderVars, PollBegins, FeedEnds, Take, Drop,
         Score, Gate, Return, Abort, RequestStop, Down, Restart, Ages, Crawl, Tick

\* Where no fault can lose one, the trade in hand is the only one: its order works
\* and has bought what is held, or it has filled and its legs can close all of it, or it
\* is over.
Buying == order[cur] = "working" /\ legs[cur] = 0 /\ got[cur] < Lot
          /\ net[Ticker] = side[cur] * got[cur]
Covered == order[cur] = "filled" /\ legs[cur] = Lot /\ net[Ticker] = side[cur] * Lot
Gone == order[cur] \in {"filled", "dead"} /\ legs[cur] = 0 /\ net[Ticker] = 0
Unfilled == order[cur] # "filled" /\ (order[cur] = "working" => got[cur] = 0)
OnlyTrade ==
    /\ pc \in Hands => at = "execute" /\ cur \in Events
    /\ \A e \in Events : ~(cur = e /\ pc \in Hands) => legs[e] = 0 /\ order[e] # "working"
    /\ \A t \in Tickers : ~(pc \in Hands /\ Ticker = t) => net[t] = 0
    /\ pc \in Hands => side[cur] \in {-1, 1} /\ (Buying \/ Covered \/ Gone)
    /\ pc = "cancel" => Unfilled
    /\ pc \in {"enter", "hold", "close"} /\ Buying => got[cur] > 0
    /\ pc = "book" => Gone

\* A step that has nothing to do with a trade.
LEMMA OnlySame ==
    ASSUME OnlyTrade, pc \notin Hands, pc' \notin Hands,
           UNCHANGED <<order, legs, net>>
    PROVE  OnlyTrade'
BY DEF OnlyTrade, Hands

Steady == ~dryRun /\ ~Careless

LEMMA OnlyTradeStep ==
    /\ TypeOK /\ Phases /\ OrdersKnown /\ (Steady => OnlyTrade) /\ [Next]_vars
    => (Steady' => OnlyTrade')
<1> SUFFICES ASSUME TypeOK, Phases, OrdersKnown, Steady => OnlyTrade, [Next]_vars, Steady'
             PROVE  OnlyTrade'
  OBVIOUS
<1>q. Steady /\ OnlyTrade
  BY FaultsFixed DEF Steady, Careless
<1>f. ~dryRun /\ \A f \in {"late", "close", "raise", "dayend", "stop"} : f \notin faults
  BY <1>q DEF Steady, Careless
<1>t. /\ order \in [Events -> OrderStates] /\ got \in [Events -> 0..Lot]
      /\ side \in [Events -> {-1, 0, 1}] /\ legs \in [Events -> 0..Lot]
      /\ net \in [Tickers -> Int] /\ Lot \in Nat /\ Lot > 0
      /\ TickerOf \in [Events -> Tickers]
  BY Given DEF TypeOK, ExecTypeOK
<1>1. CASE Trade
  <2> DEFINE o == LocalDay \in over
  <2>0. o \in BOOLEAN /\ Execute(o) /\ at = "execute" /\ at' = at /\ cur \in Events
    BY <1>1 DEF Trade, memVars, Phases
  <2> HIDE DEF o
  <2>1. cur' = cur /\ Ticker' = Ticker /\ Ticker \in Tickers
    BY <2>0, ExecuteTypes, <1>t DEF TypeOK, Ticker
  <2> USE DEF At, Hands
  <2>2. CASE Guard(o) \/ Size \/ RecordEquity
    BY <2>2, <1>q, OnlySame DEF Guard, Size, RecordEquity, orderVars
  <2>3. ASSUME NEW s \in {-1, 1}, Place(s) PROVE OnlyTrade'
    <3>1. CASE pc' = "returned"
      BY <3>1, <2>3, <1>q, OnlySame DEF Place, orderVars
    <3>2. CASE pc' = "wait"
      <4>1. /\ order' = [order EXCEPT ![cur] = "working"] /\ pc = "place"
            /\ side' = [side EXCEPT ![cur] = s] /\ UNCHANGED <<got, legs, net>>
        BY <2>3, <3>2, <1>f DEF Place, Submit, Taken
      <4>2. got[cur] = 0 /\ legs[cur] = 0 /\ net[Ticker] = 0
        BY <2>0, <2>1, <4>1, <1>q DEF OrdersKnown, OnlyTrade
      <4>3. order'[cur] = "working" /\ side'[cur] = s
            /\ \A e \in Events \ {cur} : order'[e] = order[e]
        BY <2>0, <4>1, <1>t
      <4>4. Buying'
        <5>1. s * 0 = 0
          OBVIOUS
        <5> QED BY <2>1, <4>1, <4>2, <4>3, <5>1, <1>t DEF Buying
      <4>5. \A e \in Events : cur # e => legs'[e] = 0 /\ order'[e] # "working"
        BY <4>1, <4>3, <1>q DEF OnlyTrade
      <4>6. \A t \in Tickers : Ticker # t => net'[t] = 0
        BY <4>1, <1>q DEF OnlyTrade
      <4> QED BY <2>0, <2>1, <3>2, <4>3, <4>4, <4>5, <4>6 DEF OnlyTrade
    <3> QED BY <2>3, <3>1, <3>2 DEF Place
  <2>4. ASSUME pc \in Hands, pc' \in Hands, UNCHANGED orderVars,
               pc' = "cancel" => Unfilled,
               pc' \in {"enter", "hold", "close"} /\ Buying => got[cur] > 0,
               pc' = "book" => Gone
        PROVE  OnlyTrade'
    <3>1. /\ Buying' <=> Buying
          /\ Covered' <=> Covered
          /\ Gone' <=> Gone
          /\ Unfilled' <=> Unfilled
      BY <2>1, <2>4 DEF orderVars, Buying, Covered, Gone, Unfilled
    <3> QED BY <2>0, <2>1, <2>4, <3>1, <1>q DEF OnlyTrade, orderVars
  <2>5. CASE WaitEnds
    <3>1. CASE pc' = "enter"
      <4>1. Buying => got[cur] > 0
        BY <2>5, <3>1 DEF WaitEnds, Filled, Buying
      <4> QED BY <2>4, <2>5, <3>1, <4>1 DEF WaitEnds
    <3>2. CASE pc' = "cancel"
      <4>1. Unfilled
        BY <2>0, <2>5, <3>2, <1>f, <1>t DEF WaitEnds, Filled, Unfilled
      <4> QED BY <2>4, <2>5, <3>2, <4>1 DEF WaitEnds
    <3> QED BY <2>5, <3>1, <3>2 DEF WaitEnds
  <2>6. ASSUME pc \in Hands, pc' \notin Hands, order'[cur] # "working",
               legs[cur] = 0, net[Ticker] = 0, UNCHANGED <<legs, net>>,
               \A e \in Events \ {cur} : order'[e] = order[e]
        PROVE  OnlyTrade'
    BY <2>0, <2>1, <2>6, <1>q DEF OnlyTrade
  <2>7. CASE Cancel
    <3>1. /\ pc = "cancel" /\ pc' = "returned" /\ UNCHANGED <<legs, net>>
          /\ order'[cur] # "working"
          /\ \A e \in Events \ {cur} : order'[e] = order[e]
      BY <2>0, <2>7, <1>t DEF Cancel
    <3>2. Gone \/ (Buying /\ got[cur] = 0)
      BY <2>0, <3>1, <1>q DEF OnlyTrade, Unfilled, Buying, Covered
    <3>3. legs[cur] = 0 /\ net[Ticker] = 0
      <4>1. side[cur] * 0 = 0
        BY <2>0, <1>t
      <4> QED BY <3>2, <4>1 DEF Gone, Buying
    <3> QED BY <2>6, <3>1, <3>3
  <2>8. CASE RecordEntry
    BY <2>4, <2>8, <1>q DEF RecordEntry, OnlyTrade
  <2>9. CASE HoldEnds
    <3>1. CASE pc' = "book"
      <4>1. pc = "hold" /\ net[Ticker] = 0
        BY <2>9, <3>1, <1>f DEF HoldEnds, SeenGone
      <4>2. ~Covered
        BY <2>0, <4>1, <1>q, <1>t DEF OnlyTrade, Covered
      <4>3. ~Buying
        BY <2>0, <4>1, <1>q, <1>t DEF OnlyTrade, Buying
      <4>4. Gone
        BY <4>1, <4>2, <4>3, <1>q DEF OnlyTrade
      <4> QED BY <2>4, <2>9, <3>1, <4>1, <4>4 DEF HoldEnds
    <3>2. CASE pc' = "close"
      BY <2>4, <2>9, <3>2, <1>q DEF HoldEnds, OnlyTrade
    <3> QED BY <2>9, <3>1, <3>2 DEF HoldEnds
  <2>10. CASE Close
    <3>1. /\ pc = "close" /\ pc' = "book" /\ UNCHANGED <<got, side>>
          /\ legs' = [e \in Events |-> IF TickerOf[e] = Ticker THEN 0 ELSE legs[e]]
          /\ order' = [e \in Events |-> IF e \in Working(Ticker) THEN "dead" ELSE order[e]]
          /\ net' = [net EXCEPT ![Ticker] = 0]
      BY <2>10, <1>f DEF Close
    <3>2. order[cur] \in {"working", "filled", "dead"}
      BY <3>1, <1>q DEF OnlyTrade, Buying, Covered, Gone
    <3>3. order'[cur] \in {"filled", "dead"} /\ legs'[cur] = 0 /\ net'[Ticker] = 0
      BY <2>0, <2>1, <3>1, <3>2, <1>t DEF Working, Ticker
    <3>4. Gone'
      BY <2>1, <3>3 DEF Gone
    <3>5. \A e \in Events : cur # e => legs'[e] = 0 /\ order'[e] # "working"
      BY <3>1, <1>q DEF OnlyTrade
    <3>6. \A t \in Tickers : Ticker # t => net'[t] = 0
      BY <2>1, <3>1, <1>q, <1>t DEF OnlyTrade
    <3> QED BY <2>0, <2>1, <3>1, <3>4, <3>5, <3>6, <1>q DEF OnlyTrade
  <2>11. CASE RecordExit
    <3>1. pc = "book" /\ pc' = "equity" /\ UNCHANGED orderVars
      BY <2>11 DEF RecordExit
    <3> QED BY <2>6, <3>1, <1>q DEF OnlyTrade, Gone, orderVars
  <2>12. CASE Raises
    <3>1. pc = "size" /\ pc' = "raised" /\ UNCHANGED orderVars
      BY <2>12, <1>f DEF Raises, orderVars
    <3> QED BY <3>1, <1>q, OnlySame DEF orderVars
  <2> QED
    BY <2>0, <2>2, <2>3, <2>5, <2>7, <2>8, <2>9, <2>10, <2>11, <2>12, <1>f
       DEF Execute, CancelFails
<1>2. CASE TheMarket
  <2>1. pc' = pc /\ cur' = cur /\ at' = at /\ Ticker' = Ticker
    BY <1>2, MarketTypes DEF TheMarket, memVars, TypeOK, Ticker
  <2>2. ASSUME NEW e \in Events, e = cur, pc \in Hands, side' = side,
               \A f \in Events \ {e} : UNCHANGED <<order[f], legs[f]>>,
               \A t \in Tickers \ {Ticker} : net'[t] = net[t],
               Buying' \/ Covered' \/ Gone', pc # "cancel",
               pc = "book" => Gone', Buying' => got'[cur] > 0
        PROVE  OnlyTrade'
    BY <2>1, <2>2, <1>q DEF OnlyTrade
  <2>3. ASSUME NEW e \in Events, Fills(e) PROVE OnlyTrade'
    <3>1. PICK q \in 1..(Lot - got[e]) :
             /\ got' = [got EXCEPT ![e] = @ + q]
             /\ net' = [net EXCEPT ![TickerOf[e]] = @ + q * side[e]]
             /\ order' = IF got[e] + q = Lot THEN [order EXCEPT ![e] = "filled"] ELSE order
             /\ legs' = IF got[e] + q = Lot THEN [legs EXCEPT ![e] = Lot] ELSE legs
      BY <2>3 DEF Fills
    <3>2. e = cur /\ pc \in Hands /\ order[e] = "working" /\ side' = side /\ pc # "cancel"
      BY <2>3, <1>q, <1>f DEF Fills, OnlyTrade
    <3>3. Buying /\ pc # "book"
      BY <3>2, <1>q DEF OnlyTrade, Buying, Covered, Gone
    <3>4. Ticker = TickerOf[e] /\ Ticker \in Tickers /\ side[e] \in {-1, 1}
      BY <3>2, <1>q, <1>t DEF Ticker, OnlyTrade
    <3>5. net'[Ticker] = side[e] * got[e] + q * side[e] /\ got'[e] = got[e] + q
      BY <3>1, <3>2, <3>3, <3>4, <1>t DEF Buying
    <3>6. net'[Ticker] = side[e] * got'[e]
      <4>1. CASE side[e] = 1
        BY <3>5, <4>1, <1>t
      <4>2. CASE side[e] = -1
        BY <3>5, <4>2, <1>t
      <4> QED BY <3>4, <4>1, <4>2
    <3>7. CASE got[e] + q = Lot
      <4>1. Covered'
        BY <2>1, <3>1, <3>2, <3>5, <3>6, <3>7, <1>t DEF Covered
      <4>2. ~Buying'
        BY <2>1, <3>2, <4>1 DEF Covered, Buying
      <4> QED BY <2>2, <3>1, <3>2, <3>3, <3>4, <3>7, <4>1, <4>2, <1>t
    <3>8. CASE got[e] + q # Lot
      <4>1. Buying'
        BY <2>1, <3>1, <3>2, <3>3, <3>5, <3>6, <3>8, <1>t DEF Buying
      <4>2. got'[cur] > 0
        BY <3>1, <3>2, <3>5, <1>t
      <4> QED BY <2>2, <3>1, <3>2, <3>3, <3>4, <3>8, <4>1, <4>2, <1>t
    <3> QED BY <3>7, <3>8
  <2>4. ASSUME NEW e \in Events, LegFires(e) PROVE OnlyTrade'
    <3>1. legs[e] > 0 /\ legs' = [legs EXCEPT ![e] = 0] /\ UNCHANGED <<order, got, side>>
      BY <2>4 DEF LegFires
    <3>2. e = cur /\ pc \in Hands
      BY <3>1, <1>q DEF OnlyTrade
    <3>3. Covered
      BY <3>1, <3>2, <1>q DEF OnlyTrade, Buying, Gone
    <3>4. Ticker = TickerOf[e] /\ Ticker \in Tickers /\ side[e] \in {-1, 1}
      BY <3>2, <1>q, <1>t DEF Ticker, OnlyTrade
    <3>5. net[Ticker] * side[e] = Lot /\ net[Ticker] - Lot * side[e] = 0
      <4>1. CASE side[e] = 1
        BY <3>2, <3>3, <4>1, <1>t DEF Covered
      <4>2. CASE side[e] = -1
        BY <3>2, <3>3, <4>2, <1>t DEF Covered
      <4> QED BY <3>4, <4>1, <4>2
    <3>6. legs[e] = Lot
      BY <3>2, <3>3 DEF Covered
    <3>7. net' = [net EXCEPT ![Ticker] = net[Ticker] - Lot * side[e]]
      BY <2>4, <3>4, <3>5, <3>6, <1>t DEF LegFires
    <3>8. Gone'
      BY <2>1, <3>1, <3>2, <3>3, <3>4, <3>5, <3>7, <1>t DEF Gone, Covered
    <3>9. ~Buying' /\ pc # "cancel"
      BY <2>1, <3>2, <3>3, <3>8, <1>q DEF Gone, Buying, OnlyTrade, Unfilled, Covered
    <3> QED BY <2>2, <3>1, <3>2, <3>4, <3>7, <3>8, <3>9, <1>t
  <2> QED BY <1>2, <2>3, <2>4, <1>f DEF TheMarket, Market, SessionEnds
<1>3. CASE Down \/ RequestStop \/ Restart
  BY <1>3, <1>f, <1>q, OnlySame
     DEF Down, Ends, RequestStop, Restart, execVars, orderVars, Phases, Hands
<1>4. CASE UNCHANGED <<pc, cur, at, orderVars>>
  <2>1. /\ Ticker' = Ticker
        /\ Buying' <=> Buying
        /\ Covered' <=> Covered
        /\ Gone' <=> Gone
        /\ Unfilled' <=> Unfilled
    BY <1>4 DEF orderVars, Ticker, Buying, Covered, Gone, Unfilled
  <2> QED BY <2>1, <1>4, <1>q DEF OnlyTrade, orderVars
<1> QED
  BY <1>1, <1>2, <1>3, <1>4, <1>q, OnlySame
     DEF Next, Daemon, vars, memVars, execVars, orderVars, PollBegins, FeedEnds, Take,
         Drop, Score, Gate, Return, Abort, Ages, Crawl, Tick, Phases, Hands, OnlyTrade

\* LedgerSettled: without the mishaps that leave shares alone, the ledger has every
\* trade that is over at the quantity the broker bought, if the order filled whole, and
\* the broker holds nothing that the ledger has sold.
THEOREM LedgerAgrees == Spec => []LedgerSettled
<1>1. Init => /\ OnceOnly /\ OrdersKnown
              /\ Prompt => LedgerSteps
              /\ Steady => OnlyTrade
  BY Given DEF Init, ExecInit, OnceOnly, OrdersKnown, LedgerSteps, Settled, OnlyTrade, Hands
<1>2. /\ TypeOK /\ Phases /\ (Prompt => LedgerSteps) /\ (Steady => OnlyTrade)
      => LedgerSettled
  <2> SUFFICES ASSUME TypeOK, Phases, Prompt => LedgerSteps, Steady => OnlyTrade, Steady
               PROVE  LedgerSettled
    BY DEF LedgerSettled, Steady
  <2>1. LedgerSteps /\ OnlyTrade
    BY DEF Steady, Careless, Prompt
  <2>2. \A e \in Events \ {cur} : Settled(e) /\ (order[e] = "filled" => got[e] = Lot)
    BY <2>1 DEF LedgerSteps
  <2>3. \A e \in Events \ {cur} :
           /\ exited[e] = entered[e] /\ got[e] <= entered[e]
           /\ entered[e] > 0 <=> got[e] > 0
           /\ order[e] = "filled" => entered[e] = got[e]
    BY <2>2, Given DEF Settled, TypeOK, ExecTypeOK
  <2>4. \A t \in Tickers : at # "execute" \/ Ticker # t => net[t] = 0
    BY <2>1 DEF OnlyTrade
  <2> QED BY <2>3, <2>4 DEF LedgerSettled
<1>3. Spec => [](/\ TypeOK /\ Phases /\ OnceOnly /\ OrdersKnown
                 /\ Prompt => LedgerSteps
                 /\ Steady => OnlyTrade)
  BY <1>1, FirstTypes, StepTypes, OnceStep, OrdersStep, LedgerStep, OnlyTradeStep, PTL
     DEF Spec
<1> QED BY <1>2, <1>3, PTL

\* What the abstract trade of a ticker is, in the three ways of it.
Idle(t) == net[t] = 0 /\ Working(t) = {}
Mine(t) == cur # NoEvent /\ Ticker = t
LEMMA ExposureOf ==
    ASSUME NEW t \in Tickers
    PROVE  /\ Mine(t) /\ pc \in {"wait", "cancel"} => Exposure[t] = "ordered"
           /\ Mine(t) /\ pc \in Hands \ {"wait", "cancel"} => Exposure[t] = "watched"
           /\ ~(Mine(t) /\ pc \in Hands) =>
                 Exposure[t] = IF Idle(t) THEN "flat" ELSE "unwatched"
BY DEF Exposure, Mine, Idle, Hands

\* The same of the next state.
LEMMA ExposureNext ==
    ASSUME NEW t \in Tickers
    PROVE  /\ Mine(t)' /\ pc' \in {"wait", "cancel"} => Exposure'[t] = "ordered"
           /\ Mine(t)' /\ pc' \in Hands \ {"wait", "cancel"} => Exposure'[t] = "watched"
           /\ ~(Mine(t)' /\ pc' \in Hands) =>
                 Exposure'[t] = IF Idle(t)' THEN "flat" ELSE "unwatched"
BY DEF Exposure, Mine, Idle, Hands

\* Whether faults may lose a trade is fixed.
LEMMA CarelessFixed ==
    ASSUME [Next]_vars
    PROVE  Careless' = Careless /\ Careless \in BOOLEAN
BY FaultsFixed DEF Careless

LEMMA ExposureFun == Exposure = [t \in Tickers |-> Exposure[t]]
BY DEF Exposure

\* A step that changes one ticker's trade at most changes the abstract one there.
LEMMA ExposureAt ==
    ASSUME NEW u \in Tickers, \A t \in Tickers \ {u} : Exposure'[t] = Exposure[t]
    PROVE  Exposure' = [Exposure EXCEPT ![u] = Exposure'[u]]
BY DEF Exposure

\* A step that does not change who has the trade, the shares or the orders.
LEMMA ExposureSame ==
    ASSUME \A t \in Tickers : Exposure'[t] = Exposure[t]
    PROVE  Exposure' = Exposure
BY DEF Exposure

\* Outside of a trade.
LEMMA OutsideSame ==
    ASSUME pc \notin Hands, pc' \notin Hands, UNCHANGED <<order, net>>
    PROVE  Exposure' = Exposure
<1>1. ASSUME NEW t \in Tickers PROVE Exposure'[t] = Exposure[t]
  <2>1. Idle(t)' <=> Idle(t)
    BY DEF Idle, Working
  <2> QED BY <2>1, ExposureOf, ExposureNext
<1> QED BY <1>1, ExposureSame

\* The executor turns away from the trade in hand.
LEMMA Leaves ==
    ASSUME TypeOK, Phases, [Next]_vars, pc \in Hands, pc' \notin Hands,
           net' = net, \A e \in Events : e # cur => order'[e] = order[e],
           \/ Careless
           \/ net[Ticker] = 0
              /\ \A e \in Events : TickerOf[e] = Ticker => order'[e] # "working"
    PROVE  \E u \in Tickers : Promised!Settle(u) \/ Promised!Lose(u)
<1>1. cur \in Events /\ Ticker \in Tickers
  BY Given DEF Phases, Hands, ExecPCs, Ticker
<1>2. PICK u \in Tickers : u = Ticker
  BY <1>1
<1>3. ASSUME NEW t \in Tickers \ {u} PROVE Exposure'[t] = Exposure[t]
  <2>1. ~Mine(t)
    BY <1>2, <1>3 DEF Mine
  <2>2. \A e \in Events : TickerOf[e] = t => order'[e] = order[e]
    BY <1>2, <1>3 DEF Ticker
  <2>3. Idle(t)' <=> Idle(t)
    BY <2>2 DEF Idle, Working
  <2> QED BY <2>1, <2>3, ExposureOf, ExposureNext
<1>4. Exposure' = [Exposure EXCEPT ![u] = Exposure'[u]]
  BY <1>3, ExposureAt
<1>5. Exposure[u] \in {"ordered", "watched"}
  BY <1>1, <1>2, Given, ExposureOf DEF Mine
<1>6. Exposure'[u] = IF Idle(u)' THEN "flat" ELSE "unwatched"
  BY ExposureNext
<1>7. Careless \/ Idle(u)'
  BY <1>2 DEF Idle, Working
<1>8. Careless' = Careless
  BY CarelessFixed
<1>9. CASE Idle(u)'
  BY <1>4, <1>5, <1>6, <1>8, <1>9 DEF Promised!Settle, Promised!Becomes
<1>10. CASE Careless /\ ~Idle(u)'
  BY <1>4, <1>5, <1>6, <1>8, <1>10 DEF Promised!Lose, Promised!Becomes
<1> QED BY <1>7, <1>9, <1>10

\* A step of the market takes away what nobody watches, if anything.
LEMMA MarketUnwinds ==
    ASSUME TypeOK, Phases, [Next]_vars, TheMarket
    PROVE  Exposure' = Exposure \/ \E S \in SUBSET Tickers : Promised!Unwind(S)
<1>1. pc' = pc /\ cur' = cur /\ \A t \in Tickers : Mine(t)' <=> Mine(t)
  BY MarketTypes DEF TheMarket, TypeOK, Mine, Ticker
<1>2. ASSUME NEW t \in Tickers, Idle(t) PROVE Idle(t)'
  <2>1. ASSUME NEW e \in Events, Fills(e) PROVE Idle(t)'
    <3>1. order[e] = "working" /\ TickerOf[e] # t
      BY <1>2, <2>1 DEF Fills, Idle, Working
    <3>2. \A f \in Events \ {e} : order'[f] = order[f]
      BY <2>1 DEF Fills, TypeOK, ExecTypeOK
    <3>3. net'[t] = net[t]
      BY <2>1, <3>1 DEF Fills, TypeOK, ExecTypeOK
    <3> QED BY <1>2, <3>1, <3>2, <3>3 DEF Idle, Working
  <2>2. ASSUME NEW e \in Events, LegFires(e) PROVE Idle(t)'
    <3>1. net'[t] = net[t]
      <4>1. CASE TickerOf[e] = t
        <5>1. net[t] * side[e] = 0
          BY <1>2 DEF Idle, TypeOK, ExecTypeOK
        <5> QED BY <2>2, <4>1, <5>1 DEF LegFires, TypeOK, ExecTypeOK
      <4>2. CASE TickerOf[e] # t
        BY <2>2, <4>2 DEF LegFires, TypeOK, ExecTypeOK
      <4> QED BY <4>1, <4>2
    <3> QED BY <1>2, <2>2, <3>1 DEF LegFires, Idle, Working
  <2>3. CASE SessionEnds
    BY <1>2, <2>3 DEF SessionEnds, Idle, Working
  <2> QED BY <2>1, <2>2, <2>3 DEF TheMarket, Market
<1>3. ASSUME NEW t \in Tickers
      PROVE  Exposure'[t] = Exposure[t]
             \/ (Exposure[t] = "unwatched" /\ Exposure'[t] = "flat")
  BY <1>1, <1>2, ExposureOf, ExposureNext DEF Hands
<1> DEFINE S == {t \in Tickers : Exposure[t] # Exposure'[t]}
<1>4. CASE S = {}
  BY <1>4, ExposureSame
<1>5. CASE S # {}
  <2>1. \A t \in S : Exposure[t] = "unwatched"
    BY <1>3
  <2>2. Exposure' = [t \in Tickers |-> IF t \in S THEN "flat" ELSE Exposure[t]]
    <3>1. Exposure' = [t \in Tickers |-> Exposure'[t]]
      BY DEF Exposure
    <3> QED BY <3>1, <1>3
  <2>3. Promised!Unwind(S)
    BY <2>1, <2>2, <1>5, CarelessFixed DEF Promised!Unwind
  <2> QED BY <2>3
<1> QED BY <1>4, <1>5

\* A step of the daemon is a step of TradeExposure or leaves it alone.
LEMMA ImplementsStep ==
    ASSUME TypeOK, Phases, OrdersKnown, dryRun => NothingSent, Steady => OnlyTrade,
           OnlyTrade' \/ ~Steady, NothingSent' \/ ~dryRun, [Next]_vars
    PROVE  [Promised!Next]_(Promised!vars)
<1>c. Careless' = Careless
  BY CarelessFixed
<1>s. ASSUME Exposure' = Exposure PROVE [Promised!Next]_(Promised!vars)
  BY <1>c, <1>s DEF Promised!vars
<1>1. CASE Trade
  <2> DEFINE o == LocalDay \in over
  <2>0. o \in BOOLEAN /\ Execute(o) /\ at = "execute" /\ at' = at /\ cur \in Events
    BY <1>1 DEF Trade, memVars, Phases
  <2> HIDE DEF o
  <2>1. cur' = cur /\ Ticker' = Ticker /\ Ticker \in Tickers /\ Mine(Ticker)
    BY <2>0, ExecuteTypes, Given DEF TypeOK, Ticker, Mine
  <2>2. PICK u \in Tickers : u = Ticker
    BY <2>1
  <2>3. Mine(u) /\ Mine(u)' /\ \A t \in Tickers : Mine(t) => t = u
    BY <2>1, <2>2, <2>0, Given DEF Mine, Ticker
  <2> USE DEF At, Hands
  <2>4. CASE Guard(o) \/ Size \/ RecordEquity
    BY <2>4, OutsideSame, <1>s DEF Guard, Size, RecordEquity, orderVars
  <2>5. ASSUME pc \in Hands, pc' \in Hands, UNCHANGED <<order, net>>,
               pc \in {"wait", "cancel"} <=> pc' \in {"wait", "cancel"}
        PROVE  [Promised!Next]_(Promised!vars)
    <3>1. ASSUME NEW t \in Tickers PROVE Exposure'[t] = Exposure[t]
      BY <2>1, <2>5, ExposureOf, ExposureNext DEF Mine, Idle, Working
    <3> QED BY <3>1, ExposureSame, <1>s
  <2>6. ASSUME \A e \in Events : TickerOf[e] # u => order'[e] = order[e],
               \A t \in Tickers \ {u} : net'[t] = net[t]
        PROVE  /\ Exposure' = [Exposure EXCEPT ![u] = Exposure'[u]]
               /\ \A t \in Tickers \ {u} : Exposure'[t] = Exposure[t]
    <3>1. ASSUME NEW t \in Tickers \ {u} PROVE Exposure'[t] = Exposure[t]
      <4>1. ~Mine(t) /\ ~Mine(t)'
        BY <2>1, <2>3 DEF Mine
      <4>2. Idle(t)' <=> Idle(t)
        BY <2>6, <3>1 DEF Idle, Working
      <4> QED BY <4>1, <4>2, ExposureOf, ExposureNext
    <3> QED BY <3>1, ExposureAt
  <2>7. ASSUME NEW s \in {-1, 1}, Submit(s), net' = net, pc = "place"
        PROVE  \A e \in Events : TickerOf[e] # u => order'[e] = order[e]
    BY <2>0, <2>2, <2>7 DEF Submit, Ticker, TypeOK, ExecTypeOK
  <2>8. CASE \E s \in {-1, 1} : Place(s)
    <3>1. CASE pc' = "returned"
      BY <2>8, <3>1, OutsideSame, <1>s DEF Place
    <3>2. CASE pc' = "wait"
      <4>1. pc = "place" /\ Exposure' = [Exposure EXCEPT ![u] = Exposure'[u]]
        BY <2>6, <2>7, <2>8, <3>2 DEF Place
      <4>2. Exposure'[u] = "ordered"
        BY <2>3, <3>2, ExposureNext
      <4>3. \A t \in Tickers : Exposure[t] \in {"flat", "unwatched"}
        BY <4>1, ExposureOf
      <4>4. Promised!OrderOut(u)
        BY <4>1, <4>2, <4>3, <1>c
           DEF Promised!OrderOut, Promised!Busy, Promised!Becomes
      <4> QED BY <4>4 DEF Promised!Next
    <3> QED BY <2>8, <3>1, <3>2 DEF Place
  <2>9. CASE WaitEnds
    <3>1. CASE pc' = "cancel"
      BY <2>5, <2>9, <3>1 DEF WaitEnds, orderVars
    <3>2. CASE pc' = "enter"
      <4>1. Exposure' = [Exposure EXCEPT ![u] = Exposure'[u]]
        BY <2>6, <2>9 DEF WaitEnds, orderVars
      <4>2. Exposure[u] = "ordered" /\ Exposure'[u] = "watched"
        BY <2>3, <2>9, <3>2, ExposureOf, ExposureNext DEF WaitEnds
      <4>3. Promised!Enter(u)
        BY <4>1, <4>2, <1>c DEF Promised!Enter, Promised!Becomes
      <4> QED BY <4>3 DEF Promised!Next
    <3> QED BY <2>9, <3>1, <3>2 DEF WaitEnds
  <2>10. ASSUME pc \in Hands, pc' \notin Hands, net' = net,
                \A e \in Events : e # cur => order'[e] = order[e],
                Steady => net[Ticker] = 0
                          /\ \A e \in Events : TickerOf[e] = Ticker => order'[e] # "working"
         PROVE  [Promised!Next]_(Promised!vars)
    <3>1. dryRun => net[Ticker] = 0 /\ \A e \in Events : order'[e] # "working"
      <4>1. dryRun => NothingSent'
        OBVIOUS
      <4> QED BY <4>1, <2>1, <2>10 DEF NothingSent
    <3>2. \E t \in Tickers : Promised!Settle(t) \/ Promised!Lose(t)
      BY <2>10, <3>1, Leaves DEF Steady
    <3> QED BY <3>2 DEF Promised!Next
  <2>11. ASSUME pc' = "returned" \/ pc' = "equity", Steady, net' = net PROVE
             net[Ticker] = 0
             /\ \A e \in Events : TickerOf[e] = Ticker => order'[e] # "working"
    BY <2>1, <2>11 DEF OnlyTrade
  <2>12. CASE Cancel
    BY <2>10, <2>11, <2>12 DEF Cancel, TypeOK, ExecTypeOK
  <2>13. CASE CancelFails
    <3>1. Careless
      BY <2>13 DEF CancelFails, Careless
    <3> QED BY <2>10, <2>13, <3>1 DEF CancelFails, orderVars, Steady
  <2>14. CASE RecordEntry \/ HoldEnds
    BY <2>5, <2>14 DEF RecordEntry, HoldEnds, orderVars
  <2>15. CASE Close
    <3>1. /\ \A e \in Events : TickerOf[e] # u => order'[e] = order[e]
          /\ \A t \in Tickers \ {u} : net'[t] = net[t]
      BY <2>2, <2>15 DEF Close, Working, TypeOK, ExecTypeOK
    <3>2. Exposure[u] = "watched" /\ Exposure'[u] = "watched"
      BY <2>3, <2>15, ExposureOf, ExposureNext DEF Close
    <3>3. ASSUME NEW t \in Tickers PROVE Exposure'[t] = Exposure[t]
      BY <2>6, <3>1, <3>2
    <3> QED BY <3>3, ExposureSame, <1>s
  <2>16. CASE RecordExit
    BY <2>10, <2>11, <2>16 DEF RecordExit, orderVars
  <2>17. CASE Raises
    <3>1. /\ pc' = "raised" /\ net' = net
          /\ pc \in Hands \cup {"place"} => Careless
      BY <2>17 DEF Raises, Careless
    <3>2. CASE order' = order /\ pc \in Hands
      BY <2>10, <3>1, <3>2 DEF Steady
    <3>3. CASE order' = order /\ pc \notin Hands
      BY <3>1, <3>3, OutsideSame, <1>s
    <3>4. CASE pc = "place" /\ \E s \in {-1, 1} : Submit(s)
      <4>1. /\ Exposure' = [Exposure EXCEPT ![u] = Exposure'[u]]
            /\ \A t \in Tickers \ {u} : Exposure'[t] = Exposure[t]
        BY <2>6, <2>7, <3>1, <3>4
      <4>2. /\ Exposure[u] = IF Idle(u) THEN "flat" ELSE "unwatched"
            /\ Exposure'[u] = IF Idle(u)' THEN "flat" ELSE "unwatched"
        BY <3>1, <3>4, ExposureOf, ExposureNext
      <4>3. ~Idle(u) => ~Idle(u)'
        <5>1. order[cur] = "none"
          BY <3>4 DEF OrdersKnown
        <5>2. \A e \in Events : order[e] = "working" => order'[e] = "working"
          BY <2>0, <3>4, <5>1 DEF Submit, TypeOK, ExecTypeOK
        <5> QED BY <3>1, <5>2 DEF Idle, Working
      <4>4. CASE Exposure'[u] = Exposure[u]
        BY <4>1, <4>4, ExposureSame, <1>s
      <4>5. CASE Exposure[u] = "flat" /\ Exposure'[u] = "unwatched"
        <5>1. Promised!Stray(u)
          BY <3>1, <3>4, <4>1, <4>5, <1>c DEF Promised!Stray, Promised!Becomes
        <5> QED BY <5>1 DEF Promised!Next
      <4> QED BY <4>2, <4>3, <4>4, <4>5
    <3> QED BY <2>17, <3>2, <3>3, <3>4 DEF Raises
  <2> QED
    BY <2>0, <2>4, <2>8, <2>9, <2>12, <2>13, <2>14, <2>15, <2>16, <2>17 DEF Execute
<1>2. CASE TheMarket
  BY <1>2, <1>s, MarketUnwinds DEF Promised!Next
<1>3. CASE Down
  <2>1. CASE pc \in Hands
    <3>1. Careless
      BY <1>3, <2>1 DEF Down, Ends, Careless, Phases, Hands
    <3>2. \E t \in Tickers : Promised!Settle(t) \/ Promised!Lose(t)
      BY <1>3, <2>1, <3>1, Leaves DEF Down, orderVars, Hands
    <3> QED BY <3>2 DEF Promised!Next
  <2>2. CASE pc \notin Hands
    BY <1>3, <2>2, OutsideSame, <1>s DEF Down, orderVars, Hands
  <2> QED BY <2>1, <2>2
<1>4. CASE UNCHANGED <<pc, cur, order, net>>
  <2>1. ASSUME NEW t \in Tickers PROVE Exposure'[t] = Exposure[t]
    BY <1>4 DEF Exposure, Ticker, Working
  <2> QED BY <2>1, ExposureSame, <1>s
<1> QED
  BY <1>1, <1>2, <1>3, <1>4, OutsideSame, <1>s
     DEF Next, Daemon, vars, memVars, execVars, orderVars, PollBegins, FeedEnds, Take,
         Drop, Score, Gate, Return, Abort, RequestStop, Restart, Ages, Crawl, Tick,
         Phases, Hands

\* OneTradeInHand: for any news, tickers and faults, the daemon with its executor and
\* its broker does what TradeExposure says: one trade at a time, and no shares, nor an
\* order that may buy some, that nobody looks after, but through a mishap.
THEOREM Implements == Spec => OneTradeInHand
<1>1. Init => /\ OnceOnly /\ OrdersKnown /\ (dryRun => NothingSent)
              /\ (Steady => OnlyTrade)
  <2>1. Init => OnceOnly /\ OrdersKnown /\ NothingSent
    BY DEF Init, ExecInit, OnceOnly, OrdersKnown, NothingSent
  <2>2. Init => OnlyTrade
    BY DEF Init, ExecInit, OnlyTrade, Hands
  <2> QED BY <2>1, <2>2
<1>2. Init => Promised!Init
  BY Given DEF Init, ExecInit, Promised!Init, Exposure, Careless, Working
<1>3. Spec => [](/\ TypeOK /\ Phases /\ OnceOnly /\ OrdersKnown
                 /\ (dryRun => NothingSent) /\ (Steady => OnlyTrade))
  BY <1>1, FirstTypes, StepTypes, OnceStep, OrdersStep, NothingSentStep, OnlyTradeStep,
     PTL DEF Spec
<1>4. /\ TypeOK /\ Phases /\ OnceOnly /\ OrdersKnown /\ (dryRun => NothingSent)
      /\ (Steady => OnlyTrade) /\ [Next]_vars
      => [Promised!Next]_(Promised!vars)
  BY ImplementsStep, NothingSentStep, OnlyTradeStep, FaultsFixed DEF Steady, Careless
<1> QED BY <1>2, <1>3, <1>4, PTL DEF Spec, OneTradeInHand, Promised!Spec
=============================================================================
