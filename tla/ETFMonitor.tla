------------------------------ MODULE ETFMonitor ------------------------------
(***************************************************************************)
(* The order side of etf_monitor.py: one thread that every ten seconds     *)
(* looks at prices, enters one of two ETFs, leaves it on a signal, at a    *)
(* stop-loss or before the close, and keeps its position in                *)
(* agent_state.json so that it survives a restart.  The decision engine    *)
(* may sell the ETF under it (_liquidate_etf_for_cash) and saves the same  *)
(* file, whole, from a copy it loaded earlier.                             *)
(*                                                                         *)
(* Time is counted in units (a quarter of an hour in the configurations)   *)
(* from the market's opening; in the units from Open on the market is      *)
(* closed, and weekends are part of them.  The monitor completes a tick at *)
(* least once in a unit.  Deadlines are counted down, not dated.           *)
(*                                                                         *)
(* Left out: prices and indicators, whose verdicts (an entry or exit       *)
(* signal, a price under the stop) are choices, and the amount of cash.    *)
(* An order fills whole; an entry buys Lot shares.                         *)
(*                                                                         *)
(* A definition named ..._Mutant is a plausible bug in the definition that *)
(* follows it; no other definition uses it.                                *)
(***************************************************************************)
EXTENDS Integers

CONSTANTS
    Etfs,            \* trading.etf_preference and etf_alternate
    NoEtf,           \* stands for None
    Torn,            \* stands for a state file that cannot be read
    Lot,             \* shares bought by one entry
    MaxHeld,         \* bound: shares of one ETF held when it is entered
    Open, Day,       \* units the market is open, units in a day
    OpenSkip,        \* open_skip_minutes
    NoEntry,         \* no_entry_minutes
    EodClose,        \* eod_close_minutes
    MinHold,         \* min_hold_minutes
    ForcedCooldown,  \* _FORCED_EXIT_COOLDOWN_MINUTES
    StopCooldown,    \* _STOP_LOSS_COOLDOWN_MINUTES
    MaxStops,        \* _MAX_STOP_LOSSES_PER_DAY
    FaultSets        \* the sets of faults to consider, see FaultKinds

\* "liquidate": the engine sells ETF shares to raise cash.
\* "engine": the engine saves agent_state.json from a copy loaded earlier.
\* "broker": a call to the broker fails or an order is rejected, without effect.
\* "late": the call that places an order fails, and the order is filled.
\* "disk": the state file cannot be opened, or is emptied and not written.
\* "restart": the process is stopped between two ticks; "crash": between any two steps.
\* "cold": at a start, price history or the position cannot be fetched.  ("broker" is
\* about the calls of a tick: the two are told apart because NoRebuy survives only one.)
FaultKinds == {"liquidate", "engine", "broker", "late", "disk", "restart", "crash", "cold"}

ASSUME EtfsAssumption == NoEtf \notin Etfs
ASSUME TimesAssumption ==
    /\ {Lot, Open, Day, MaxStops} \subseteq Nat \ {0} /\ Open < Day
    /\ {MaxHeld, OpenSkip, NoEntry, EodClose, MinHold, ForcedCooldown, StopCooldown} \subseteq Nat
ASSUME FaultsAssumption == FaultSets \subseteq SUBSET FaultKinds

VARIABLES
    faults,    \* the faults this behaviour may have
    slot,      \* units since the market opened
    ticked,    \* a tick has completed in this unit
    running,   \* the process is up
    warm,      \* the ETFs whose bar buffers hold enough closes for a signal
    pc,        \* where the tick is
    pos,       \* _position
    want,      \* the ETF an entry is for
    snap,      \* position_snapshot of the tick
    stop,      \* force_stop of the exit in progress
    qty,       \* sell_qty
    blocked,   \* units until _entry_blocked_until
    stops,     \* _stop_losses_today
    today,     \* _stop_loss_date is the date of this session
    held,      \* broker: shares held, per ETF
    saved,     \* agent_state.json: etf_position, or Torn
    copy,      \* the engine's copy of etf_position
    sinceStop, \* history: units since the last stop-loss exit
    sinceExit, \* history: units since the last cooldown of either kind began
    mishap     \* history: a unit of this session went by without a sound tick

clockVars == <<slot, running, warm>>
tickVars == <<want, snap, stop, qty>>
blockVars == <<blocked, stops, today>>
sinceVars == <<sinceStop, sinceExit>>
vars == <<faults, clockVars, ticked, pc, pos, tickVars, blockVars, held, saved, copy,
          sinceVars, mishap>>

MinOf(a, b) == IF a < b THEN a ELSE b
Less(n) == IF n = 0 THEN 0 ELSE n - 1

\* _Position: the age is the time held, counted up to MinHold.
NoPos == [etf |-> NoEtf, qty |-> 0, age |-> 0]
Position == [etf : Etfs, qty : {Lot}, age : 0..MinHold]
PositionOrNone == Position \cup {NoPos}
ASSUME TornAssumption == Torn \notin PositionOrNone
Older(p) == IF p \in {NoPos, Torn} THEN p ELSE [p EXCEPT !.age = MinOf(@ + 1, MinHold)]

\* Types; in particular no order sells more than is held.
TypeOK ==
    /\ faults \in FaultSets
    /\ slot \in 0..Day - 1 /\ {ticked, running, stop, today, mishap} \subseteq BOOLEAN
    /\ warm \subseteq Etfs
    /\ pc \in {"idle", "order", "record", "query", "sell", "sold", "sync",
              "saving", "clearing"}
    /\ {pos, snap, copy} \subseteq PositionOrNone /\ saved \in PositionOrNone \cup {Torn}
    /\ want \in Etfs \cup {NoEtf} /\ qty \in Nat /\ held \in [Etfs -> Nat]
    /\ blocked \in 0..Day + ForcedCooldown + StopCooldown /\ stops \in 0..MaxStops
    /\ sinceStop \in 0..StopCooldown /\ sinceExit \in 0..ForcedCooldown

\* A process that starts with nothing, at the opening.
Init ==
    /\ faults \in FaultSets
    /\ slot = 0 /\ ticked = FALSE /\ running = TRUE /\ warm = Etfs
    /\ pc = "idle" /\ pos = NoPos
    /\ want = NoEtf /\ snap = NoPos /\ stop = FALSE /\ qty = 0
    /\ blocked = 0 /\ stops = 0 /\ today = FALSE
    /\ held = [e \in Etfs |-> 0] /\ saved = NoPos /\ copy = NoPos
    /\ sinceStop = StopCooldown /\ sinceExit = ForcedCooldown /\ mishap = FALSE

-----------------------------------------------------------------------------
(* Helpers *)

MarketOpen == slot < Open
ToClose == Open - slot

EndTick ==
    /\ pc' = "idle" /\ ticked' = TRUE
    /\ want' = NoEtf /\ snap' = NoPos /\ stop' = FALSE /\ qty' = 0

\* _save_etf_state and _clear_etf_state read the file, open it, which empties it, and
\* then write it.  It is not opened when it cannot be read (the engine may be writing
\* it, too), or when an entry is to be cleared and there is no file.
Opens == saved # Torn /\ saved' = Torn
NotOpened(p) ==
    /\ saved' = saved
    /\ saved = Torn \/ faults \cap {"disk", "engine"} # {} \/ (p = NoPos /\ saved = NoPos)

\* A tick that ends once the state is written.
WritesAndEnds(p) ==
    \/ Opens /\ pc' = "saving" /\ UNCHANGED <<ticked, tickVars>>
    \/ NotOpened(p) /\ EndTick

\* The gates of _execute_entry that depend on the clock; the others (signal,
\* volatility, squeeze, cash) are part of the choice to enter.
EntryAllowed_Mutant == blocked = 0 /\ slot >= OpenSkip
EntryAllowed == blocked = 0 /\ slot >= OpenSkip /\ ToClose > NoEntry

\* _execute_exit_check: nothing before the minimum hold; then the end of the day,
\* a price under the stop (s), or a signal with enough profit (g).
Exits(p, s, g) == p.age >= MinHold /\ (ToClose <= EodClose \/ s \/ g)

\* The cooldown after a stop-loss, and the circuit breaker.
StopsNow == IF today THEN MinOf(stops + 1, MaxStops) ELSE 1
StopBlock == IF StopsNow >= MaxStops THEN Day - slot ELSE StopCooldown

-----------------------------------------------------------------------------
(* One tick *)

Ticks == running /\ MarketOpen /\ pc = "idle"

\* No price can be fetched, or the buffers are too short for a signal.
TickSkips ==
    /\ Ticks /\ ("broker" \in faults \/ warm = {})
    /\ EndTick /\ mishap' = TRUE
    /\ UNCHANGED <<faults, clockVars, pos, blockVars, held, saved, copy, sinceVars>>

\* Flat, and no entry.
TickStaysFlat ==
    /\ Ticks /\ warm # {} /\ pos = NoPos
    /\ EndTick
    /\ UNCHANGED <<faults, clockVars, pos, blockVars, held, saved, copy, sinceVars, mishap>>

TickEnters(e) ==
    /\ Ticks /\ e \in warm /\ pos = NoPos /\ EntryAllowed
    /\ held[e] <= MaxHeld
    /\ pc' = "order" /\ want' = e
    /\ UNCHANGED <<faults, clockVars, ticked, pos, snap, stop, qty, blockVars, held, saved, copy,
                   sinceVars, mishap>>

\* The BUY is filled, or rejected in an answer that is not looked at.
BuyAnswered ==
    /\ pc = "order" /\ pc' = "record"
    /\ \/ held' = [held EXCEPT ![want] = @ + Lot]
       \/ "broker" \in faults /\ held' = held
    /\ UNCHANGED <<faults, clockVars, ticked, pos, tickVars, blockVars, saved, copy, sinceVars,
                   mishap>>

\* The account fetch or the order raises, or there is too little cash.
BuyRaises ==
    /\ pc = "order" /\ EndTick
    /\ \/ held' = held
       \/ "late" \in faults /\ held' = [held EXCEPT ![want] = @ + Lot]
    /\ UNCHANGED <<faults, clockVars, pos, blockVars, saved, copy, sinceVars, mishap>>

Record ==
    /\ pc = "record"
    /\ pos' = [etf |-> want, qty |-> Lot, age |-> 0]
    /\ WritesAndEnds(pos')
    /\ UNCHANGED <<faults, clockVars, blockVars, held, copy, sinceVars, mishap>>

\* The exit is considered only when the position's ETF has a signal.
TickHolds ==
    /\ Ticks /\ warm # {} /\ pos # NoPos
    /\ snap' = pos
    /\ \E s, g \in BOOLEAN :
          LET exit == pos.etf \in warm /\ Exits(pos, s, g)
          IN  /\ pc' = IF exit THEN "query" ELSE "sync"
              /\ stop' = (s /\ exit)
    /\ mishap' = (mishap \/ pos.etf \notin warm)
    /\ UNCHANGED <<faults, clockVars, ticked, pos, want, qty, blockVars, held, saved, copy,
                   sinceVars>>

\* get_position: what the broker holds is sold, whoever bought it.
QueryHolding ==
    /\ pc = "query" /\ pc' = "sell"
    /\ qty' = IF held[snap.etf] > 0 THEN held[snap.etf] ELSE snap.qty
    /\ UNCHANGED <<faults, clockVars, ticked, pos, want, snap, stop, blockVars, held, saved,
                   copy, sinceVars, mishap>>

SellFills_Mutant ==
    /\ pc = "sell" /\ pc' = "sold"
    /\ held' = [held EXCEPT ![snap.etf] = @ - qty]
    /\ UNCHANGED <<faults, clockVars, ticked, pos, tickVars, blockVars, saved, copy, sinceVars,
                   mishap>>
SellFills ==
    /\ pc = "sell" /\ pc' = "sold"
    /\ qty <= held[snap.etf]
    /\ held' = [held EXCEPT ![snap.etf] = @ - qty]
    /\ UNCHANGED <<faults, clockVars, ticked, pos, tickVars, blockVars, saved, copy, sinceVars,
                   mishap>>

\* The query or the order raises, or the order is rejected: the position stays.
SellFails ==
    /\ \/ pc \in {"query", "sell"} /\ "broker" \in faults /\ held' = held
       \/ pc = "sell" /\ qty > held[snap.etf] /\ held' = held
       \/ /\ pc = "sell" /\ qty <= held[snap.etf] /\ "late" \in faults
          /\ held' = [held EXCEPT ![snap.etf] = @ - qty]
    /\ pc' = "sync" /\ mishap' = TRUE
    /\ UNCHANGED <<faults, clockVars, ticked, pos, tickVars, blockVars, saved, copy, sinceVars>>

\* The position is cleared and, after a stop-loss, entries are blocked.
Sold_Mutant ==
    /\ pc = "sold" /\ pos' = NoPos
    /\ (Opens /\ pc' = "clearing") \/ (NotOpened(NoPos) /\ pc' = "sync")
    /\ UNCHANGED blockVars
    /\ sinceStop' = (IF stop THEN 0 ELSE sinceStop) /\ sinceExit' = (IF stop THEN 0 ELSE sinceExit)
    /\ UNCHANGED <<faults, clockVars, ticked, tickVars, held, copy, mishap>>
Sold ==
    /\ pc = "sold" /\ pos' = NoPos
    /\ (Opens /\ pc' = "clearing") \/ (NotOpened(NoPos) /\ pc' = "sync")
    /\ IF stop
       THEN /\ stops' = StopsNow /\ today' = TRUE /\ blocked' = StopBlock
            /\ sinceStop' = 0 /\ sinceExit' = 0
       ELSE UNCHANGED <<blockVars, sinceVars>>
    /\ UNCHANGED <<faults, clockVars, ticked, tickVars, held, copy, mishap>>

\* The file that was opened is written with the position; a full disk leaves it empty,
\* and a save of the engine's that was faster leaves a mixture of the two.
Dumps ==
    /\ pc \in {"saving", "clearing"}
    /\ \/ saved' = pos
       \/ "disk" \in faults /\ saved' = Torn
       \/ "engine" \in faults /\ saved # Torn /\ saved' = Torn
    /\ IF pc = "saving" THEN EndTick ELSE pc' = "sync" /\ UNCHANGED <<ticked, tickVars>>
    /\ UNCHANGED <<faults, clockVars, pos, blockVars, held, copy, sinceVars, mishap>>

\* _sync_position_with_broker is due once a minute.
SyncNotDue ==
    /\ pc = "sync" /\ EndTick
    /\ UNCHANGED <<faults, clockVars, pos, blockVars, held, saved, copy, sinceVars, mishap>>

SyncFails ==
    /\ pc = "sync" /\ "broker" \in faults /\ EndTick
    /\ UNCHANGED <<faults, clockVars, pos, blockVars, held, saved, copy, sinceVars, mishap>>

\* The snapshot's ETF is gone from the account: the position was sold by the
\* engine (or by this tick), and the cooldown of a forced exit begins.
Gone_Mutant == held[snap.etf] > 0 /\ 10 * held[snap.etf] < snap.qty
Gone == 10 * held[snap.etf] < snap.qty
Sync_Mutant ==
    /\ pc = "sync" /\ EndTick
    /\ IF Gone
       THEN pos' = NoPos /\ blocked' = ForcedCooldown /\ sinceExit' = 0
       ELSE UNCHANGED <<pos, blocked, sinceExit>>
    /\ UNCHANGED <<faults, clockVars, stops, today, held, saved, copy, sinceStop, mishap>>
Sync ==
    /\ pc = "sync"
    /\ IF Gone
       THEN /\ pos' = NoPos /\ WritesAndEnds(NoPos)
            /\ blocked' = ForcedCooldown /\ sinceExit' = 0
       ELSE EndTick /\ UNCHANGED <<pos, saved, blocked, sinceExit>>
    /\ UNCHANGED <<faults, clockVars, stops, today, held, copy, sinceStop, mishap>>

-----------------------------------------------------------------------------
(* Stop and start *)

\* Everything in memory is lost, the cooldowns included.  A crash may cut a save of
\* the engine's short.
ProcessStops ==
    /\ running /\ running' = FALSE
    /\ ("restart" \in faults /\ pc = "idle") \/ "crash" \in faults
    /\ pc' = "idle" /\ pos' = NoPos
    /\ want' = NoEtf /\ snap' = NoPos /\ stop' = FALSE /\ qty' = 0
    /\ blocked' = 0 /\ stops' = 0 /\ today' = FALSE
    /\ sinceStop' = StopCooldown /\ sinceExit' = ForcedCooldown
    /\ saved' = saved \/ ({"crash", "engine"} \subseteq faults /\ saved' = Torn)
    /\ UNCHANGED <<faults, slot, ticked, warm, held, copy, mishap>>

\* _load_state of the engine: a file that cannot be read counts as an empty one.
Read(f) == IF f = Torn THEN NoPos ELSE f

\* start: _seed_bars_from_history and _restore_position.  A position is restored
\* when the broker holds at least half of it; otherwise its entry is cleared.  A file
\* that cannot be read stays.  The engine loads its state afterwards.
Backed_Mutant(p) == p # NoPos /\ held[p.etf] > p.qty
Backed(p) == p # NoPos /\ 2 * held[p.etf] >= p.qty
Stale == saved \notin {NoPos, Torn} /\ ~Backed(saved)
Restored ==
    /\ pos' = IF Stale THEN NoPos ELSE Read(saved)
    /\ saved' = IF Stale THEN NoPos ELSE saved
ProcessStarts ==
    /\ ~running /\ running' = TRUE
    /\ warm' = Etfs /\ Restored
    /\ copy' = Read(saved')
    /\ UNCHANGED <<faults, slot, ticked, pc, tickVars, blockVars, held, sinceVars, mishap>>

\* The entry cannot be cleared: the file is not opened, or opened and not written,
\* and in a crash the process is gone with it.
ClearingFails ==
    /\ ~running /\ Stale
    /\ \/ "disk" \in faults /\ saved' \in {saved, Torn} /\ running' = TRUE /\ warm' = Etfs
       \/ "crash" \in faults /\ saved' = Torn /\ UNCHANGED <<running, warm>>
    /\ copy' = IF running' THEN Read(saved') ELSE copy
    /\ UNCHANGED <<faults, slot, ticked, pc, pos, tickVars, blockVars, held, sinceVars, mishap>>

\* The broker does not answer some of the calls: bars are missing, or a saved
\* position is not restored and stays in the file.
ProcessStartsCold ==
    /\ ~running /\ "cold" \in faults /\ running' = TRUE
    /\ warm' \in SUBSET Etfs
    /\ Restored \/ (pos' = NoPos /\ saved' = saved)
    /\ copy' = Read(saved') /\ mishap' = TRUE
    /\ UNCHANGED <<faults, slot, ticked, pc, tickVars, blockVars, held, sinceVars>>

-----------------------------------------------------------------------------
(* The engine, and time *)

\* _liquidate_etf_for_cash sells what it needs, part of the holding or all.
Liquidate(e) ==
    /\ running /\ MarketOpen /\ "liquidate" \in faults
    /\ \E k \in 0..held[e] - 1 : held' = [held EXCEPT ![e] = k]
    /\ UNCHANGED <<faults, clockVars, ticked, pc, pos, tickVars, blockVars, saved, copy,
                   sinceVars, mishap>>

EngineLoads ==
    /\ running /\ "engine" \in faults /\ copy' = Read(saved)
    /\ UNCHANGED <<faults, clockVars, ticked, pc, pos, tickVars, blockVars, held, saved,
                   sinceVars, mishap>>

EngineSaves ==
    /\ running /\ "engine" \in faults /\ saved' = copy
    /\ UNCHANGED <<faults, clockVars, ticked, pc, pos, tickVars, blockVars, held, copy,
                   sinceVars, mishap>>

\* A unit passes.  Ticks are shorter than a unit and more frequent.
Tock ==
    /\ pc = "idle" /\ (running /\ MarketOpen => ticked)
    /\ slot' = (slot + 1) % Day /\ ticked' = FALSE
    /\ blocked' = Less(blocked)
    /\ today' = (today /\ slot' # 0)
    /\ pos' = Older(pos) /\ saved' = Older(saved) /\ copy' = Older(copy)
    /\ sinceStop' = MinOf(sinceStop + 1, StopCooldown)
    /\ sinceExit' = MinOf(sinceExit + 1, ForcedCooldown)
    /\ warm' \in {w \in SUBSET Etfs : warm \subseteq w}
    /\ mishap' = (slot' # 0 /\ (mishap \/ ~running))
    /\ UNCHANGED <<faults, running, pc, tickVars, stops, held>>

-----------------------------------------------------------------------------

Tick ==
    \/ TickSkips \/ TickStaysFlat \/ TickHolds \/ (\E e \in Etfs : TickEnters(e))
    \/ BuyAnswered \/ BuyRaises \/ Record
    \/ QueryHolding \/ SellFills \/ SellFails \/ Sold \/ Dumps
    \/ SyncNotDue \/ SyncFails \/ Sync

Next ==
    \/ Tick \/ ProcessStops \/ ProcessStarts \/ ClearingFails \/ ProcessStartsCold
    \/ (\E e \in Etfs : Liquidate(e)) \/ EngineLoads \/ EngineSaves \/ Tock

Spec == Init /\ [][Next]_vars

-----------------------------------------------------------------------------
(* Safety *)

Buys == \E e \in Etfs : held'[e] > held[e]

\* After a stop-loss or a noticed liquidation nothing is bought for the shorter of
\* the two cooldowns, whatever fails, as long as the process lives.
CooldownKept == [][Buys => sinceExit >= MinOf(ForcedCooldown, StopCooldown)]_vars

\* "Cooldown after a stop-loss exit": nothing is bought for StopCooldown units, and
\* after MaxStops stop-losses nothing for the rest of the session.
StopLossCooldown ==
    [][Buys => sinceStop >= StopCooldown /\ ~(today /\ stops >= MaxStops)]_vars

\* No position is held overnight, unless a unit of the session went by without the
\* monitor, without prices or with a SELL that failed.  (A start after the
\* close restores what the file says, be it out of date.)
FileTrusted == faults \cap {"engine", "disk", "cold"} = {}
NoOvernight == (running /\ ~MarketOpen /\ FileTrusted) => pos = NoPos \/ mishap

\* Nothing is bought while a position the monitor bought is still there: a restart
\* between ticks, the engine's sales and a broker that fails do not make it forget.
Rebuys == Buys /\ \E e \in Etfs : 2 * held[e] >= Lot
NoRebuy == [][faults \subseteq {"liquidate", "broker", "restart"} => ~Rebuys]_vars

\* "Prevents double-buy after crashes / deploys": the same, with crashes.
NoRebuyAfterCrash == [][faults \subseteq {"restart", "crash"} => ~Rebuys]_vars

\* The same with the engine's saves: "Persist so a restart doesn't re-buy".
NoRebuyBesideEngine == [][faults \subseteq {"restart", "engine"} => ~Rebuys]_vars

\* Between ticks the file records the position the monitor has, when nobody else
\* writes the file and the disk works; a crash can make the file unreadable, never wrong.
Recorded ==
    (running /\ pc = "idle" /\ FileTrusted)
        => saved = pos \/ ("crash" \in faults /\ saved = Torn)

-----------------------------------------------------------------------------
(* Liveness *)

\* Ticks go on and end, a process that stopped is started again, a sync is due once
\* a minute, and time passes.  The broker answers again and again, so that
\* the bars fill up.
Fairness ==
    /\ WF_vars(Tick) /\ WF_vars(ProcessStarts) /\ WF_vars(Tock)
    /\ SF_vars(TickHolds) /\ SF_vars(Sync) /\ SF_vars(Tock /\ warm' = Etfs)
LiveSpec == Spec /\ Fairness

\* A position that the engine sold is noticed and forgotten in the end, even after
\* a BUY the broker rejected.
LiquidationNoticed ==
    \A e \in Etfs : (pos.etf = e /\ held[e] = 0) ~> (pos.etf # e \/ held[e] > 0)

=============================================================================
