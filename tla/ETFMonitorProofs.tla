--------------------------- MODULE ETFMonitorProofs ---------------------------
(***************************************************************************)
(* Theorems about ETFMonitor for any ETFs, times and sets of faults.       *)
(* MonitorTypes and CooldownHeld hold under every fault; the others under  *)
(* the faults their property names.                                        *)
(***************************************************************************)
EXTENDS ETFMonitor, TLAPS

-----------------------------------------------------------------------------
(* Types *)

\* TypeOK, conjunct by conjunct.
Types ==
    /\ faults \in FaultSets
    /\ slot \in 0..Day - 1 /\ ticked \in BOOLEAN /\ running \in BOOLEAN
    /\ stop \in BOOLEAN /\ today \in BOOLEAN /\ mishap \in BOOLEAN /\ warm \subseteq Etfs
    /\ pc \in {"idle", "order", "record", "query", "sell", "sold", "sync",
              "saving", "clearing"}
    /\ pos \in PositionOrNone /\ snap \in PositionOrNone
    /\ saved \in PositionOrNone \cup {Torn} /\ copy \in PositionOrNone
    /\ want \in Etfs \cup {NoEtf} /\ qty \in Nat /\ held \in [Etfs -> Nat]
    /\ blocked \in 0..Day + ForcedCooldown + StopCooldown /\ stops \in 0..MaxStops
    /\ sinceStop \in 0..StopCooldown /\ sinceExit \in 0..ForcedCooldown

\* A tick runs while the market is open and the process is up.  An entry in progress
\* passed the clock's gates and finds no position; the exit and the sync have a
\* snapshot, which is the position as long as there is one.
Phases ==
    /\ pc # "idle" => running /\ MarketOpen
    /\ pc \in {"order", "record"} => want \in Etfs /\ pos = NoPos /\ ToClose > NoEntry
    /\ pc \in {"query", "sell", "sold"} => snap \in Position /\ pos = snap
    /\ pc = "sync" => snap \in Position /\ (pos = NoPos \/ pos = snap)
    /\ pc = "clearing" => snap \in Position /\ pos = NoPos

\* The numbers the constants are.
LEMMA Times ==
    /\ Lot \in Nat /\ Lot > 0 /\ Open \in Nat /\ Day \in Nat /\ MaxStops \in Nat
    /\ Open > 0 /\ MaxStops > 0 /\ Open < Day
    /\ MaxHeld \in Nat /\ OpenSkip \in Nat /\ NoEntry \in Nat /\ EodClose \in Nat
    /\ MinHold \in Nat /\ ForcedCooldown \in Nat /\ StopCooldown \in Nat
BY TimesAssumption

\* TypeOK says no less than Types.
LEMMA TypesOK == TypeOK <=> Types
BY DEF TypeOK, Types

\* A position is one of the ETFs'; it is not "none".
LEMMA PositionParts ==
    /\ NoPos \in PositionOrNone /\ NoPos.etf = NoEtf /\ Torn \notin PositionOrNone
    /\ \A p \in PositionOrNone : p # NoPos => p \in Position
    /\ \A p \in Position : /\ p \in PositionOrNone /\ p # NoPos
                           /\ p.etf \in Etfs /\ p.qty = Lot /\ p.age \in 0..MinHold
    /\ \A e \in Etfs : [etf |-> e, qty |-> Lot, age |-> 0] \in Position
BY EtfsAssumption, TornAssumption, Times DEF PositionOrNone, Position, NoPos

\* A position that grows older stays a position; its age reaches MinHold.
LEMMA OlderParts ==
    /\ Older(NoPos) = NoPos /\ Older(Torn) = Torn
    /\ \A p \in Position : /\ Older(p) \in Position /\ Older(p).etf = p.etf
                           /\ Older(p).age = IF p.age = MinHold THEN MinHold ELSE p.age + 1
    /\ \A p \in PositionOrNone : Older(p) \in PositionOrNone
<1>1. Older(NoPos) = NoPos /\ Older(Torn) = Torn
  BY DEF Older
<1>2. ASSUME NEW p \in Position
      PROVE  /\ Older(p) \in Position /\ Older(p).etf = p.etf
             /\ Older(p).age = IF p.age = MinHold THEN MinHold ELSE p.age + 1
  <2>1. p # NoPos /\ p # Torn /\ p.etf \in Etfs /\ p.qty = Lot /\ p.age \in 0..MinHold
    BY PositionParts
  <2>2. p = [etf |-> p.etf, qty |-> p.qty, age |-> p.age]
    BY DEF Position
  <2>3. Older(p) = [etf |-> p.etf, qty |-> p.qty, age |-> MinOf(p.age + 1, MinHold)]
    BY <2>1, <2>2 DEF Older
  <2>4. MinOf(p.age + 1, MinHold) = IF p.age = MinHold THEN MinHold ELSE p.age + 1
    BY <2>1, Times DEF MinOf
  <2> QED BY <2>1, <2>3, <2>4, Times DEF Position
<1>3. \A p \in PositionOrNone : Older(p) \in PositionOrNone
  BY <1>1, <1>2, PositionParts
<1> QED BY <1>1, <1>2, <1>3

\* What a tick that ends, or goes on to write the state, leaves; and what a start does.
LEMMA Writing ==
    /\ \A p : WritesAndEnds(p)
          => \/ saved' = Torn /\ pc' = "saving" /\ UNCHANGED <<ticked, want, snap, stop, qty>>
             \/ saved' = saved /\ EndTick
    /\ (saved \in PositionOrNone \cup {Torn}) => Read(saved) \in PositionOrNone
BY PositionParts DEF WritesAndEnds, Opens, NotOpened, Read, tickVars

\* The steps of an entry keep types and phases.
LEMMA EntryTypes ==
    ASSUME Types, Phases,
           TickSkips \/ TickStaysFlat \/ (\E e \in Etfs : TickEnters(e))
             \/ BuyAnswered \/ BuyRaises \/ Record
    PROVE  Types' /\ Phases'
<1>1. CASE TickSkips
  BY <1>1, PositionParts
     DEF TickSkips, Types, Phases, EndTick, Ticks, MarketOpen, ToClose,
         clockVars, tickVars, blockVars, sinceVars
<1>2. CASE TickStaysFlat
  BY <1>2, PositionParts
     DEF TickStaysFlat, Types, Phases, EndTick, Ticks, MarketOpen, ToClose,
         clockVars, tickVars, blockVars, sinceVars
<1>3. ASSUME NEW e \in Etfs, TickEnters(e) PROVE Types' /\ Phases'
  BY <1>3
     DEF TickEnters, EntryAllowed, Types, Phases, Ticks, MarketOpen, ToClose,
         clockVars, blockVars, sinceVars
<1>4. CASE BuyAnswered
  <2>1. held' \in [Etfs -> Nat]
    BY <1>4, Times DEF BuyAnswered, Types
  <2> QED BY <1>4, <2>1
     DEF BuyAnswered, Types, Phases, MarketOpen, ToClose,
         clockVars, tickVars, blockVars, sinceVars
<1>5. CASE BuyRaises
  <2>1. held' \in [Etfs -> Nat]
    BY <1>5, Times DEF BuyRaises, Types
  <2> QED BY <1>5, <2>1, PositionParts
     DEF BuyRaises, EndTick, Types, Phases, MarketOpen, ToClose,
         clockVars, tickVars, blockVars, sinceVars
<1>6. CASE Record
  <2>1. pos' \in PositionOrNone
    BY <1>6, PositionParts DEF Record, Phases
  <2>2. /\ \/ saved' = Torn /\ pc' = "saving" /\ UNCHANGED <<ticked, want, snap, stop, qty>>
           \/ saved' = saved /\ EndTick
        /\ pc = "record"
        /\ UNCHANGED <<faults, clockVars, blockVars, held, copy, sinceVars, mishap>>
    BY <1>6, Writing DEF Record
  <2>3. CASE EndTick
    <3>1. saved' \in PositionOrNone \cup {Torn}
      BY <2>2 DEF Types
    <3> QED BY <2>1, <2>2, <2>3, <3>1, PositionParts
       DEF EndTick, Types, Phases, MarketOpen, ToClose, clockVars, blockVars, sinceVars
  <2>4. CASE saved' = Torn /\ pc' = "saving" /\ UNCHANGED <<ticked, want, snap, stop, qty>>
    BY <2>1, <2>2, <2>4
       DEF Types, Phases, MarketOpen, ToClose, clockVars, blockVars, sinceVars
  <2> QED BY <2>2, <2>3, <2>4
<1> QED BY <1>1, <1>2, <1>3, <1>4, <1>5, <1>6

\* The steps of an exit keep types and phases.
LEMMA ExitTypes ==
    ASSUME Types, Phases, TickHolds \/ QueryHolding \/ SellFills \/ SellFails \/ Sold
    PROVE  Types' /\ Phases'
<1>1. CASE TickHolds
  <2>1. pos \in Position BY <1>1, PositionParts DEF TickHolds, Types
  <2>2. stop' \in BOOLEAN /\ pc' \in {"query", "sync"}
    <3>1. PICK s \in BOOLEAN, g \in BOOLEAN :
             LET exit == pos.etf \in warm /\ Exits(pos, s, g)
             IN  /\ pc' = IF exit THEN "query" ELSE "sync"
                 /\ stop' = (s /\ exit)
      BY <1>1 DEF TickHolds
    <3> QED BY <3>1
  <2>3. mishap' \in BOOLEAN BY <1>1 DEF TickHolds
  <2>4. Ticks /\ snap' = pos
        /\ UNCHANGED <<faults, clockVars, ticked, pos, want, qty, blockVars, held, saved, copy,
                       sinceVars>>
    BY <1>1 DEF TickHolds
  <2> QED BY <2>1, <2>2, <2>3, <2>4
     DEF Types, Phases, Ticks, MarketOpen, ToClose, clockVars, blockVars, sinceVars
<1>2. CASE QueryHolding
  <2>1. qty' \in Nat
    BY <1>2, PositionParts, Times DEF QueryHolding, Types, Phases
  <2> QED BY <1>2, <2>1
     DEF QueryHolding, Types, Phases, MarketOpen, ToClose, clockVars, blockVars, sinceVars
<1>3. CASE SellFills
  <2>1. held' \in [Etfs -> Nat]
    BY <1>3, PositionParts DEF SellFills, Types, Phases
  <2> QED BY <1>3, <2>1
     DEF SellFills, Types, Phases, MarketOpen, ToClose,
         clockVars, tickVars, blockVars, sinceVars
<1>4. CASE SellFails
  <2>1. held' \in [Etfs -> Nat]
    BY <1>4, PositionParts DEF SellFails, Types, Phases
  <2>2. pc \in {"query", "sell"} BY <1>4 DEF SellFails
  <2> QED BY <1>4, <2>1, <2>2
     DEF SellFails, Types, Phases, MarketOpen, ToClose,
         clockVars, tickVars, blockVars, sinceVars
<1>5. CASE Sold
  <2>1. /\ pos' = NoPos /\ saved' \in PositionOrNone \cup {Torn}
        /\ pc = "sold" /\ pc' \in {"clearing", "sync"}
    BY <1>5, PositionParts DEF Sold, Opens, NotOpened, Types
  <2>2. /\ blocked' \in 0..Day + ForcedCooldown + StopCooldown /\ stops' \in 0..MaxStops
        /\ today' \in BOOLEAN /\ sinceStop' \in 0..StopCooldown
        /\ sinceExit' \in 0..ForcedCooldown
    <3>1. CASE stop
      <4>1. StopsNow \in 0..MaxStops
        BY Times DEF StopsNow, MinOf, Types
      <4>2. StopBlock \in 0..Day + ForcedCooldown + StopCooldown
        BY Times DEF StopBlock, Types
      <4> QED BY <1>5, <3>1, <4>1, <4>2, Times DEF Sold
    <3>2. CASE ~stop
      BY <1>5, <3>2 DEF Sold, Types, blockVars, sinceVars
    <3> QED BY <3>1, <3>2
  <2> QED BY <1>5, <2>1, <2>2, PositionParts
     DEF Sold, Types, Phases, MarketOpen, ToClose, clockVars, tickVars
<1> QED BY <1>1, <1>2, <1>3, <1>4, <1>5

\* The sync and the writing of the file keep types and phases.
LEMMA SyncTypes ==
    ASSUME Types, Phases, SyncNotDue \/ SyncFails \/ Sync \/ Dumps
    PROVE  Types' /\ Phases'
<1>1. CASE SyncNotDue \/ SyncFails
  <2>1. /\ EndTick
        /\ UNCHANGED <<faults, clockVars, pos, blockVars, held, saved, copy, sinceVars, mishap>>
    BY <1>1 DEF SyncNotDue, SyncFails
  <2> QED BY <2>1, PositionParts
     DEF EndTick, Types, Phases, MarketOpen, ToClose, clockVars, blockVars, sinceVars
<1>2. CASE Sync
  <2>1. pos' \in PositionOrNone
    BY <1>2, PositionParts DEF Sync, Types
  <2>2. blocked' \in 0..Day + ForcedCooldown + StopCooldown /\ sinceExit' \in 0..ForcedCooldown
    BY <1>2, Times DEF Sync, Types
  <2>3. /\ \/ saved' = Torn /\ pc' = "saving" /\ UNCHANGED <<ticked, want, snap, stop, qty>>
           \/ saved' = saved /\ EndTick
        /\ pc = "sync"
        /\ UNCHANGED <<faults, clockVars, stops, today, held, copy, sinceStop, mishap>>
    BY <1>2, Writing DEF Sync
  <2>4. CASE EndTick
    <3>1. saved' \in PositionOrNone \cup {Torn}
      BY <2>3 DEF Types
    <3> QED BY <2>1, <2>2, <2>3, <2>4, <3>1, PositionParts
       DEF EndTick, Types, Phases, MarketOpen, ToClose, clockVars
  <2>5. CASE saved' = Torn /\ pc' = "saving" /\ UNCHANGED <<ticked, want, snap, stop, qty>>
    BY <2>1, <2>2, <2>3, <2>5 DEF Types, Phases, MarketOpen, ToClose, clockVars
  <2> QED BY <2>3, <2>4, <2>5
<1>3. CASE Dumps
  <2>1. /\ saved' \in PositionOrNone \cup {Torn} /\ pc \in {"saving", "clearing"}
        /\ UNCHANGED <<faults, clockVars, pos, blockVars, held, copy, sinceVars, mishap>>
    BY <1>3 DEF Dumps, Types
  <2>2. CASE pc = "saving"
    <3>1. EndTick
      BY <1>3, <2>2 DEF Dumps
    <3> QED BY <2>1, <2>2, <3>1, PositionParts
       DEF EndTick, Types, Phases, MarketOpen, ToClose, clockVars, blockVars, sinceVars
  <2>3. CASE pc = "clearing"
    <3>1. pc' = "sync" /\ UNCHANGED <<ticked, tickVars>>
      BY <1>3, <2>3 DEF Dumps
    <3> QED BY <2>1, <2>3, <3>1
       DEF Types, Phases, MarketOpen, ToClose, clockVars, tickVars, blockVars, sinceVars
  <2> QED BY <2>1, <2>2, <2>3
<1> QED BY <1>1, <1>2, <1>3

\* So do a stop and a start.
LEMMA StartTypes ==
    ASSUME Types, Phases,
           ProcessStops \/ ProcessStarts \/ ClearingFails \/ ProcessStartsCold
    PROVE  Types' /\ Phases'
<1>1. CASE ProcessStops
  <2>1. /\ blocked' = 0 /\ stops' = 0 /\ today' = FALSE
        /\ sinceStop' = StopCooldown /\ sinceExit' = ForcedCooldown
    BY <1>1 DEF ProcessStops
  <2>2. /\ blocked' \in 0..Day + ForcedCooldown + StopCooldown /\ stops' \in 0..MaxStops
        /\ sinceStop' \in 0..StopCooldown /\ sinceExit' \in 0..ForcedCooldown
    BY <2>1, Times
  <2>3. /\ running' = FALSE /\ pc' = "idle" /\ pos' = NoPos
        /\ want' = NoEtf /\ snap' = NoPos /\ stop' = FALSE /\ qty' = 0
        /\ saved' \in PositionOrNone \cup {Torn}
        /\ UNCHANGED <<faults, slot, ticked, warm, held, copy, mishap>>
    BY <1>1 DEF ProcessStops, Types
  <2> QED BY <2>1, <2>2, <2>3, PositionParts DEF Types, Phases
<1>2. CASE ProcessStarts \/ ProcessStartsCold
  <2>1. pos' \in PositionOrNone /\ saved' \in PositionOrNone \cup {Torn}
    BY <1>2, PositionParts, Writing DEF ProcessStarts, ProcessStartsCold, Restored, Types
  <2>2. pc = "idle" BY <1>2 DEF ProcessStarts, ProcessStartsCold, Types, Phases
  <2>3. /\ warm' \subseteq Etfs /\ copy' \in PositionOrNone /\ running' = TRUE
        /\ mishap' \in BOOLEAN
    BY <1>2, <2>1, PositionParts DEF ProcessStarts, ProcessStartsCold, Read, Types
  <2>4. UNCHANGED <<faults, slot, ticked, pc, tickVars, blockVars, held, sinceVars>>
    BY <1>2 DEF ProcessStarts, ProcessStartsCold
  <2> QED BY <2>1, <2>2, <2>3, <2>4
     DEF Types, Phases, MarketOpen, ToClose, tickVars, blockVars, sinceVars
<1>3. CASE ClearingFails
  <2>1. /\ saved' \in PositionOrNone \cup {Torn} /\ warm' \subseteq Etfs
        /\ running' \in BOOLEAN /\ pc = "idle"
        /\ UNCHANGED <<faults, slot, ticked, pc, pos, tickVars, blockVars, held, sinceVars,
                       mishap>>
    BY <1>3 DEF ClearingFails, Types, Phases
  <2>2. copy' \in PositionOrNone
    BY <1>3, <2>1, PositionParts DEF ClearingFails, Read, Types
  <2> QED BY <2>1, <2>2
     DEF Types, Phases, MarketOpen, ToClose, tickVars, blockVars, sinceVars
<1> QED BY <1>1, <1>2, <1>3

\* So do the engine and the clock.
LEMMA RestTypes ==
    ASSUME Types, Phases,
           (\E e \in Etfs : Liquidate(e)) \/ EngineLoads \/ EngineSaves \/ Tock
    PROVE  Types' /\ Phases'
<1>1. ASSUME NEW e \in Etfs, Liquidate(e) PROVE Types' /\ Phases'
  <2>1. held' \in [Etfs -> Nat]
    BY <1>1 DEF Liquidate, Types
  <2> QED BY <1>1, <2>1
     DEF Liquidate, Types, Phases, MarketOpen, ToClose,
         clockVars, tickVars, blockVars, sinceVars
<1>2. CASE EngineLoads \/ EngineSaves
  BY <1>2, Writing
     DEF EngineLoads, EngineSaves, Types, Phases, MarketOpen, ToClose,
         clockVars, tickVars, blockVars, sinceVars
<1>3. CASE Tock
  <2>1. /\ pos' \in PositionOrNone /\ saved' \in PositionOrNone \cup {Torn}
        /\ copy' \in PositionOrNone
    BY <1>3, OlderParts DEF Tock, Types
  <2>2. slot' \in 0..Day - 1
    BY <1>3, Times DEF Tock, Types
  <2>3. /\ blocked' \in 0..Day + ForcedCooldown + StopCooldown
        /\ sinceStop' \in 0..StopCooldown /\ sinceExit' \in 0..ForcedCooldown
    BY <1>3, Times DEF Tock, Types, Less, MinOf
  <2>4. pc = "idle" /\ pc' = "idle" /\ warm' \subseteq Etfs
        /\ today' \in BOOLEAN /\ mishap' \in BOOLEAN /\ ticked' \in BOOLEAN
    BY <1>3 DEF Tock
  <2> QED BY <1>3, <2>1, <2>2, <2>3, <2>4 DEF Tock, Types, Phases, tickVars
<1> QED BY <1>1, <1>2, <1>3

\* Every step keeps types and phases.
LEMMA NextTypes == Types /\ Phases /\ [Next]_vars => Types' /\ Phases'
<1> SUFFICES ASSUME Types, Phases, [Next]_vars PROVE Types' /\ Phases'
  OBVIOUS
<1>1. CASE UNCHANGED vars
  BY <1>1 DEF vars, Types, Phases, MarketOpen, ToClose,
              clockVars, tickVars, blockVars, sinceVars
<1>2. CASE Tick
  BY <1>2, EntryTypes, ExitTypes, SyncTypes DEF Tick
<1> QED BY <1>1, <1>2, StartTypes, RestTypes DEF Next

\* The program starts with types and phases.
LEMMA InitTypes == Init => Types /\ Phases
<1> SUFFICES ASSUME Init PROVE Types /\ Phases
  OBVIOUS
<1>1. held \in [Etfs -> Nat]
  BY DEF Init
<1>2. /\ slot \in 0..Day - 1 /\ blocked \in 0..Day + ForcedCooldown + StopCooldown
      /\ stops \in 0..MaxStops /\ sinceStop \in 0..StopCooldown
      /\ sinceExit \in 0..ForcedCooldown
  BY Times DEF Init
<1>3. pos \in PositionOrNone /\ saved \in PositionOrNone
      /\ snap \in PositionOrNone /\ copy \in PositionOrNone
  BY PositionParts DEF Init
<1> QED BY <1>1, <1>2, <1>3 DEF Init, Types, Phases

\* Every variable keeps its type; in particular nothing is sold that is not held, and
\* an entry reaches the broker only from a clock that allows it.
THEOREM MonitorTypes == Spec => []TypeOK
<1>1. Types /\ Phases => TypeOK
  BY TypesOK
<1> QED BY <1>1, InitTypes, NextTypes, PTL DEF Spec

-----------------------------------------------------------------------------
(* Buying *)

\* Only an entry whose order is on its way buys.
LEMMA BuySteps ==
    ASSUME Types, Phases, [Next]_vars, Buys
    PROVE  pc = "order" /\ (BuyAnswered \/ BuyRaises)
<1>1. PICK e \in Etfs : held'[e] > held[e]
  BY DEF Buys
<1>2. held'[e] # held[e] /\ held[e] \in Nat
  BY <1>1 DEF Types
<1>3. ASSUME SellFills \/ SellFails PROVE FALSE
  <2>1. pc \in {"query", "sell"} /\ snap.etf \in Etfs
    BY <1>3, PositionParts DEF SellFills, SellFails, Phases
  <2>2. \/ held' = held
        \/ qty <= held[snap.etf] /\ held' = [held EXCEPT ![snap.etf] = @ - qty]
    BY <1>3 DEF SellFills, SellFails
  <2> QED BY <1>1, <1>2, <2>1, <2>2 DEF Types
<1>4. ASSUME NEW x \in Etfs, Liquidate(x) PROVE FALSE
  <2>1. PICK k \in 0..held[x] - 1 : held' = [held EXCEPT ![x] = k]
    BY <1>4 DEF Liquidate
  <2> QED BY <1>1, <1>2, <2>1 DEF Types
<1>5. ~UNCHANGED held
  BY <1>2
<1>6. BuyAnswered \/ BuyRaises
  BY <1>3, <1>4, <1>5
     DEF Next, vars, Tick, TickSkips, TickStaysFlat, TickEnters, TickHolds, Record,
         QueryHolding, Sold, Dumps, SyncNotDue, SyncFails, Sync, ProcessStops,
         ProcessStarts, ClearingFails, ProcessStartsCold, EngineLoads, EngineSaves, Tock
<1> QED BY <1>6 DEF BuyAnswered, BuyRaises

-----------------------------------------------------------------------------
(* The cooldown *)

Shorter == MinOf(ForcedCooldown, StopCooldown)

\* The block on entries lasts at least as long as the cooldown does, and an entry
\* that passed the block found no cooldown.
CooldownInv ==
    /\ blocked + sinceExit >= Shorter
    /\ pc = "order" => sinceExit >= Shorter

\* Steps that begin no cooldown and do not let time pass leave both counts.
LEMMA CooldownSame ==
    ASSUME UNCHANGED <<blocked, sinceExit>>, pc' # "order" \/ pc' = pc, CooldownInv
    PROVE  CooldownInv'
BY DEF CooldownInv

\* Every step keeps CooldownInv, if the night is not shorter than the cooldown: a
\* circuit breaker that trips just before the close blocks until midnight only.
LEMMA CooldownNext ==
    ASSUME Shorter <= Day - Open, Types, Phases, CooldownInv, [Next]_vars
    PROVE  CooldownInv'
<1>0. /\ Shorter \in Nat /\ Shorter <= ForcedCooldown /\ Shorter <= StopCooldown
      /\ blocked \in Nat /\ sinceExit \in Nat
  BY Times DEF Shorter, MinOf, Types
<1>1. ASSUME NEW e \in Etfs, TickEnters(e) PROVE CooldownInv'
  BY <1>0, <1>1 DEF TickEnters, EntryAllowed, CooldownInv, blockVars, sinceVars
<1>2. CASE Sold
  <2>1. CASE stop
    <3>1. StopBlock >= Shorter
      BY <1>0, <1>2, Times DEF Sold, StopBlock, Phases, MarketOpen, Types
    <3> QED BY <1>0, <1>2, <2>1, <3>1, Times DEF Sold, StopBlock, CooldownInv, Types
  <2>2. CASE ~stop
    BY <1>2, <2>2, CooldownSame DEF Sold, blockVars, sinceVars
  <2> QED BY <2>1, <2>2
<1>3. CASE Sync
  <2>1. CASE Gone
    BY <1>0, <1>3, <2>1, Writing, Times DEF Sync, EndTick, CooldownInv
  <2>2. CASE ~Gone
    BY <1>3, <2>2, CooldownSame DEF Sync, EndTick
  <2> QED BY <2>1, <2>2
<1>4. CASE ProcessStops
  BY <1>0, <1>4, Times DEF ProcessStops, CooldownInv
<1>5. CASE Tock
  <2>1. sinceExit' = MinOf(sinceExit + 1, ForcedCooldown) /\ blocked' = Less(blocked)
        /\ pc' = "idle"
    BY <1>5 DEF Tock
  <2> QED BY <1>0, <2>1, Times DEF CooldownInv, Less, MinOf, Types
<1>6. CASE \/ TickSkips \/ TickStaysFlat \/ TickHolds \/ BuyAnswered \/ BuyRaises \/ Record
           \/ QueryHolding \/ SellFills \/ SellFails \/ Dumps \/ SyncNotDue \/ SyncFails
  <2>1. UNCHANGED <<blocked, sinceExit>> /\ pc' # "order"
    BY <1>6, Writing
       DEF TickSkips, TickStaysFlat, TickHolds, BuyAnswered, BuyRaises, Record, QueryHolding,
           SellFills, SellFails, Dumps, SyncNotDue, SyncFails, EndTick, blockVars, sinceVars
  <2> QED BY <2>1, CooldownSame
<1>7. CASE \/ ProcessStarts \/ ClearingFails \/ ProcessStartsCold \/ (\E e \in Etfs : Liquidate(e))
           \/ EngineLoads \/ EngineSaves \/ UNCHANGED vars
  <2>1. UNCHANGED <<blocked, sinceExit, pc>>
    BY <1>7
       DEF ProcessStarts, ClearingFails, ProcessStartsCold, Liquidate, EngineLoads,
           EngineSaves, vars, blockVars, sinceVars
  <2> QED BY <2>1, CooldownSame
<1> QED BY <1>1, <1>2, <1>3, <1>4, <1>5, <1>6, <1>7 DEF Next, Tick

\* After a stop-loss exit, and after the monitor has noticed that the engine sold its
\* position, nothing is bought for the shorter of the two cooldowns: whatever fails,
\* whatever the order of ticks, syncs and the engine's sales, as long as the process
\* lives.
THEOREM CooldownHeld ==
    ASSUME MinOf(ForcedCooldown, StopCooldown) <= Day - Open
    PROVE  Spec => CooldownKept
<1> DEFINE Inv == Types /\ Phases /\ CooldownInv
<1>1. Init => Inv
  BY InitTypes, Times DEF Init, CooldownInv, Shorter, MinOf
<1>2. Inv /\ [Next]_vars => Inv'
  BY NextTypes, CooldownNext DEF Shorter
<1>3. Inv /\ [Next]_vars => [Buys => sinceExit >= MinOf(ForcedCooldown, StopCooldown)]_vars
  BY BuySteps DEF CooldownInv, Shorter
<1> QED BY <1>1, <1>2, <1>3, PTL DEF Spec, CooldownKept

-----------------------------------------------------------------------------
(* The file *)

\* While the process is up and the file is not being written, the file says what the
\* monitor has; it is unreadable only after a crash.
FileInv ==
    FileTrusted =>
      /\ running /\ pc \notin {"saving", "clearing"}
           => saved = pos \/ ("crash" \in faults /\ saved = Torn)
      /\ ~running /\ saved = Torn => "crash" \in faults

\* The faults of a behaviour do not change.
LEMMA SameFaults == [Next]_vars => faults' = faults
BY DEF Next, Tick, TickSkips, TickStaysFlat, TickEnters, BuyAnswered, BuyRaises, Record,
       TickHolds, QueryHolding, SellFills, SellFails, Sold, Dumps, SyncNotDue, SyncFails,
       Sync, ProcessStops, ProcessStarts, ClearingFails, ProcessStartsCold, Liquidate, EngineLoads, EngineSaves,
       Tock, vars

\* With a trusted file the engine does not save, and a start can ask the broker; a write
\* that was begun completes unless the process is gone.
LEMMA Trusted ==
    FileTrusted => /\ Dumps => saved' = pos
                   /\ ProcessStops => saved' = saved
                   /\ ClearingFails => /\ "crash" \in faults /\ saved' = Torn
                                       /\ UNCHANGED <<running, warm>>
                   /\ ~EngineSaves /\ ~ProcessStartsCold
BY DEF FileTrusted, Dumps, ProcessStops, ClearingFails, EngineSaves,
       ProcessStartsCold

\* Every step keeps FileInv.
LEMMA FileNext ==
    ASSUME Types, Phases, FileInv, [Next]_vars
    PROVE  FileInv'
<1> SUFFICES ASSUME FileTrusted
             PROVE  /\ running' /\ pc' \notin {"saving", "clearing"}
                         => saved' = pos' \/ ("crash" \in faults /\ saved' = Torn)
                    /\ ~running' /\ saved' = Torn => "crash" \in faults
  BY SameFaults DEF FileInv, FileTrusted
<1>1. CASE Record
  <2>1. pos' # NoPos /\ running' = running /\ pc = "record" /\ running
    BY <1>1, PositionParts DEF Record, Phases, clockVars
  <2>2. \/ pc' = "saving"
        \/ saved' = saved /\ saved = Torn
    BY <1>1, <2>1 DEF Record, WritesAndEnds, NotOpened, FileTrusted
  <2> QED BY <2>1, <2>2, PositionParts DEF FileInv, Types
<1>2. CASE Sold
  <2>1. running' = running /\ running /\ pc = "sold" /\ pos' = NoPos
    BY <1>2 DEF Sold, Phases, clockVars
  <2>2. \/ pc' = "clearing"
        \/ saved' = saved /\ saved \in {Torn, NoPos}
    BY <1>2 DEF Sold, NotOpened, FileTrusted
  <2> QED BY <2>1, <2>2, PositionParts DEF FileInv, Types
<1>3. CASE Sync
  <2>1. running' = running /\ running /\ pc = "sync"
    BY <1>3 DEF Sync, Phases, clockVars
  <2>2. CASE Gone
    <3>1. \/ pc' = "saving"
          \/ saved' = saved /\ saved \in {Torn, NoPos} /\ pos' = NoPos
      BY <1>3, <2>2 DEF Sync, WritesAndEnds, NotOpened, FileTrusted
    <3> QED BY <2>1, <3>1, PositionParts DEF FileInv, Types
  <2>3. CASE ~Gone
    BY <1>3, <2>1, <2>3 DEF Sync, FileInv
  <2> QED BY <2>2, <2>3
<1>4. CASE Dumps
  BY <1>4, Trusted DEF Dumps, Phases, clockVars
<1>5. CASE ProcessStops
  <2>1. /\ saved' = saved /\ running /\ ~running'
        /\ pc = "idle" \/ "crash" \in faults
    BY <1>5, Trusted DEF ProcessStops
  <2> QED BY <2>1, PositionParts DEF FileInv, Types
<1>6. CASE ProcessStarts
  <2>1. ~running /\ running' /\ Restored
    BY <1>6 DEF ProcessStarts
  <2>2. saved = Torn \/ saved' = pos'
    BY <2>1 DEF Restored, Read
  <2> QED BY <2>1, <2>2, PositionParts DEF FileInv, Restored, Stale
<1>7. CASE ClearingFails
  BY <1>7, Trusted DEF ClearingFails
<1>8. CASE Tock
  <2>1. /\ pc = "idle" /\ pos' = Older(pos) /\ saved' = Older(saved) /\ running' = running
    BY <1>8 DEF Tock
  <2>2. saved \in PositionOrNone => saved' # Torn
    BY <2>1, OlderParts, PositionParts
  <2>3. saved = Torn => saved' = Torn
    BY <2>1, OlderParts
  <2> QED BY <2>1, <2>2, <2>3 DEF FileInv, Types
<1>9. CASE /\ UNCHANGED <<saved, pos, running>>
           /\ pc \in {"saving", "clearing"} => pc' = pc
  BY <1>9 DEF FileInv
<1> QED BY <1>1, <1>2, <1>3, <1>4, <1>5, <1>6, <1>7, <1>8, <1>9, Trusted
   DEF Next, Tick, TickSkips, TickStaysFlat, TickEnters, BuyAnswered, BuyRaises, Ticks,
       TickHolds, QueryHolding, SellFills, SellFails, SyncNotDue, SyncFails,
       Liquidate, EngineLoads, vars, clockVars

\* Between ticks the state file records the monitor's position or, after a crash, cannot
\* be read: it never holds a position the monitor does not have, nor misses one, through
\* crashes and restarts between any two steps (the two steps of a write among them),
\* when nobody else writes it and the disk works.
THEOREM FileRecords == Spec => []Recorded
<1> DEFINE Inv == Types /\ Phases /\ FileInv
<1>1. Init => Inv
  BY InitTypes DEF Init, FileInv
<1>2. Inv /\ [Next]_vars => Inv'
  BY NextTypes, FileNext
<1>3. Inv => Recorded
  BY DEF FileInv, Recorded
<1> QED BY <1>1, <1>2, <1>3, PTL DEF Spec

-----------------------------------------------------------------------------
(* The end of the day *)

EndOfDay == ToClose <= EodClose

\* A position is old enough to be left, or was entered before the entries of the day
\* ended.
Timely(p) == p = NoPos \/ p.age = MinHold \/ slot < Open - NoEntry + p.age

\* Every ETF has its bars; and towards the end of a day without a
\* mishap a tick leaves no position: neither does the sync see one, nor is there one
\* in memory or in the file after it.
DayNow ==
    /\ Timely(pos) /\ (saved = Torn \/ Timely(saved)) /\ warm = Etfs
    /\ EndOfDay /\ ~mishap /\ pc \in {"sync", "saving"} => pos = NoPos
    /\ EndOfDay /\ ~mishap /\ (ticked \/ ~MarketOpen) => pos = NoPos /\ saved \in {NoPos, Torn}

DayInv == FileTrusted => DayNow

\* What the proof needs of the clock: entries end before positions are closed, and
\* early enough for a position to reach its minimum hold.
ClockFits ==
    /\ EodClose >= 1 /\ EodClose <= NoEntry /\ NoEntry < Open
    /\ EodClose + MinHold <= NoEntry + 1

\* At the end of the day, a timely position may be left.
LEMMA OldEnough ==
    ASSUME ClockFits, Types, NEW p \in Position, Timely(p), EndOfDay
    PROVE  p.age = MinHold
BY PositionParts, Times DEF ClockFits, Timely, EndOfDay, ToClose, Types

\* The steps of an entry keep DayInv.
LEMMA DayEntry ==
    ASSUME ClockFits, Types, Phases, FileInv, DayInv,
           TickSkips \/ TickStaysFlat \/ (\E e \in Etfs : TickEnters(e))
             \/ BuyAnswered \/ BuyRaises \/ Record
    PROVE  DayInv'
<1> SUFFICES ASSUME FileTrusted
             PROVE  DayNow'
  BY DEF DayInv, FileTrusted, TickSkips, TickStaysFlat, TickEnters, BuyAnswered, BuyRaises,
         Record
<1>1. slot' = slot /\ warm' = warm /\ pc' # "sync" /\ (~Record => pc' # "saving")
  BY Writing
  DEF TickSkips, TickStaysFlat, TickEnters, BuyAnswered, BuyRaises, Record, EndTick, clockVars
<1>2. CASE TickSkips
  BY <1>1, <1>2 DEF TickSkips, EndTick, DayInv, DayNow, Timely
<1>3. CASE TickStaysFlat \/ BuyRaises
  <2>1. pos = NoPos /\ saved \in {NoPos, Torn} /\ pos' = pos /\ saved' = saved
    BY <1>3 DEF TickStaysFlat, BuyRaises, Phases, FileInv, Ticks
  <2> QED BY <1>1, <2>1 DEF DayInv, DayNow, Timely
<1>4. CASE (\E e \in Etfs : TickEnters(e)) \/ BuyAnswered
  <2>1. UNCHANGED <<pos, saved, ticked, mishap>> /\ pc' # "saving"
    BY <1>4 DEF TickEnters, BuyAnswered
  <2> QED BY <1>1, <2>1 DEF DayInv, DayNow, Timely, EndOfDay, ToClose, MarketOpen
<1>5. CASE Record
  <2>1. ToClose > NoEntry /\ want \in Etfs
    BY <1>5 DEF Record, Phases
  <2>2. pos' = [etf |-> want, qty |-> Lot, age |-> 0] /\ pos' # NoPos
    BY <1>5, <2>1, PositionParts DEF Record
  <2>3. slot < Open - NoEntry + 0 /\ ~EndOfDay' /\ pos'.age = 0
    BY <1>1, <2>1, <2>2, Times DEF ToClose, EndOfDay, ClockFits, Types
  <2>4. saved' = Torn
    BY <1>5, <2>2, Writing DEF Record, WritesAndEnds, Opens, NotOpened, FileTrusted
  <2>5. MarketOpen'
    BY <1>1, <1>5 DEF Record, Phases, MarketOpen
  <2> QED BY <1>1, <2>2, <2>3, <2>4, <2>5 DEF DayInv, DayNow, Timely
<1> QED BY <1>2, <1>3, <1>4, <1>5

\* The steps of an exit, and the sync, keep DayInv.
LEMMA DayExit ==
    ASSUME ClockFits, Types, Phases, FileInv, DayInv,
           TickHolds \/ QueryHolding \/ SellFills \/ SellFails \/ Sold
             \/ Dumps \/ SyncNotDue \/ SyncFails \/ Sync
    PROVE  DayInv'
<1> SUFFICES ASSUME FileTrusted
             PROVE  DayNow'
  BY DEF DayInv, FileTrusted, TickHolds, QueryHolding, SellFills, SellFails, Sold,
         Dumps, SyncNotDue, SyncFails, Sync
<1>1. slot' = slot /\ warm' = warm /\ warm = Etfs /\ MarketOpen
  BY DEF TickHolds, QueryHolding, SellFills, SellFails, Sold, Dumps, SyncNotDue, SyncFails,
         Sync, clockVars, DayInv, DayNow, Phases, Ticks
<1>2. CASE TickHolds
  <2>1. UNCHANGED <<pos, saved, ticked>> /\ pos \in Position /\ pos.etf \in warm
    BY <1>1, <1>2, PositionParts DEF TickHolds, Types
  <2>2. mishap' = mishap
    BY <1>2, <2>1 DEF TickHolds, Types
  <2>3. EndOfDay => pc' = "query"
    <3>1. SUFFICES ASSUME EndOfDay PROVE pc' = "query"
      OBVIOUS
    <3>2. pos.age = MinHold /\ MinHold \in Nat
      BY <2>1, <3>1, OldEnough, Times DEF DayInv, DayNow
    <3>3. \A s, g \in BOOLEAN : Exits(pos, s, g)
      BY <3>1, <3>2 DEF Exits, EndOfDay
    <3> QED BY <1>2, <2>1, <3>3 DEF TickHolds
  <2> QED BY <1>1, <2>1, <2>2, <2>3 DEF DayInv, DayNow, Timely, EndOfDay, ToClose, MarketOpen
<1>3. CASE QueryHolding \/ SellFills
  <2>1. UNCHANGED <<pos, saved, ticked, mishap>> /\ pc' \notin {"sync", "saving"}
    BY <1>3 DEF QueryHolding, SellFills
  <2> QED BY <1>1, <2>1 DEF DayInv, DayNow, Timely, EndOfDay, ToClose, MarketOpen
<1>4. CASE SellFails
  <2>1. UNCHANGED <<pos, saved>> /\ mishap' = TRUE
    BY <1>4 DEF SellFails
  <2> QED BY <1>1, <2>1 DEF DayInv, DayNow, Timely
<1>5. CASE Sold
  <2>1. pos' = NoPos /\ saved' \in {NoPos, Torn}
    BY <1>5 DEF Sold, Opens, NotOpened, FileTrusted
  <2> QED BY <1>1, <2>1 DEF DayNow, Timely
<1>6. CASE SyncNotDue \/ SyncFails \/ Sync
  <2>1. /\ pc = "sync" /\ mishap' = mishap /\ saved \in {pos, Torn}
        /\ (pos' = NoPos /\ saved' \in {NoPos, Torn}) \/ UNCHANGED <<pos, saved>>
    BY <1>6
       DEF SyncNotDue, SyncFails, Sync, WritesAndEnds, Opens, NotOpened, FileTrusted, FileInv,
           Phases
  <2> QED BY <1>1, <2>1 DEF DayInv, DayNow, Timely, EndOfDay, ToClose
<1>7. CASE Dumps
  <2>1. /\ saved' = pos /\ pos' = pos /\ mishap' = mishap
        /\ pc = "saving" \/ (pc = "clearing" /\ pos = NoPos)
    BY <1>7, Trusted DEF Dumps, Phases
  <2> QED BY <1>1, <2>1 DEF DayInv, DayNow, Timely, EndOfDay, ToClose
<1> QED BY <1>2, <1>3, <1>4, <1>5, <1>6, <1>7

\* A stop, a start and the engine's sales keep DayInv.
LEMMA DayRest ==
    ASSUME Types, Phases, FileInv, DayInv,
           ProcessStops \/ ProcessStarts \/ ClearingFails \/ (\E e \in Etfs : Liquidate(e))
             \/ EngineLoads \/ UNCHANGED vars
    PROVE  DayInv'
<1> SUFFICES ASSUME FileTrusted
             PROVE  DayNow'
  BY DEF DayInv, FileTrusted, ProcessStops, ProcessStarts, ClearingFails, Liquidate,
         EngineLoads, vars
<1>1. UNCHANGED <<slot, ticked, mishap>> /\ warm' = Etfs
  BY Trusted
     DEF ProcessStops, ProcessStarts, ClearingFails, Liquidate, EngineLoads, vars, clockVars,
         DayInv, DayNow
<1>2. CASE ProcessStops
  BY <1>1, <1>2, Trusted
     DEF ProcessStops, DayInv, DayNow, Timely, EndOfDay, ToClose, MarketOpen
<1>3. CASE ProcessStarts
  <2>1. pc = "idle" /\ pc' = pc
    BY <1>3 DEF ProcessStarts, Phases
  <2>2. \/ pos' = saved /\ saved' = saved /\ saved # Torn
        \/ pos' = NoPos /\ saved' \in {NoPos, Torn}
    BY <1>3 DEF ProcessStarts, Restored, Read
  <2> QED BY <1>1, <2>1, <2>2 DEF DayInv, DayNow, Timely, EndOfDay, ToClose, MarketOpen
<1>4. CASE (\E e \in Etfs : Liquidate(e)) \/ EngineLoads \/ UNCHANGED vars
  <2>1. UNCHANGED <<pos, saved, pc>>
    BY <1>4 DEF Liquidate, EngineLoads, vars
  <2> QED BY <1>1, <2>1 DEF DayInv, DayNow, Timely, EndOfDay, ToClose, MarketOpen
<1>5. CASE ClearingFails
  <2>1. saved' = Torn /\ UNCHANGED <<pos, pc>>
    BY <1>5, Trusted DEF ClearingFails
  <2> QED BY <1>1, <2>1 DEF DayInv, DayNow, Timely, EndOfDay, ToClose, MarketOpen
<1> QED BY <1>2, <1>3, <1>4, <1>5

\* A unit that passes keeps a timely position timely.
LEMMA TimelyTock ==
    ASSUME ClockFits, Types, Tock, NEW p \in PositionOrNone, Timely(p)
    PROVE  Older(p) = NoPos \/ Older(p).age = MinHold \/ slot' < Open - NoEntry + Older(p).age
<1>1. CASE p = NoPos
  BY <1>1, OlderParts
<1>2. CASE p # NoPos
  <2>1. /\ p \in Position /\ p.age \in 0..MinHold
        /\ Older(p).age = IF p.age = MinHold THEN MinHold ELSE p.age + 1
    BY <1>2, OlderParts, PositionParts
  <2>2. slot \in Nat /\ slot < Day /\ slot' \in Nat /\ slot' <= slot + 1
    BY Times DEF Tock, Types
  <2> QED BY <1>2, <2>1, <2>2, Times DEF ClockFits, Timely
<1> QED BY <1>1, <1>2

\* The clock keeps DayInv.  When the market closes, a process that is up has completed
\* a tick in the last unit, and one that is down is a mishap.
LEMMA DayTock ==
    ASSUME ClockFits, Types, Phases, FileInv, DayInv, Tock
    PROVE  DayInv'
<1> SUFFICES ASSUME FileTrusted
             PROVE  DayNow'
  BY DEF DayInv, FileTrusted, Tock
<1>1. pos' = Older(pos) /\ saved' = Older(saved) /\ ticked' = FALSE /\ pc' = "idle"
  BY DEF Tock
<1>2. Timely(pos)' /\ (saved' = Torn \/ Timely(saved)')
  BY <1>1, TimelyTock, OlderParts DEF DayInv, DayNow, Types, Timely
<1>3. warm' = Etfs
  BY DEF Tock, DayInv, DayNow
<1>4. ASSUME ~mishap', ~MarketOpen' PROVE pos' = NoPos /\ saved' \in {NoPos, Torn}
  <2>1. slot' # 0 /\ slot' = slot + 1
    BY <1>4, Times DEF MarketOpen, Tock, Types
  <2>2. running /\ ~mishap
    BY <2>1, <1>4 DEF Tock, Types
  <2>3. EndOfDay
    BY <1>4, <2>1, Times DEF EndOfDay, ToClose, MarketOpen, ClockFits, Types
  <2>4. ticked \/ ~MarketOpen
    BY <2>2 DEF Tock
  <2>5. pos = NoPos /\ saved \in {NoPos, Torn}
    BY <2>2, <2>3, <2>4 DEF DayInv, DayNow
  <2> QED BY <1>1, <2>5, OlderParts
<1> QED BY <1>1, <1>2, <1>3, <1>4 DEF DayNow

\* No position is held overnight, unless a unit of the session passed without a sound
\* tick: however the entries, exits, syncs, restarts and the engine's sales interleave.
THEOREM FlatOvernight ==
    ASSUME EodClose >= 1, EodClose <= NoEntry, NoEntry < Open,
           EodClose + MinHold <= NoEntry + 1
    PROVE  Spec => []NoOvernight
<1> DEFINE Inv == Types /\ Phases /\ FileInv /\ DayInv
<1>1. ClockFits
  BY DEF ClockFits
<1>2. Init => Inv
  <2>1. Init => FileInv /\ DayInv
    BY <1>1, Times DEF Init, FileInv, DayInv, DayNow, Timely, MarketOpen
  <2> QED BY <2>1, InitTypes
<1>3. Inv /\ [Next]_vars => Inv'
  <2> SUFFICES ASSUME Inv, [Next]_vars PROVE Inv'
    OBVIOUS
  <2>1. Types' /\ Phases' /\ FileInv'
    BY NextTypes, FileNext
  <2>2. CASE EngineSaves \/ ProcessStartsCold
    <3>1. ~FileTrusted'
      BY <2>2, Trusted, SameFaults DEF FileTrusted
    <3> QED BY <2>1, <3>1 DEF DayInv
  <2>3. CASE ~(EngineSaves \/ ProcessStartsCold)
    <3>1. DayInv'
      BY <1>1, <2>3, DayEntry, DayExit, DayRest, DayTock DEF Next, Tick
    <3> QED BY <2>1, <3>1
  <2> QED BY <2>2, <2>3
<1>4. Inv => NoOvernight
  BY <1>1, Times DEF NoOvernight, DayInv, DayNow, EndOfDay, ToClose, MarketOpen, ClockFits, Types
<1> QED BY <1>2, <1>3, <1>4, PTL DEF Spec

-----------------------------------------------------------------------------
(* Buying what is still there *)

Bought(e) == 2 * held[e] >= Lot
Mild == faults \subseteq {"liquidate", "broker", "restart"}

\* What the account holds, the monitor or, while it is down, its file knows of.  An
\* exit in progress sells all of it, and the engine can only have made it less.
HoldNow ==
    /\ running => \A e \in Etfs : Bought(e) => pos.etf = e \/ (pc = "record" /\ want = e)
    /\ ~running => \A e \in Etfs : Bought(e) => saved.etf = e
    /\ pc = "sell" => held[snap.etf] <= qty
    /\ pc = "sold" => held[snap.etf] = 0

HoldInv == Mild => HoldNow

\* What the mild faults leave out.
LEMMA MildFaults ==
    Mild => /\ FileTrusted /\ "late" \notin faults /\ "crash" \notin faults
            /\ ~EngineLoads /\ ~EngineSaves /\ ~ProcessStartsCold
BY DEF Mild, FileTrusted, EngineLoads, EngineSaves, ProcessStartsCold

\* Without a position, nothing is held.
LEMMA NothingHeld ==
    ASSUME Mild, HoldNow, running, pos = NoPos, pc # "record", NEW e \in Etfs
    PROVE  ~Bought(e)
BY PositionParts, EtfsAssumption DEF HoldNow

\* The steps of an entry keep HoldInv.
LEMMA HoldEntry ==
    ASSUME Types, Phases, Mild, HoldNow,
           TickSkips \/ TickStaysFlat \/ (\E e \in Etfs : TickEnters(e))
             \/ BuyAnswered \/ BuyRaises \/ Record
    PROVE  HoldNow'
<1>1. CASE TickSkips \/ TickStaysFlat \/ (\E e \in Etfs : TickEnters(e))
  <2>1. /\ pc = "idle" /\ pc' \in {"idle", "order"} /\ running /\ running'
        /\ UNCHANGED <<pos, held>>
    BY <1>1 DEF TickSkips, TickStaysFlat, TickEnters, EndTick, Ticks, clockVars
  <2> QED BY <2>1 DEF HoldNow, Bought
<1>2. CASE BuyAnswered
  <2>1. /\ pc = "order" /\ pc' = "record" /\ running /\ running' /\ pos' = pos
        /\ want' = want /\ want \in Etfs /\ pos = NoPos
    BY <1>2 DEF BuyAnswered, Phases, tickVars, clockVars
  <2>2. held' = held \/ held' = [held EXCEPT ![want] = @ + Lot]
    BY <1>2 DEF BuyAnswered
  <2>3. \A e \in Etfs : ~Bought(e)
    BY <2>1, NothingHeld
  <2>4. ASSUME NEW e \in Etfs, Bought(e)' PROVE e = want
    BY <2>2, <2>3, <2>4 DEF Bought, Types
  <2> QED BY <2>1, <2>4 DEF HoldNow
<1>3. CASE BuyRaises
  <2>1. /\ pc = "order" /\ pc' = "idle" /\ running /\ running' /\ UNCHANGED <<pos, held>>
    BY <1>3, MildFaults DEF BuyRaises, EndTick, Phases, clockVars
  <2> QED BY <2>1 DEF HoldNow, Bought
<1>4. CASE Record
  <2>1. /\ pc = "record" /\ pc' \in {"idle", "saving"} /\ running /\ running' /\ held' = held
        /\ pos'.etf = want /\ pos = NoPos
    BY <1>4, Writing DEF Record, EndTick, Phases, clockVars
  <2> QED BY <2>1, PositionParts, EtfsAssumption DEF HoldNow, Bought
<1> QED BY <1>1, <1>2, <1>3, <1>4

\* The steps of an exit keep HoldInv: what is sold is all that is held.
LEMMA HoldExit ==
    ASSUME Types, Phases, Mild, HoldNow,
           TickHolds \/ QueryHolding \/ SellFills \/ SellFails \/ Sold \/ Dumps
    PROVE  HoldNow'
<1>1. CASE TickHolds
  <2>1. /\ pc = "idle" /\ pc' \in {"query", "sync"} /\ running /\ running'
        /\ UNCHANGED <<pos, held>>
    BY <1>1 DEF TickHolds, Ticks, clockVars
  <2> QED BY <2>1 DEF HoldNow, Bought
<1>2. CASE QueryHolding
  <2>1. /\ pc = "query" /\ pc' = "sell" /\ running /\ running' /\ UNCHANGED <<pos, held, snap>>
    BY <1>2 DEF QueryHolding, Phases, clockVars
  <2>2. held[snap.etf] \in Nat /\ snap.qty \in Nat
    BY <2>1, PositionParts, Times DEF Phases, Types
  <2>3. held[snap.etf] <= qty'
    BY <1>2, <2>2 DEF QueryHolding
  <2> QED BY <2>1, <2>3 DEF HoldNow, Bought
<1>3. CASE SellFills
  <2>1. /\ pc = "sell" /\ pc' = "sold" /\ running /\ running' /\ UNCHANGED <<pos, snap>>
        /\ snap.etf \in Etfs /\ held[snap.etf] \in Nat
    BY <1>3, PositionParts DEF SellFills, Phases, Types, clockVars, tickVars
  <2>2. held[snap.etf] = qty
    <3>1. qty <= held[snap.etf] /\ held[snap.etf] <= qty /\ qty \in Nat
      BY <1>3, <2>1 DEF SellFills, HoldNow, Types
    <3> QED BY <2>1, <3>1
  <2>3. held' = [held EXCEPT ![snap.etf] = 0]
    BY <1>3, <2>1, <2>2 DEF SellFills, Types
  <2>4. \A e \in Etfs : held[e] \in Nat /\ held'[e] \in Nat /\ held'[e] <= held[e]
    BY <2>1, <2>3 DEF Types
  <2>5. ASSUME NEW e \in Etfs, Bought(e)' PROVE Bought(e)
    BY <2>4, <2>5, Times DEF Bought
  <2>6. held'[snap.etf] = 0
    BY <2>1, <2>3 DEF Types
  <2> QED BY <2>1, <2>5, <2>6 DEF HoldNow
<1>4. CASE SellFails
  <2>1. /\ pc \in {"query", "sell"} /\ pc' = "sync" /\ running /\ running'
        /\ UNCHANGED <<pos, held>>
    BY <1>4, MildFaults DEF SellFails, Phases, clockVars
  <2> QED BY <2>1 DEF HoldNow, Bought
<1>5. CASE Sold
  <2>1. /\ pc = "sold" /\ pc' \in {"clearing", "sync"} /\ running /\ running' /\ held' = held
        /\ pos = snap
    BY <1>5 DEF Sold, Phases, clockVars
  <2>2. \A e \in Etfs : ~Bought(e)
    BY <2>1, Times DEF HoldNow, Bought
  <2> QED BY <2>1, <2>2 DEF HoldNow, Bought
<1>6. CASE Dumps
  <2>1. /\ pc \in {"saving", "clearing"} /\ pc' \in {"idle", "sync"} /\ running /\ running'
        /\ UNCHANGED <<pos, held>>
    BY <1>6 DEF Dumps, EndTick, Phases, clockVars
  <2> QED BY <2>1 DEF HoldNow, Bought
<1> QED BY <1>1, <1>2, <1>3, <1>4, <1>5, <1>6

\* The sync keeps HoldInv: it forgets a position of which less than a tenth is left.
LEMMA HoldSync ==
    ASSUME Types, Phases, Mild, HoldNow, SyncNotDue \/ SyncFails \/ Sync
    PROVE  HoldNow'
<1>1. /\ pc = "sync" /\ pc' \in {"idle", "saving"} /\ running /\ running' /\ held' = held
      /\ pos' = pos \/ (Gone /\ pos' = NoPos)
  BY Writing DEF SyncNotDue, SyncFails, Sync, EndTick, Phases, clockVars
<1>2. CASE pos' = pos
  BY <1>1, <1>2 DEF HoldNow, Bought
<1>3. CASE Gone
  <2>1. /\ snap \in Position /\ snap.etf \in Etfs /\ snap.qty = Lot
        /\ pos = NoPos \/ pos = snap
    BY <1>1, PositionParts DEF Phases
  <2>2. held[snap.etf] \in Nat /\ 10 * held[snap.etf] < Lot
    BY <1>3, <2>1 DEF Gone, Types
  <2>3. ~Bought(snap.etf)
    BY <2>2, Times DEF Bought
  <2>4. \A e \in Etfs : ~Bought(e)
    BY <1>1, <2>1, <2>3, NothingHeld DEF HoldNow
  <2> QED BY <1>1, <2>4 DEF HoldNow, Bought
<1> QED BY <1>1, <1>2, <1>3

\* A stop between ticks and a start keep HoldInv: the file knows what is held, and
\* what is held is restored.
LEMMA HoldStart ==
    ASSUME Types, Phases, FileInv, Mild, HoldNow, ProcessStops \/ ProcessStarts \/ ClearingFails
    PROVE  HoldNow'
<1>1. CASE ProcessStops
  <2>1. /\ running /\ ~running' /\ pc = "idle" /\ pc' = "idle" /\ UNCHANGED <<held, saved>>
    BY <1>1, MildFaults, Trusted DEF ProcessStops
  <2>2. saved = pos
    BY <2>1, MildFaults DEF FileInv
  <2> QED BY <2>1, <2>2 DEF HoldNow, Bought
<1>2. CASE ProcessStarts
  <2>1. ~running /\ running' /\ pc = "idle" /\ pc' = "idle" /\ held' = held
    BY <1>2 DEF ProcessStarts, Phases
  <2>2. saved # Torn
    BY <2>1, MildFaults DEF FileInv
  <2>3. ASSUME NEW e \in Etfs, Bought(e) PROVE Backed(saved)
    <3>1. saved.etf = e
      BY <2>1, <2>3 DEF HoldNow
    <3>2. saved # NoPos
      BY <3>1, PositionParts, EtfsAssumption
    <3>3. saved.qty = Lot
      BY <2>2, <3>2, PositionParts DEF Types
    <3> QED BY <2>3, <3>1, <3>2, <3>3 DEF Backed, Bought
  <2>4. ASSUME NEW e \in Etfs, Bought(e) PROVE pos' = saved
    BY <1>2, <2>2, <2>3, <2>4 DEF ProcessStarts, Restored, Stale, Read
  <2> QED BY <2>1, <2>4 DEF HoldNow, Bought
<1>3. ~ClearingFails
  BY MildFaults, Trusted
<1> QED BY <1>1, <1>2, <1>3

\* The engine's sales and the clock keep HoldInv.
LEMMA HoldRest ==
    ASSUME Types, Phases, Mild, HoldNow,
           (\E e \in Etfs : Liquidate(e)) \/ Tock \/ UNCHANGED vars
    PROVE  HoldNow'
<1>1. ASSUME NEW x \in Etfs, Liquidate(x) PROVE HoldNow'
  <2>1. running /\ running' /\ UNCHANGED <<pc, pos, want, snap, qty>>
    BY <1>1 DEF Liquidate, clockVars, tickVars
  <2>2. PICK k \in 0..held[x] - 1 : held' = [held EXCEPT ![x] = k]
    BY <1>1 DEF Liquidate
  <2>3. \A e \in Etfs : held[e] \in Nat /\ held'[e] \in Nat /\ held'[e] <= held[e]
    BY <2>2 DEF Types
  <2>4. ASSUME NEW e \in Etfs, Bought(e)' PROVE Bought(e)
    BY <2>3, <2>4, Times DEF Bought
  <2>5. pc = "sell" => held'[snap.etf] <= qty
    BY <2>3, PositionParts DEF HoldNow, Phases, Types
  <2>6. pc = "sold" => held'[snap.etf] = 0
    BY <2>3, PositionParts DEF HoldNow, Phases
  <2> QED BY <2>1, <2>4, <2>5, <2>6 DEF HoldNow
<1>2. CASE Tock
  <2>1. /\ pc = "idle" /\ pc' = "idle" /\ UNCHANGED <<running, held>>
        /\ pos' = Older(pos) /\ saved' = Older(saved)
    BY <1>2 DEF Tock
  <2>2. pos'.etf = pos.etf /\ saved'.etf = saved.etf
    BY <2>1, OlderParts, PositionParts DEF Types
  <2> QED BY <2>1, <2>2 DEF HoldNow, Bought
<1>3. CASE UNCHANGED vars
  BY <1>3 DEF vars, clockVars, tickVars, HoldNow, Bought
<1> QED BY <1>1, <1>2, <1>3

\* Nothing is bought while a position the monitor bought is still there, whatever the
\* order of ticks, restarts between them, the engine's sales (between any two steps of
\* an exit, too) and the broker's failures.
THEOREM RebuysNot == Spec => NoRebuy
<1> DEFINE Inv == Types /\ Phases /\ FileInv /\ HoldInv
<1>1. Init => Inv
  <2>1. Init => FileInv /\ HoldInv
    BY Times DEF Init, FileInv, HoldInv, HoldNow, Bought
  <2> QED BY <2>1, InitTypes
<1>2. Inv /\ [Next]_vars => Inv'
  <2> SUFFICES ASSUME Inv, [Next]_vars PROVE Inv'
    OBVIOUS
  <2>1. Types' /\ Phases' /\ FileInv'
    BY NextTypes, FileNext
  <2>2. ASSUME Mild' PROVE HoldNow'
    <3>1. Mild /\ HoldNow
      BY <2>2, SameFaults DEF Mild, HoldInv
    <3> QED BY <3>1, MildFaults, HoldEntry, HoldExit, HoldSync, HoldStart, HoldRest
       DEF Next, Tick
  <2> QED BY <2>1, <2>2 DEF HoldInv
<1>3. Inv /\ [Next]_vars
        => [faults \subseteq {"liquidate", "broker", "restart"} => ~Rebuys]_vars
  <2> SUFFICES ASSUME Inv, [Next]_vars, Mild PROVE ~Rebuys
    BY DEF Mild
  <2>1. ASSUME Buys PROVE \A e \in Etfs : ~Bought(e)
    <3>1. pc = "order"
      BY <2>1, BuySteps
    <3> QED BY <3>1, NothingHeld DEF Phases, HoldInv
  <2> QED BY <2>1 DEF Rebuys, Bought
<1> QED BY <1>1, <1>2, <1>3, PTL DEF Spec, NoRebuy

=============================================================================
