------------------------- MODULE DecisionEngineProofs -------------------------
(***************************************************************************)
(* Theorems about DecisionEngine for any tickers, signals and bounds.      *)
(* TypeCorrect, RecordsSound and EscalationsEnd hold under every fault:    *)
(* overlapping jobs, crashes, failed saves and a failing broker included.  *)
(* ExposureLimited needs jobs that do not overlap, saves that are not      *)
(* lost, and calls that have done nothing when they fail.                  *)
(***************************************************************************)
EXTENDS DecisionEngine, TLAPS

-----------------------------------------------------------------------------
(* The values of the helpers *)

\* The values a job starts from, and returns to, are of their types.
LEMMA Defaults ==
    /\ DefaultState \in StateDict
    /\ NoPlans \in [Tickers -> Plan] /\ NoPlan \in Plan
    /\ NoSignals \in [Tickers -> Signal]
    /\ Nothing \in Holdings /\ NoPending \in Pending
BY BoundsAssumption
   DEF DefaultState, StateDict, NoPending, Pending, NoPlans, NoPlan, Plan, NoSignals,
       Signal, Actions, Nothing, Holdings

\* What a job loads is a state dict.
LEMMA LoadedType == ASSUME TypeOK PROVE Loaded \in StateDict
BY Defaults DEF Loaded, TypeOK

\* Forgetting pairs leaves a state dict.
LEMMA ReconciledType ==
    ASSUME NEW s \in StateDict, NEW a PROVE Reconciled(s, a) \in StateDict
BY DEF Reconciled, StateDict

\* The ids of new legs are naturals.
LEMMA NewIdsType ==
    ASSUME TypeOK, NEW n \in 0..2 PROVE NewIds(n) \subseteq Nat /\ nextId + n \in Nat
BY DEF NewIds, TypeOK

\* The ids that are recorded are those of new legs.
LEMMA KnownIdsType == \A n : \A ids \in KnownIds(n) : ids \subseteq NewIds(n)
BY DEF KnownIds

\* Recording a pair leaves a state dict.
LEMMA StoredType ==
    ASSUME TypeOK, NEW s \in StateDict, NEW t \in Tickers, NEW n \in 0..2,
           NEW ids \in KnownIds(n)
    PROVE  Stored(s, t, ids) \in StateDict
<1>1. ids \subseteq Nat
  BY NewIdsType, KnownIdsType
<1> QED BY <1>1 DEF Stored, StateDict

\* Placing legs keeps the broker's types.
LEMMA PlaceLegsType ==
    ASSUME TypeOK, NEW t \in Tickers, NEW q \in Nat, NEW n \in 0..2, PlaceLegs(t, q, n)
    PROVE  legs' \subseteq Leg /\ nextId' \in Nat
BY NewIdsType DEF PlaceLegs, Leg, TypeOK

\* Every signal yields a plan of its type.
LEMMA PlanForType ==
    ASSUME NEW w \in [Tickers -> Signal], NEW a \in Holdings, NEW mkt, NEW priced,
           NEW t \in Tickers
    PROVE  PlanFor(w, a, mkt, priced, t) \in Plan
BY DEF PlanFor, Plan, NoPlan, Signal, Holdings, Exits

\* Cancelling only removes legs.
LEMMA CancelType ==
    ASSUME TypeOK, NEW s, NEW a, CancelOrphans(s, a) PROVE legs' \subseteq legs
BY DEF CancelOrphans

PCs == {"idle"} \cup CyclePCs \cup BgPCs

\* A cycle that returns leaves its job's variables well typed.
LEMMA LeaveType ==
    ASSUME TypeOK, NEW j \in Jobs, NEW where \in PCs, Leave(j, where)
    PROVE  /\ pc' \in [Jobs -> PCs] /\ st' \in [Jobs -> StateDict]
           /\ run' \in [Jobs -> 0..MaxRuns] /\ want' \in [Jobs -> [Tickers -> Signal]]
           /\ plans' \in [Jobs -> [Tickers -> Plan]]
BY Defaults, BoundsAssumption DEF Leave, TypeOK, PCs

\* So does a background check that returns.
LEMMA LeaveBgType ==
    ASSUME TypeOK, NEW where \in PCs, LeaveBg(where)
    PROVE  /\ pc' \in [Jobs -> PCs] /\ st' \in [Jobs -> StateDict]
           /\ run' \in [Jobs -> 0..MaxRuns] /\ want' \in [Jobs -> [Tickers -> Signal]]
           /\ plans' \in [Jobs -> [Tickers -> Plan]]
           /\ acct' \in Holdings /\ scan' \subseteq Tickers
           /\ changed' \in BOOLEAN /\ peek' \in 0..MaxRuns
<1>1. "bg" \in Jobs BY DEF Jobs
<1>2. Leave("bg", where) BY DEF LeaveBg
<1>3. /\ pc' \in [Jobs -> PCs] /\ st' \in [Jobs -> StateDict]
      /\ run' \in [Jobs -> 0..MaxRuns] /\ want' \in [Jobs -> [Tickers -> Signal]]
      /\ plans' \in [Jobs -> [Tickers -> Plan]]
  BY <1>1, <1>2, LeaveType
<1>4. /\ acct' \in Holdings /\ scan' \subseteq Tickers
      /\ changed' \in BOOLEAN /\ peek' \in 0..MaxRuns
  <2>1. acct' = Nothing /\ scan' = {} /\ changed' = FALSE /\ (peek' = 0 \/ peek' = peek)
    BY DEF LeaveBg
  <2>2. changed' \in BOOLEAN BY <2>1
  <2>3. acct' \in Holdings BY <2>1, Defaults
  <2>4. peek' \in 0..MaxRuns BY <2>1, BoundsAssumption DEF TypeOK
  <2> QED BY <2>1, <2>2, <2>3, <2>4
<1> QED BY <1>3, <1>4

\* A cycle returns to a place where a job can be.
LEMMA AfterCycleType == \A j \in Jobs : AfterCycle(j) \in PCs
BY DEF AfterCycle, PCs, BgPCs

-----------------------------------------------------------------------------
(* Type correctness, one lemma per group of actions *)

\* Loading the state, the run and its signals keeps the types.
LEMMA CycleLoadTypes ==
    \A j \in Jobs : TypeOK /\ (CycleLoad(j) \/ CycleSignals(j)) => TypeOK'
<1> SUFFICES ASSUME NEW j \in Jobs, TypeOK, CycleLoad(j) \/ CycleSignals(j) PROVE TypeOK'
  OBVIOUS
<1>1. /\ pc' \in [Jobs -> PCs] /\ st' \in [Jobs -> StateDict]
      /\ run' \in [Jobs -> 0..MaxRuns] /\ want' \in [Jobs -> [Tickers -> Signal]]
      /\ plans' \in [Jobs -> [Tickers -> Plan]]
  <2>1. CASE Leave(j, AfterCycle(j))
    BY <2>1, LeaveType, AfterCycleType
  <2>2. CASE ~Leave(j, AfterCycle(j))
    BY <2>2, LoadedType DEF CycleLoad, CycleSignals, TypeOK, PCs, CyclePCs
  <2> QED BY <2>1, <2>2
<1>2. UNCHANGED <<fileVars, brokerVars, envVars, bgVars, execs, signalled>>
  BY DEF CycleLoad, CycleSignals
<1> QED
  BY <1>1, <1>2 DEF TypeOK, PCs, fileVars, brokerVars, envVars, bgVars

\* Selecting, reconciling and planning keep the types.
LEMMA CycleSelectTypes == \A j \in Jobs : TypeOK /\ CycleSelect(j) => TypeOK'
<1> SUFFICES ASSUME NEW j \in Jobs, TypeOK, CycleSelect(j) PROVE TypeOK'
  OBVIOUS
<1>1. plans' \in [Jobs -> [Tickers -> Plan]]
  <2>1. PICK mkt, priced :
          plans' = [plans EXCEPT ![j] =
                      [t \in Tickers |-> PlanFor(want[j], held, mkt, priced, t)]]
    BY DEF CycleSelect
  <2>2. [t \in Tickers |-> PlanFor(want[j], held, mkt, priced, t)] \in [Tickers -> Plan]
    BY PlanForType DEF TypeOK
  <2> QED BY <2>1, <2>2 DEF TypeOK
<1>2. st' \in [Jobs -> StateDict]
  BY ReconciledType DEF CycleSelect, TypeOK
<1>3. legs' \subseteq Leg
  BY CancelType DEF CycleSelect, TypeOK
<1>4. execs' \in [Runs -> Nat]
  <2>1. execs' = [execs EXCEPT ![run[j]] = @ + 1] BY DEF CycleSelect
  <2>2. execs \in [Runs -> Nat] BY DEF TypeOK
  <2>3. \A r \in Runs : execs[r] + 1 \in Nat BY <2>2
  <2> DEFINE r0 == run[j]
  <2>4. \A r \in Runs : execs'[r] = IF r = r0 THEN execs[r] + 1 ELSE execs[r]
    BY <2>1, <2>2
  <2>5. DOMAIN execs' = Runs /\ execs' = [r \in DOMAIN execs' |-> execs'[r]]
    BY <2>1, <2>2
  <2> HIDE DEF r0
  <2> QED BY <2>2, <2>3, <2>4, <2>5
<1>5. pc' \in [Jobs -> PCs]
  BY DEF CycleSelect, TypeOK, PCs, CyclePCs
<1> QED
  BY <1>1, <1>2, <1>3, <1>4, <1>5
  DEF CycleSelect, TypeOK, PCs, fileVars, envVars, bgVars

\* Executing a plan keeps the types.
LEMMA ExecuteTypes ==
    \A j \in Jobs, t \in Tickers :
        TypeOK /\ (\/ ExecuteSell(j, t) \/ ExecuteMarketBuy(j, t)
                   \/ ExecuteLimitBuy(j, t) \/ ExecuteFails(j, t)) => TypeOK'
<1> SUFFICES ASSUME NEW j \in Jobs, NEW t \in Tickers, TypeOK,
                    \/ ExecuteSell(j, t) \/ ExecuteMarketBuy(j, t)
                    \/ ExecuteLimitBuy(j, t) \/ ExecuteFails(j, t)
             PROVE  TypeOK'
  OBVIOUS
<1> DEFINE p == plans[j][t]
<1>0. p \in Plan /\ p.qty \in Nat
  BY DEF TypeOK, Plan
<1>1. PICK kind : Executes(j, t, kind)
  BY DEF ExecuteSell, ExecuteMarketBuy, ExecuteLimitBuy, ExecuteFails
<1>2. plans' \in [Jobs -> [Tickers -> Plan]]
  BY <1>1, Defaults DEF Executes, TypeOK
<1>3. /\ held' \in Holdings /\ resting' \in Holdings /\ signalled' \in Holdings
      /\ legs' \subseteq Leg /\ nextId' \in Nat /\ st' \in [Jobs -> StateDict]
  <2>1. CASE ExecuteSell(j, t)
    BY <2>1, <1>0 DEF ExecuteSell, TypeOK, Holdings
  <2>2. CASE ExecuteMarketBuy(j, t)
    <3>0. PICK n \in 0..2 : /\ PlaceLegs(t, p.qty, n)
                            /\ \E ids \in KnownIds(n) :
                                  st' = [st EXCEPT ![j] = Stored(@, t, ids)]
      <4>1. PICK n \in IF p.bracket THEN LegCounts ELSE {0} :
                          /\ PlaceLegs(t, p.qty, n)
                          /\ \E ids \in KnownIds(n) :
                                st' = [st EXCEPT ![j] = Stored(@, t, ids)]
        BY <2>2 DEF ExecuteMarketBuy
      <4>2. n \in 0..2 BY LegCountsAssumption
      <4> QED BY <4>1, <4>2
    <3>1. PICK ids \in KnownIds(n) : st' = [st EXCEPT ![j] = Stored(st[j], t, ids)]
      BY <3>0
    <3>2. legs' \subseteq Leg /\ nextId' \in Nat
      BY <3>0, <1>0, PlaceLegsType
    <3>3. st' \in [Jobs -> StateDict]
      BY <3>1, StoredType DEF TypeOK
    <3>4. /\ signalled' = [signalled EXCEPT ![t] = @ + p.qty] /\ resting' = resting
          /\ held' = [held EXCEPT ![t] = @ + p.qty] \/ held' = held
      BY <2>2 DEF ExecuteMarketBuy
    <3>5. signalled' \in Holdings /\ held' \in Holdings /\ resting' \in Holdings
      BY <3>4, <1>0 DEF TypeOK, Holdings
    <3> QED BY <3>2, <3>3, <3>5
  <2>3. CASE ExecuteLimitBuy(j, t)
    <3>1. [qty |-> p.qty, old |-> FALSE] \in Pending
      BY <1>0 DEF Pending
    <3>2. [st EXCEPT ![j].pending[t] = [qty |-> p.qty, old |-> FALSE]] \in [Jobs -> StateDict]
      BY <3>1 DEF TypeOK, StateDict
    <3> QED BY <2>3, <3>2, <1>0 DEF ExecuteLimitBuy, TypeOK, Holdings
  <2>4. CASE ExecuteFails(j, t)
    <3>1. /\ UNCHANGED <<legs, nextId, st>>
          /\ held' = [held EXCEPT ![t] = @ + p.qty] \/ held' = held
          /\ resting' = [resting EXCEPT ![t] = @ + p.qty] \/ resting' = resting
          /\ signalled' = [signalled EXCEPT ![t] = @ + p.qty] \/ signalled' = signalled
      BY <2>4 DEF ExecuteFails
    <3>2. p.qty \in Nat /\ \A h \in Holdings : [h EXCEPT ![t] = @ + p.qty] \in Holdings
      BY <1>0 DEF Holdings
    <3>3. held' \in Holdings /\ resting' \in Holdings /\ signalled' \in Holdings
      BY <3>1, <3>2 DEF TypeOK
    <3> QED BY <3>1, <3>3 DEF TypeOK
  <2> QED BY <2>1, <2>2, <2>3, <2>4
<1> QED
  BY <1>1, <1>2, <1>3 DEF Executes, TypeOK, fileVars, envVars, bgVars

\* Giving up and saving keep the types.
LEMMA SaveTypes ==
    \A j \in Jobs : TypeOK /\ (\/ CycleGivesUp(j) \/ SaveBegin(j) \/ SaveEnd(j)
                               \/ SaveFails(j)) => TypeOK'
<1> SUFFICES ASSUME NEW j \in Jobs, TypeOK,
                    CycleGivesUp(j) \/ SaveBegin(j) \/ SaveEnd(j) \/ SaveFails(j)
             PROVE  TypeOK'
  OBVIOUS
<1>1. CASE SaveBegin(j)
  <2>1. st' \in [Jobs -> StateDict]
    BY <1>1 DEF SaveBegin, TypeOK, StateDict
  <2> QED BY <1>1, <2>1 DEF SaveBegin, TypeOK, CyclePCs, brokerVars, envVars, bgVars
<1>2. CASE ~SaveBegin(j)
  <2>1. Leave(j, AfterCycle(j))
    BY <1>2 DEF CycleGivesUp, SaveEnd, SaveFails
  <2>2. file' \in StateDict /\ torn' \in BOOLEAN
    BY <1>2 DEF CycleGivesUp, SaveEnd, SaveFails, TypeOK, fileVars
  <2>3. UNCHANGED <<brokerVars, envVars, bgVars, execs, signalled>>
    BY <1>2 DEF CycleGivesUp, SaveEnd, SaveFails
  <2> QED
    BY <2>1, <2>2, <2>3, LeaveType, AfterCycleType
    DEF TypeOK, PCs, brokerVars, envVars, bgVars
<1> QED BY <1>1, <1>2

\* Starting run_once keeps the types.
LEMMA MainStartTypes == TypeOK /\ MainStart => TypeOK'
BY DEF TypeOK, MainStart, MayStart, CyclePCs, Jobs, fileVars, brokerVars, envVars, bgVars

\* Starting background_check keeps the types.
LEMMA BgStartTypes ==
    TypeOK /\ (BgTrigger \/ BgLoad \/ BgAccount \/ BgSaveBegin) => TypeOK'
<1> USE DEF Jobs, BgPCs, CyclePCs, fileVars, brokerVars, envVars, bgVars
<1>1. TypeOK /\ BgTrigger => TypeOK'
  BY DEF TypeOK, BgTrigger
<1>2. ASSUME TypeOK, BgLoad PROVE TypeOK'
  <2>1. st' \in [Jobs -> StateDict]
    BY <1>2, LoadedType DEF BgLoad, TypeOK
  <2> QED BY <1>2, <2>1 DEF TypeOK, BgLoad
<1>3. TypeOK /\ BgAccount => TypeOK'
  BY DEF TypeOK, BgAccount
<1>4. TypeOK /\ BgSaveBegin => TypeOK'
  BY DEF TypeOK, BgSaveBegin
<1> QED BY <1>1, <1>2, <1>3, <1>4

\* The guard after a triggered cycle keeps the types.
LEMMA BgStampTypes == TypeOK /\ BgStamp => TypeOK'
<1> SUFFICES ASSUME TypeOK, BgStamp PROVE TypeOK'
  OBVIOUS
<1>1. CASE LeaveBg("idle")
  <2>1. "idle" \in PCs BY DEF PCs
  <2> QED
    BY <1>1, <2>1, LeaveBgType
    DEF BgStamp, TypeOK, PCs, fileVars, brokerVars, envVars
<1>2. CASE ~LeaveBg("idle")
  <2>1. [Loaded EXCEPT !.last_run = peek] \in StateDict
    BY LoadedType DEF StateDict, TypeOK
  <2>2. st' \in [Jobs -> StateDict] /\ pc' \in [Jobs -> PCs]
    BY <1>2, <2>1 DEF BgStamp, TypeOK, PCs, BgPCs
  <2> QED
    BY <1>2, <2>2 DEF BgStamp, TypeOK, PCs, fileVars, brokerVars, envVars, bgVars
<1> QED BY <1>1, <1>2

\* The account fetch and the save keep the types.
LEMMA BgLeaveTypes ==
    TypeOK /\ (BgAccountFails \/ BgSaveEnd \/ BgSaveFails) => TypeOK'
<1> SUFFICES ASSUME TypeOK, BgAccountFails \/ BgSaveEnd \/ BgSaveFails PROVE TypeOK'
  OBVIOUS
<1>1. LeaveBg("idle") /\ "idle" \in PCs
  BY DEF BgAccountFails, BgSaveEnd, BgSaveFails, PCs
<1>2. file' \in StateDict /\ torn' \in BOOLEAN
  BY DEF BgAccountFails, BgSaveEnd, BgSaveFails, TypeOK, fileVars, Jobs
<1>3. UNCHANGED <<brokerVars, envVars, execs, signalled>>
  BY DEF BgAccountFails, BgSaveEnd, BgSaveFails
<1> QED
  BY <1>1, <1>2, <1>3, LeaveBgType DEF TypeOK, PCs, brokerVars, envVars

\* Resolving a pending entry keeps the types.
LEMMA ResolveTypes ==
    ASSUME TypeOK, NEW t \in Tickers, NEW q \in Nat, NEW n \in LegCounts, Resolve(t, q, n)
    PROVE  /\ legs' \subseteq Leg /\ nextId' \in Nat
           /\ st' \in [Jobs -> StateDict] /\ changed' \in BOOLEAN
<1>1. n \in 0..2 BY LegCountsAssumption
<1>2. legs' \subseteq Leg /\ nextId' \in Nat
  BY <1>1, PlaceLegsType DEF Resolve
<1>3. PICK ids \in KnownIds(n) :
        st' = [st EXCEPT !["bg"] = [Stored(@, t, ids) EXCEPT !.pending[t] = NoPending]]
  BY DEF Resolve
<1>4. Stored(st["bg"], t, ids) \in StateDict
  BY <1>1, StoredType DEF TypeOK, Jobs
<1>5. st' \in [Jobs -> StateDict]
  <2>1. [Stored(st["bg"], t, ids) EXCEPT !.pending[t] = NoPending] \in StateDict
    BY <1>4, Defaults DEF StateDict
  <2> QED BY <1>3, <2>1 DEF TypeOK
<1> QED BY <1>2, <1>5 DEF Resolve

\* An iteration over the pending entries keeps the types.
LEMMA ScanTypes ==
    \A t \in Tickers :
        TypeOK /\ (\/ BgConfirmFill(t) \/ BgEscalate(t)
                   \/ BgEscalationFails(t) \/ BgKeepWaiting(t)) => TypeOK'
<1> SUFFICES ASSUME NEW t \in Tickers, TypeOK,
                    \/ BgConfirmFill(t) \/ BgEscalate(t)
                    \/ BgEscalationFails(t) \/ BgKeepWaiting(t)
             PROVE  TypeOK'
  OBVIOUS
<1>1. Scans(t)
  BY DEF BgConfirmFill, BgEscalate, BgEscalationFails, BgKeepWaiting
<1>2. /\ held' \in Holdings /\ legs' \subseteq Leg /\ nextId' \in Nat
      /\ st' \in [Jobs -> StateDict] /\ changed' \in BOOLEAN
  <2>1. CASE BgConfirmFill(t)
    BY <2>1, ResolveTypes DEF BgConfirmFill, TypeOK, Holdings
  <2>2. CASE BgEscalate(t)
    <3>1. st["bg"].pending[t].qty \in Nat
      BY DEF TypeOK, StateDict, Pending, Jobs
    <3>2. held' \in Holdings
      BY <2>2, <3>1 DEF BgEscalate, TypeOK, Holdings
    <3> QED BY <2>2, <3>1, <3>2, ResolveTypes DEF BgEscalate
  <2>3. CASE BgKeepWaiting(t)
    BY <2>3 DEF BgKeepWaiting, TypeOK
  <2>4. CASE BgEscalationFails(t)
    <3>1. st["bg"].pending[t].qty \in Nat
      BY DEF TypeOK, StateDict, Pending, Jobs
    <3> QED BY <2>4, <3>1 DEF BgEscalationFails, TypeOK, Holdings
  <2> QED BY <2>1, <2>2, <2>3, <2>4
<1> QED
  BY <1>1, <1>2 DEF Scans, TypeOK, fileVars, envVars

\* Cancelling orphans after the loop keeps the types.
LEMMA ReconcileTypes == TypeOK /\ BgReconcile => TypeOK'
<1> SUFFICES ASSUME TypeOK, BgReconcile PROVE TypeOK'
  OBVIOUS
<1>1. PICK a : /\ CancelOrphans(st["bg"], a)
               /\ \/ /\ st' = [st EXCEPT !["bg"] = Reconciled(@, a)]
                     /\ pc' = [pc EXCEPT !["bg"] = "bgSave"]
                     /\ UNCHANGED <<run, want, plans, bgVars>>
                  \/ LeaveBg("idle")
  BY DEF BgReconcile
<1>2. legs' \subseteq Leg
  BY <1>1, CancelType DEF TypeOK
<1>3. CASE LeaveBg("idle")
  <2>1. "idle" \in PCs BY DEF PCs
  <2> QED
    BY <1>2, <1>3, <2>1, LeaveBgType DEF BgReconcile, TypeOK, PCs, fileVars, envVars
<1>4. CASE ~LeaveBg("idle")
  <2>1. st' \in [Jobs -> StateDict] /\ pc' \in [Jobs -> PCs]
    BY <1>1, <1>4, ReconciledType DEF TypeOK, PCs, BgPCs, Jobs
  <2> QED
    BY <1>1, <1>2, <1>4, <2>1 DEF BgReconcile, TypeOK, PCs, fileVars, envVars, bgVars
<1> QED BY <1>3, <1>4

\* Ageing a pending entry leaves a state dict.
LEMMA AgedType ==
    ASSUME NEW s \in StateDict, NEW t \in Tickers PROVE Aged(s, t) \in StateDict
BY DEF Aged, StateDict, Pending

\* The environment keeps the types.
LEMMA EnvTypes == TypeOK /\ EnvStep => TypeOK'
<1> SUFFICES ASSUME TypeOK, EnvStep PROVE TypeOK'
  OBVIOUS
<1> USE DEF fileVars, brokerVars, envVars, bgVars
<1>1. CASE Publish
  BY <1>1, SignalsAssumption, BoundsAssumption DEF Publish, TypeOK
<1>2. CASE Crash
  <2>1. /\ acct' \in Holdings /\ peek' \in 0..MaxRuns
        /\ scan' \subseteq Tickers /\ changed' \in BOOLEAN
    <3>1. acct' = Nothing /\ peek' = 0 /\ scan' = {} /\ changed' = FALSE
      BY <1>2 DEF Crash
    <3>2. changed' \in BOOLEAN BY <3>1
    <3>3. acct' \in Holdings BY <3>1, Defaults
    <3> QED BY <3>1, <3>2, <3>3, BoundsAssumption
  <2>2. /\ pc' \in [Jobs -> {"idle"} \cup CyclePCs \cup BgPCs]
        /\ st' \in [Jobs -> StateDict] /\ run' \in [Jobs -> 0..MaxRuns]
        /\ want' \in [Jobs -> [Tickers -> Signal]]
        /\ plans' \in [Jobs -> [Tickers -> Plan]]
    BY <1>2, Defaults, BoundsAssumption DEF Crash
  <2> QED BY <1>2, <2>1, <2>2 DEF Crash, TypeOK
<1>3. ASSUME NEW t \in Tickers, HourPasses(t) PROVE TypeOK'
  <2>1. file' \in StateDict /\ st' \in [Jobs -> StateDict]
    BY <1>3, AgedType DEF HourPasses, TypeOK
  <2> QED BY <1>3, <2>1 DEF HourPasses, TypeOK
<1>4. ASSUME NEW t \in Tickers, LimitFills(t) PROVE TypeOK'
  BY <1>4 DEF LimitFills, TypeOK, Holdings
<1>5. ASSUME NEW l \in legs, LegFires(l) PROVE TypeOK'
  <2>1. l.ticker \in Tickers /\ l.qty \in Nat
    BY DEF TypeOK, Leg
  <2>2. held' \in Holdings /\ legs' \subseteq Leg
    BY <1>5, <2>1 DEF LegFires, TypeOK, Holdings
  <2> QED BY <1>5, <2>2 DEF LegFires, TypeOK
<1> QED BY <1>1, <1>2, <1>3, <1>4, <1>5 DEF EnvStep

\* The types hold initially.
LEMMA InitTypes == Init => TypeOK
<1> SUFFICES ASSUME Init PROVE TypeOK
  OBVIOUS
<1>1. torn \in BOOLEAN /\ changed \in BOOLEAN
  BY DEF Init
<1>2. /\ pc \in [Jobs -> {"idle"} \cup CyclePCs \cup BgPCs]
      /\ st \in [Jobs -> StateDict] /\ run \in [Jobs -> 0..MaxRuns]
      /\ want \in [Jobs -> [Tickers -> Signal]]
      /\ plans \in [Jobs -> [Tickers -> Plan]]
  BY Defaults, BoundsAssumption DEF Init
<1>3. /\ file \in StateDict /\ held \in Holdings /\ resting \in Holdings
      /\ acct \in Holdings /\ signalled \in Holdings /\ sigs \in [Tickers -> Signal]
  BY Defaults DEF Init
<1>4. /\ legs \subseteq Leg /\ nextId \in Nat /\ scan \subseteq Tickers
      /\ latest \in 0..MaxRuns /\ peek \in 0..MaxRuns /\ execs \in [Runs -> Nat]
  BY BoundsAssumption DEF Init
<1>5. faults \in FaultSets
  BY DEF Init
<1> QED BY <1>1, <1>2, <1>3, <1>4, <1>5 DEF TypeOK

\* Every step keeps the types.
LEMMA NextTypes == TypeOK /\ [Next]_vars => TypeOK'
<1> SUFFICES ASSUME TypeOK, [Next]_vars PROVE TypeOK'
  OBVIOUS
<1>1. ASSUME NEW j \in Jobs, CycleStep(j) PROVE TypeOK'
  BY <1>1, CycleLoadTypes, CycleSelectTypes, ExecuteTypes, SaveTypes DEF CycleStep
<1>2. CASE BgStep
  BY <1>2, BgStartTypes, BgStampTypes, BgLeaveTypes, ScanTypes, ReconcileTypes DEF BgStep
<1>3. CASE UNCHANGED vars
  BY <1>3 DEF TypeOK, vars
<1> QED BY <1>1, <1>2, <1>3, MainStartTypes, EnvTypes DEF Next

\* Every variable keeps its type: the state dict, the broker's books and the
\* jobs' copies are well formed whatever the scheduler and the faults do.
THEOREM TypeCorrect == Spec => []TypeOK
BY InitTypes, NextTypes, PTL DEF Spec

-----------------------------------------------------------------------------
(* NoForeignCancel.  A step either only removes legs and copies or forgets    *)
(* records, or places legs under ids that are not on record anywhere.         *)

\* The records of dict d are among those of one of the current dicts.
Derived(d) ==
    \E s \in {DefaultState, file, st["main"], st["bg"]} :
        \A t \in Tickers : d.pairs[t] \subseteq s.pairs[t]

\* A step that removes legs, and whose dicts have no pairs but those of old dicts,
\* keeps the records sound.
LEMMA ForgettingKeepsRecords ==
    ASSUME TypeOK, NoForeignCancel, legs' \subseteq legs, nextId' = nextId,
           Derived(file'), \A j \in Jobs : Derived(st'[j])
    PROVE  NoForeignCancel'
<1>1. ASSUME NEW s \in {DefaultState, file, st["main"], st["bg"]}
      PROVE  RecordsOwnLegs(s, legs', nextId')
  <2>1. RecordsOwnLegs(DefaultState, legs, nextId)
    BY DEF RecordsOwnLegs, DefaultState
  <2>2. RecordsOwnLegs(s, legs, nextId)
    BY <2>1 DEF NoForeignCancel, Jobs
  <2> QED BY <2>2 DEF RecordsOwnLegs
<1>2. ASSUME NEW d, Derived(d) PROVE RecordsOwnLegs(d, legs', nextId')
  <2>1. PICK s \in {DefaultState, file, st["main"], st["bg"]} :
           \A t \in Tickers : d.pairs[t] \subseteq s.pairs[t]
    BY <1>2 DEF Derived
  <2>2. RecordsOwnLegs(s, legs', nextId')
    BY <1>1
  <2> QED BY <2>1, <2>2 DEF RecordsOwnLegs
<1>3. RecordsOwnLegs(file', legs', nextId')
  BY <1>2
<1>4. \A j \in Jobs : RecordsOwnLegs(st'[j], legs', nextId')
  BY <1>2
<1>5. \A l \in legs' : l.id < nextId' /\ \A k \in legs' : k.id = l.id => k = l
  BY DEF NoForeignCancel
<1> QED BY <1>3, <1>4, <1>5 DEF NoForeignCancel

\* A step that places legs under fresh ids, records them for their ticker in one
\* dict and leaves the other dicts alone keeps the records sound.
LEMMA PlacingKeepsRecords ==
    ASSUME TypeOK, NoForeignCancel, NEW t \in Tickers, NEW q \in Nat, NEW n \in 0..2,
           PlaceLegs(t, q, n), NEW j \in Jobs, NEW ids \in KnownIds(n),
           file' = file, \A k \in Jobs \ {j} : st'[k] = st[k],
           st'[j].pairs = Stored(st[j], t, ids).pairs
    PROVE  NoForeignCancel'
<1>1. /\ nextId \in Nat /\ nextId' = nextId + n
      /\ \A i \in NewIds(n) : i \in Int /\ nextId <= i /\ i < nextId'
  BY DEF PlaceLegs, NewIds, TypeOK
<1>2. \A l \in legs : l.id \in Nat /\ l.id < nextId
  BY DEF NoForeignCancel, TypeOK, Leg
<1>3. \A l \in legs' : l \in legs \/ (l.id \in NewIds(n) /\ l.ticker = t /\ l.qty = q)
  BY DEF PlaceLegs
<1>4. \A l \in legs' : l.id < nextId' /\ \A k \in legs' : k.id = l.id => k = l
  <2>1. ASSUME NEW l \in legs' PROVE l.id < nextId'
    BY <1>1, <1>2, <1>3
  <2>2. ASSUME NEW l \in legs', NEW k \in legs', k.id = l.id PROVE k = l
    <3>1. CASE l \in legs /\ k \in legs
      BY <3>1, <2>2 DEF NoForeignCancel
    <3>2. CASE ~(l \in legs /\ k \in legs)
      <4>1. l \notin legs /\ k \notin legs
        BY <1>1, <1>2, <1>3, <2>2, <3>2
      <4>2. /\ l \in {[id |-> i, ticker |-> t, qty |-> q] : i \in NewIds(n)}
            /\ k \in {[id |-> i, ticker |-> t, qty |-> q] : i \in NewIds(n)}
        BY <4>1 DEF PlaceLegs
      <4> QED BY <4>2, <2>2
    <3> QED BY <3>1, <3>2
  <2> QED BY <2>1, <2>2
<1>5. ASSUME NEW s \in StateDict, RecordsOwnLegs(s, legs, nextId)
      PROVE  RecordsOwnLegs(s, legs', nextId')
  <2> SUFFICES ASSUME NEW u \in Tickers, NEW i \in s.pairs[u]
               PROVE  i < nextId' /\ \A l \in legs' : l.id = i => l.ticker = u
    BY DEF RecordsOwnLegs
  <2>1. i \in Nat /\ i < nextId /\ \A l \in legs : l.id = i => l.ticker = u
    BY <1>5 DEF RecordsOwnLegs, StateDict
  <2> QED BY <2>1, <1>1, <1>3
<1>6. RecordsOwnLegs(file', legs', nextId')
  BY <1>5 DEF NoForeignCancel, TypeOK
<1>7. \A k \in Jobs \ {j} : RecordsOwnLegs(st'[k], legs', nextId')
  BY <1>5 DEF NoForeignCancel, TypeOK
<1>8. RecordsOwnLegs(st'[j], legs', nextId')
  <2>1. RecordsOwnLegs(st[j], legs', nextId') /\ st[j] \in StateDict
    BY <1>5 DEF NoForeignCancel, TypeOK
  <2> SUFFICES ASSUME NEW u \in Tickers, NEW i \in st'[j].pairs[u]
               PROVE  i < nextId' /\ \A l \in legs' : l.id = i => l.ticker = u
    BY DEF RecordsOwnLegs
  <2>2. CASE i \in st[j].pairs[u]
    BY <2>1, <2>2 DEF RecordsOwnLegs
  <2>3. CASE i \notin st[j].pairs[u]
    <3>1. u = t /\ i \in NewIds(n)
      BY <2>1, <2>3, KnownIdsType DEF Stored, StateDict
    <3> QED BY <3>1, <1>1, <1>2, <1>3
  <2> QED BY <2>2, <2>3
<1> QED BY <1>4, <1>6, <1>7, <1>8 DEF NoForeignCancel

\* The dicts at hand, and the default, have only pairs of old dicts.
LEMMA DerivedDicts ==
    ASSUME TypeOK
    PROVE  /\ Derived(DefaultState) /\ Derived(file) /\ Derived(Loaded)
           /\ \A j \in Jobs : Derived(st[j])
BY DEF Derived, Loaded, Jobs

\* A dict whose pairs are among those of such a dict is such a dict.
LEMMA SamePairsDerived ==
    ASSUME TypeOK, NEW d, NEW e, Derived(d),
           \A t \in Tickers : e.pairs[t] \subseteq d.pairs[t]
    PROVE  Derived(e)
BY DEF Derived

\* Returning from a handler leaves such dicts.
LEMMA LeaveDerived ==
    ASSUME TypeOK, NEW j \in Jobs, NEW where, Leave(j, where)
    PROVE  \A k \in Jobs : Derived(st'[k])
<1>1. st' = [st EXCEPT ![j] = DefaultState] BY DEF Leave
<1>2. \A k \in Jobs : st'[k] = DefaultState \/ st'[k] = st[k] BY <1>1 DEF TypeOK
<1> QED BY <1>2, DerivedDicts

\* One job's dict is replaced by one whose records derive from the current ones.
LEMMA OneDictDerived ==
    ASSUME TypeOK, NEW j \in Jobs, NEW d, Derived(d), st' = [st EXCEPT ![j] = d]
    PROVE  \A k \in Jobs : Derived(st'[k])
<1>1. \A k \in Jobs : st'[k] = d \/ st'[k] = st[k] BY DEF TypeOK
<1> QED BY <1>1, DerivedDicts

\* Forgetting pairs leaves such a dict.
LEMMA ReconciledDerived ==
    ASSUME TypeOK, NEW j \in Jobs, NEW a PROVE Derived(Reconciled(st[j], a))
<1>1. \A t \in Tickers : Reconciled(st[j], a).pairs[t] \subseteq st[j].pairs[t]
  BY DEF Reconciled, TypeOK, StateDict
<1> QED BY <1>1, DerivedDicts, SamePairsDerived

\* The steps of a cycle that place no legs keep the records sound.
LEMMA CycleKeepsRecords ==
    \A j \in Jobs :
        TypeOK /\ NoForeignCancel /\ (\/ CycleLoad(j) \/ CycleSignals(j)
                                      \/ CycleGivesUp(j) \/ CycleSelect(j)
                                      \/ SaveBegin(j) \/ SaveEnd(j) \/ SaveFails(j))
        => NoForeignCancel'
<1> SUFFICES ASSUME NEW j \in Jobs, TypeOK, NoForeignCancel,
                    \/ CycleLoad(j) \/ CycleSignals(j) \/ CycleGivesUp(j) \/ CycleSelect(j)
                    \/ SaveBegin(j) \/ SaveEnd(j) \/ SaveFails(j)
             PROVE  NoForeignCancel'
  OBVIOUS
<1>1. legs' \subseteq legs /\ nextId' = nextId
  BY CancelType DEF CycleLoad, CycleSignals, CycleGivesUp, CycleSelect, SaveBegin, SaveEnd,
                    SaveFails, brokerVars
<1>2. Derived(file')
  <2>1. file' = file \/ file' = st[j]
    BY DEF CycleLoad, CycleSignals, CycleGivesUp, CycleSelect, SaveBegin, SaveEnd, SaveFails,
           fileVars
  <2> QED BY <2>1, DerivedDicts
<1>3. \A k \in Jobs : Derived(st'[k])
  <2>1. CASE \E where : Leave(j, where)
    BY <2>1, LeaveDerived
  <2>2. CASE CycleLoad(j) /\ ~\E where : Leave(j, where)
    <3>1. st' = [st EXCEPT ![j] = Loaded]
      BY <2>2 DEF CycleLoad
    <3>2. Derived(Loaded)
      BY DerivedDicts
    <3> HIDE DEF Loaded
    <3> QED BY <3>1, <3>2, OneDictDerived
  <2>3. CASE CycleSelect(j)
    BY <2>3, ReconciledDerived, OneDictDerived DEF CycleSelect
  <2>4. CASE SaveBegin(j)
    <3>1. PICK d : d = [st[j] EXCEPT !.last_run = run[j]]
      OBVIOUS
    <3>2. st' = [st EXCEPT ![j] = d]
      BY <2>4, <3>1 DEF SaveBegin, TypeOK
    <3>3. \A t \in Tickers : d.pairs[t] \subseteq st[j].pairs[t]
      BY <3>1 DEF TypeOK, StateDict
    <3>4. Derived(d)
      BY <3>3, DerivedDicts, SamePairsDerived
    <3> QED BY <3>2, <3>4, OneDictDerived
  <2>5. CASE st' = st
    BY <2>5, DerivedDicts
  <2> QED
    BY <2>1, <2>2, <2>3, <2>4, <2>5 DEF CycleSignals, CycleGivesUp, SaveEnd, SaveFails
<1> QED BY <1>1, <1>2, <1>3, ForgettingKeepsRecords

\* Executing a plan keeps the records sound.
LEMMA ExecuteKeepsRecords ==
    \A j \in Jobs, t \in Tickers :
        TypeOK /\ NoForeignCancel /\ (\/ ExecuteSell(j, t) \/ ExecuteMarketBuy(j, t)
                                      \/ ExecuteLimitBuy(j, t) \/ ExecuteFails(j, t))
        => NoForeignCancel'
<1> SUFFICES ASSUME NEW j \in Jobs, NEW t \in Tickers, TypeOK, NoForeignCancel,
                    \/ ExecuteSell(j, t) \/ ExecuteMarketBuy(j, t)
                    \/ ExecuteLimitBuy(j, t) \/ ExecuteFails(j, t)
             PROVE  NoForeignCancel'
  OBVIOUS
<1> DEFINE p == plans[j][t]
<1>0. p.qty \in Nat
  BY DEF TypeOK, Plan
<1>1. file' = file
  BY DEF ExecuteSell, ExecuteMarketBuy, ExecuteLimitBuy, ExecuteFails, Executes, fileVars
<1>2. CASE ExecuteMarketBuy(j, t)
  <2>0. PICK n \in IF p.bracket THEN LegCounts ELSE {0} :
                      /\ PlaceLegs(t, p.qty, n)
                      /\ \E ids \in KnownIds(n) : st' = [st EXCEPT ![j] = Stored(@, t, ids)]
    BY <1>2 DEF ExecuteMarketBuy
  <2>1. PICK ids \in KnownIds(n) : st' = [st EXCEPT ![j] = Stored(@, t, ids)]
    BY <2>0
  <2>2. n \in 0..2
    BY LegCountsAssumption
  <2>3. st'[j] = Stored(st[j], t, ids) /\ \A k \in Jobs \ {j} : st'[k] = st[k]
    BY <2>1 DEF TypeOK
  <2> QED BY <1>0, <1>1, <2>0, <2>2, <2>3, PlacingKeepsRecords
<1>3. CASE ExecuteLimitBuy(j, t)
  <2>0. PICK d : d = [st[j] EXCEPT !.pending[t] = [qty |-> p.qty, old |-> FALSE]]
    OBVIOUS
  <2>1. st' = [st EXCEPT ![j] = d] \/ st' = st
    BY <1>3, <2>0 DEF ExecuteLimitBuy, TypeOK
  <2>2. \A u \in Tickers : d.pairs[u] \subseteq st[j].pairs[u]
    BY <2>0 DEF TypeOK, StateDict
  <2>3. Derived(d)
    BY <2>2, DerivedDicts, SamePairsDerived
  <2>4. \A k \in Jobs : Derived(st'[k])
    BY <2>1, <2>3, DerivedDicts, OneDictDerived
  <2> QED
    BY <1>1, <1>3, <2>4, DerivedDicts, ForgettingKeepsRecords DEF ExecuteLimitBuy
<1>4. CASE ExecuteSell(j, t) \/ ExecuteFails(j, t)
  <2>1. legs' = legs /\ nextId' = nextId /\ st' = st
    BY <1>4 DEF ExecuteSell, ExecuteFails, brokerVars
  <2> QED BY <1>1, <2>1, DerivedDicts, ForgettingKeepsRecords
<1> QED BY <1>2, <1>3, <1>4

\* The steps of a background check that place no legs keep the records sound.
LEMMA BgKeepsRecords ==
    TypeOK /\ NoForeignCancel /\ (\/ MainStart \/ BgTrigger \/ BgLoad \/ BgStamp \/ BgAccount
                                  \/ BgAccountFails \/ BgSaveBegin \/ BgSaveEnd
                                  \/ BgSaveFails \/ BgReconcile) => NoForeignCancel'
<1> SUFFICES ASSUME TypeOK, NoForeignCancel,
                    \/ MainStart \/ BgTrigger \/ BgLoad \/ BgStamp \/ BgAccount
                    \/ BgAccountFails \/ BgSaveBegin \/ BgSaveEnd
                    \/ BgSaveFails \/ BgReconcile
             PROVE  NoForeignCancel'
  OBVIOUS
<1>0. "bg" \in Jobs
  BY DEF Jobs
<1>1. legs' \subseteq legs /\ nextId' = nextId
  BY CancelType
  DEF MainStart, BgTrigger, BgLoad, BgStamp, BgAccount, BgAccountFails, BgSaveBegin,
      BgSaveEnd, BgSaveFails, BgReconcile, brokerVars
<1>2. Derived(file')
  <2>1. file' = file \/ file' = st["bg"]
    BY DEF MainStart, BgTrigger, BgLoad, BgStamp, BgAccount, BgAccountFails, BgSaveBegin,
           BgSaveEnd, BgSaveFails, BgReconcile, fileVars
  <2> QED BY <1>0, <2>1, DerivedDicts
<1>3. \A k \in Jobs : Derived(st'[k])
  <2>1. CASE LeaveBg("idle")
    <3>1. Leave("bg", "idle") BY <2>1 DEF LeaveBg
    <3> QED BY <1>0, <3>1, LeaveDerived
  <2>2. CASE st' = st
    BY <2>2, DerivedDicts
  <2>3. CASE BgLoad
    <3>1. st' = [st EXCEPT !["bg"] = Loaded] BY <2>3 DEF BgLoad
    <3> HIDE DEF Loaded
    <3> QED BY <1>0, <3>1, DerivedDicts, OneDictDerived
  <2>4. CASE BgStamp /\ ~LeaveBg("idle")
    <3>1. PICK d : d = [Loaded EXCEPT !.last_run = peek]
      OBVIOUS
    <3>2. st' = [st EXCEPT !["bg"] = d]
      BY <2>4, <3>1 DEF BgStamp
    <3>3. \A t \in Tickers : d.pairs[t] \subseteq Loaded.pairs[t]
      BY <3>1, LoadedType DEF StateDict
    <3>4. Derived(d)
      BY <3>3, DerivedDicts, SamePairsDerived
    <3> QED BY <1>0, <3>2, <3>4, OneDictDerived
  <2>5. CASE BgReconcile /\ ~LeaveBg("idle")
    <3>1. PICK a : st' = [st EXCEPT !["bg"] = Reconciled(st["bg"], a)]
      BY <2>5 DEF BgReconcile
    <3>2. Derived(Reconciled(st["bg"], a))
      BY <1>0, ReconciledDerived
    <3> QED BY <1>0, <3>1, <3>2, OneDictDerived
  <2> QED
    BY <2>1, <2>2, <2>3, <2>4, <2>5
    DEF MainStart, BgTrigger, BgAccount, BgAccountFails, BgSaveBegin, BgSaveEnd, BgSaveFails
<1> QED BY <1>1, <1>2, <1>3, ForgettingKeepsRecords

\* An iteration over the pending entries keeps the records sound.
LEMMA ScanKeepsRecords ==
    \A t \in Tickers :
        TypeOK /\ NoForeignCancel /\ (\/ BgConfirmFill(t) \/ BgEscalate(t)
                                      \/ BgEscalationFails(t) \/ BgKeepWaiting(t))
        => NoForeignCancel'
<1> SUFFICES ASSUME NEW t \in Tickers, TypeOK, NoForeignCancel,
                    \/ BgConfirmFill(t) \/ BgEscalate(t)
                    \/ BgEscalationFails(t) \/ BgKeepWaiting(t)
             PROVE  NoForeignCancel'
  OBVIOUS
<1>0. "bg" \in Jobs
  BY DEF Jobs
<1>1. file' = file
  BY DEF BgConfirmFill, BgEscalate, BgEscalationFails, BgKeepWaiting, Scans, fileVars
<1>2. CASE BgKeepWaiting(t) \/ BgEscalationFails(t)
  <2>1. legs' = legs /\ nextId' = nextId /\ st' = st
    BY <1>2 DEF BgKeepWaiting, BgEscalationFails
  <2> QED BY <1>1, <2>1, DerivedDicts, ForgettingKeepsRecords
<1>3. ASSUME NEW q \in Nat, NEW n \in LegCounts, Resolve(t, q, n) PROVE NoForeignCancel'
  <2>1. n \in 0..2
    BY LegCountsAssumption
  <2>0. PICK ids \in KnownIds(n) :
          /\ PlaceLegs(t, q, n)
          /\ st' = [st EXCEPT !["bg"] = [Stored(@, t, ids) EXCEPT !.pending[t] = NoPending]]
    BY <1>3 DEF Resolve
  <2>2. PICK d : d = Stored(st["bg"], t, ids)
    OBVIOUS
  <2>3. d \in StateDict
    BY <1>0, <2>1, <2>2, StoredType DEF TypeOK
  <2>4. PlaceLegs(t, q, n) /\ st' = [st EXCEPT !["bg"] = [d EXCEPT !.pending[t] = NoPending]]
    BY <2>0, <2>2
  <2>5. st'["bg"].pairs = d.pairs /\ \A k \in Jobs \ {"bg"} : st'[k] = st[k]
    BY <1>0, <2>3, <2>4 DEF TypeOK, StateDict
  <2> QED BY <1>0, <1>1, <2>1, <2>2, <2>4, <2>5, PlacingKeepsRecords
<1>4. CASE BgConfirmFill(t)
  <2>1. acct[t] \in Nat BY DEF TypeOK, Holdings
  <2> QED BY <1>3, <1>4, <2>1 DEF BgConfirmFill
<1>5. CASE BgEscalate(t)
  <2>1. st["bg"].pending[t].qty \in Nat
    BY <1>0 DEF TypeOK, StateDict, Pending
  <2> QED BY <1>3, <1>5, <2>1 DEF BgEscalate
<1> QED BY <1>2, <1>4, <1>5

\* The environment, which only removes legs and ages entries, keeps them sound.
LEMMA EnvKeepsRecords == TypeOK /\ NoForeignCancel /\ EnvStep => NoForeignCancel'
<1> SUFFICES ASSUME TypeOK, NoForeignCancel, EnvStep PROVE NoForeignCancel'
  OBVIOUS
<1> USE DEF fileVars, brokerVars
<1>1. legs' \subseteq legs /\ nextId' = nextId
  BY DEF EnvStep, Publish, Crash, HourPasses, LimitFills, LegFires
<1>2. CASE file' = file /\ st' = st
  BY <1>1, <1>2, DerivedDicts, ForgettingKeepsRecords
<1>3. CASE Crash
  <2>1. file' = file /\ \A k \in Jobs : st'[k] = DefaultState
    BY <1>3 DEF Crash
  <2> QED BY <1>1, <2>1, DerivedDicts, ForgettingKeepsRecords
<1>4. ASSUME NEW t \in Tickers, HourPasses(t) PROVE NoForeignCancel'
  <2>1. \A s \in StateDict : Aged(s, t).pairs = s.pairs
    BY DEF Aged, StateDict
  <2>2. Derived(file')
    <3>1. \A u \in Tickers : file'.pairs[u] \subseteq file.pairs[u]
      BY <1>4, <2>1 DEF HourPasses, TypeOK
    <3> QED BY <3>1, DerivedDicts, SamePairsDerived
  <2>3. ASSUME NEW k \in Jobs PROVE Derived(st'[k])
    <3>1. \A u \in Tickers : st'[k].pairs[u] \subseteq st[k].pairs[u]
      BY <1>4, <2>1 DEF HourPasses, TypeOK
    <3> QED BY <3>1, DerivedDicts, SamePairsDerived
  <2> QED BY <1>1, <2>2, <2>3, ForgettingKeepsRecords
<1> QED
  BY <1>2, <1>3, <1>4 DEF EnvStep, Publish, LimitFills, LegFires

\* Cancelling by a recorded id never hits a leg of another ticker, however the
\* jobs interleave and whatever stale dict they save: overlap, crashes and lost
\* saves can make the engine forget legs, never confuse them.
THEOREM RecordsSound == Spec => []NoForeignCancel
<1>1. Init => NoForeignCancel
  BY DEF Init, NoForeignCancel, RecordsOwnLegs, DefaultState
<1>2. TypeOK /\ NoForeignCancel /\ [Next]_vars => NoForeignCancel'
  <2> SUFFICES ASSUME TypeOK, NoForeignCancel, [Next]_vars PROVE NoForeignCancel'
    OBVIOUS
  <2>1. ASSUME NEW j \in Jobs, CycleStep(j) PROVE NoForeignCancel'
    BY <2>1, CycleKeepsRecords, ExecuteKeepsRecords DEF CycleStep
  <2>2. CASE BgStep
    BY <2>2, BgKeepsRecords, ScanKeepsRecords DEF BgStep
  <2>3. CASE UNCHANGED vars
    BY <2>3 DEF NoForeignCancel, vars
  <2> QED BY <2>1, <2>2, <2>3, BgKeepsRecords, EnvKeepsRecords DEF Next
<1> QED BY <1>1, <1>2, TypeCorrect, PTL DEF Spec

-----------------------------------------------------------------------------
(* ExposureBound, when jobs do not overlap and no save is lost.               *)

\* The dict that counts is a job's copy from the moment the job has placed an
\* order until it has saved, and the file otherwise.
Working(j) == \/ pc[j] \in {"exec", "write", "bgSave", "bgWrite"}
              \/ pc[j] = "scan" /\ changed
HasDict(j) ==
    pc[j] \in {"signals", "account", "exec", "write", "bgAccount", "scan", "bgSave", "bgWrite"}
Bounded(s) ==
    \A t \in Tickers : held[t] + resting[t] + s.pending[t].qty <= 2 * signalled[t]

OneJob ==
    /\ pc["main"] \in {"idle"} \cup CyclePCs
    /\ pc["main"] = "idle" \/ pc["bg"] = "idle"
    /\ torn => \E j \in Jobs : pc[j] \in {"write", "bgWrite"}
ExposureInv ==
    /\ OneJob
    /\ (\A j \in Jobs : ~Working(j)) => Bounded(file)
    /\ \A j \in Jobs : HasDict(j) => Bounded(st[j])

SafeFaults == faults \subseteq {"broker", "midpublish"}

\* Where a step of a cycle leaves its job, and what it does to the file.
LEMMA CycleControl ==
    ASSUME TypeOK, OneJob, SafeFaults, NEW j \in Jobs, CycleStep(j)
    PROVE  /\ pc[j] # "idle" /\ \A k \in Jobs \ {j} : pc[k] = "idle" /\ pc'[k] = "idle"
           /\ OneJob'
<1>0. /\ pc \in [Jobs -> PCs] /\ torn \in BOOLEAN
      /\ pc[j] \in CyclePCs
  <2>1. pc[j] \in CyclePCs
    BY DEF CycleStep, CycleLoad, CycleSignals, CycleGivesUp, CycleSelect, ExecuteSell,
           ExecuteMarketBuy, ExecuteLimitBuy, ExecuteFails, Executes, SaveBegin, SaveEnd,
           SaveFails, CyclePCs
  <2> QED BY <2>1 DEF TypeOK, PCs
<1>1. \A k \in Jobs \ {j} : pc[k] = "idle"
  BY <1>0 DEF OneJob, Jobs, CyclePCs
<1>2. \/ torn' = torn /\ pc[j] # "write"
         /\ (pc' = pc \/ pc' = [pc EXCEPT ![j] = "signals"]
             \/ pc' = [pc EXCEPT ![j] = "account"] \/ pc' = [pc EXCEPT ![j] = "exec"]
             \/ pc' = [pc EXCEPT ![j] = AfterCycle(j)])
      \/ torn' = TRUE /\ pc' = [pc EXCEPT ![j] = "write"]
      \/ torn' = FALSE /\ pc' = [pc EXCEPT ![j] = AfterCycle(j)]
  <2>1. CASE CycleLoad(j) \/ CycleSignals(j)
    BY <2>1 DEF CycleLoad, CycleSignals, Leave, fileVars
  <2>2. CASE CycleGivesUp(j) \/ CycleSelect(j)
    BY <2>2 DEF CycleGivesUp, CycleSelect, Leave, fileVars
  <2>3. CASE \E t \in Tickers : ExecuteSell(j, t) \/ ExecuteMarketBuy(j, t)
                                \/ ExecuteLimitBuy(j, t) \/ ExecuteFails(j, t)
    BY <2>3 DEF ExecuteSell, ExecuteMarketBuy, ExecuteLimitBuy, ExecuteFails, Executes, fileVars
  <2>4. CASE SaveBegin(j) \/ SaveEnd(j)
    BY <2>4 DEF SaveBegin, SaveEnd, Leave, fileVars
  <2>5. CASE SaveFails(j)
    BY <2>5 DEF SafeFaults, SaveFails
  <2> QED BY <2>1, <2>2, <2>3, <2>4, <2>5 DEF CycleStep
<1>3. \A k \in Jobs \ {j} : pc'[k] = "idle"
  BY <1>0, <1>1, <1>2
<1>4. pc'["main"] \in {"idle"} \cup CyclePCs
  <2>1. CASE j = "main"
    BY <1>0, <1>2, <2>1 DEF CyclePCs, AfterCycle, Jobs
  <2>2. CASE j # "main"
    BY <1>3, <2>2 DEF Jobs
  <2> QED BY <2>1, <2>2
<1>5. torn' => pc'[j] \in {"write", "bgWrite"}
  <2>1. torn /\ pc[j] # "write" => FALSE
    BY <1>0, <1>1 DEF OneJob, CyclePCs
  <2> QED BY <1>0, <1>2, <2>1
<1>6. OneJob'
  BY <1>3, <1>4, <1>5 DEF OneJob, Jobs
<1> QED BY <1>0, <1>1, <1>3, <1>6 DEF CyclePCs

\* A step of a background check is taken while run_once is idle.
LEMMA BgControl ==
    ASSUME TypeOK, OneJob, SafeFaults, BgStep
    PROVE  pc["main"] = "idle" /\ pc'["main"] = "idle" /\ OneJob'
<1>0. pc \in [Jobs -> PCs] /\ torn \in BOOLEAN
  BY DEF TypeOK, PCs
<1>1. pc["main"] = "idle"
  <2>1. MayStart("bg") => pc["main"] = "idle"
    BY DEF MayStart, SafeFaults, Jobs
  <2>2. pc["bg"] \in BgPCs \/ MayStart("bg")
    BY DEF BgStep, BgTrigger, BgLoad, BgStamp, BgAccount, BgAccountFails, BgConfirmFill,
           BgEscalate, BgEscalationFails, BgKeepWaiting, Scans, BgReconcile, BgSaveBegin,
           BgSaveEnd, BgSaveFails, BgPCs
  <2> QED BY <2>1, <2>2 DEF OneJob, BgPCs
<1>2. \/ torn' = torn /\ pc["bg"] # "bgWrite" /\ pc["bg"] # "write"
         /\ \E w \in PCs : pc' = [pc EXCEPT !["bg"] = w]
      \/ torn' = TRUE /\ pc' = [pc EXCEPT !["bg"] = "bgWrite"]
      \/ torn' = FALSE /\ pc' = [pc EXCEPT !["bg"] = "idle"]
  <2> USE DEF PCs, CyclePCs, BgPCs, fileVars
  <2>1. CASE BgTrigger \/ BgLoad
    BY <2>1 DEF BgTrigger, BgLoad, MayStart
  <2>2. CASE BgStamp
    BY <2>2 DEF BgStamp, LeaveBg, Leave
  <2>3. CASE BgAccount \/ BgAccountFails
    BY <2>3 DEF BgAccount, BgAccountFails, LeaveBg, Leave
  <2>4. CASE \E t \in Tickers : \/ BgConfirmFill(t) \/ BgEscalate(t)
                                \/ BgEscalationFails(t) \/ BgKeepWaiting(t)
    <3>1. pc' = pc /\ torn' = torn /\ pc["bg"] = "scan"
      BY <2>4 DEF BgConfirmFill, BgEscalate, BgEscalationFails, BgKeepWaiting, Scans
    <3>2. pc = [pc EXCEPT !["bg"] = pc["bg"]] /\ pc["bg"] \in PCs
      BY <1>0 DEF Jobs
    <3> QED BY <3>1, <3>2
  <2>5. CASE BgReconcile
    BY <2>5 DEF BgReconcile, LeaveBg, Leave
  <2>6. CASE BgSaveBegin \/ BgSaveEnd
    BY <2>6 DEF BgSaveBegin, BgSaveEnd, LeaveBg, Leave
  <2>7. CASE BgSaveFails
    BY <2>7 DEF BgSaveFails, SafeFaults
  <2> QED BY <2>1, <2>2, <2>3, <2>4, <2>5, <2>6, <2>7 DEF BgStep
<1>3. pc'["main"] = "idle"
  BY <1>0, <1>1, <1>2 DEF Jobs
<1>4. torn' => pc'["bg"] \in {"write", "bgWrite"}
  <2>1. torn /\ pc["bg"] # "bgWrite" /\ pc["bg"] # "write" => FALSE
    BY <1>0, <1>1 DEF OneJob, Jobs
  <2> QED BY <1>0, <1>2, <2>1 DEF Jobs
<1> QED BY <1>1, <1>3, <1>4 DEF OneJob, Jobs

\* Executing a plan keeps the bound of the job's dict: what is bought or put on
\* order was asked for in the same step.
LEMMA ExecuteExposure ==
    ASSUME TypeOK, ExposureInv, NEW j \in Jobs, NEW t \in Tickers,
           \/ ExecuteSell(j, t) \/ ExecuteMarketBuy(j, t)
           \/ ExecuteLimitBuy(j, t) \/ ExecuteFails(j, t)
    PROVE  Bounded(st[j])' /\ pc' = pc /\ pc[j] = "exec"
<1> DEFINE p == plans[j][t]
<1>1. pc' = pc /\ pc[j] = "exec"
  BY DEF ExecuteSell, ExecuteMarketBuy, ExecuteLimitBuy, ExecuteFails, Executes
<1>2. Bounded(st[j])
  BY <1>1 DEF ExposureInv, HasDict
<1>3. /\ p.qty \in Nat /\ held \in Holdings /\ resting \in Holdings /\ signalled \in Holdings
      /\ st[j] \in StateDict /\ st \in [Jobs -> StateDict]
  BY DEF TypeOK, Plan
<1>4. \A u \in Tickers : /\ held[u] \in Nat /\ resting[u] \in Nat /\ signalled[u] \in Nat
                         /\ st[j].pending[u].qty \in Nat
  BY <1>3 DEF Holdings, StateDict, Pending
<1>5. CASE ExecuteSell(j, t)
  <2>1. /\ resting' = resting /\ signalled' = signalled /\ st' = st
        /\ \/ held[t] >= p.qty /\ held' = [held EXCEPT ![t] = @ - p.qty]
           \/ held' = held
    BY <1>5 DEF ExecuteSell
  <2>2. \A u \in Tickers : held'[u] <= held[u] /\ held'[u] \in Int
    BY <2>1, <1>3, <1>4 DEF Holdings
  <2> QED BY <2>1, <2>2, <1>1, <1>2, <1>4 DEF Bounded
<1>6. CASE ExecuteMarketBuy(j, t)
  <2>1. PICK ids : st' = [st EXCEPT ![j] = Stored(st[j], t, ids)]
    BY <1>6 DEF ExecuteMarketBuy
  <2>2. st'[j].pending = st[j].pending
    BY <2>1, <1>3 DEF Stored, StateDict
  <2>3. /\ resting' = resting /\ signalled' = [signalled EXCEPT ![t] = @ + p.qty]
        /\ held' = [held EXCEPT ![t] = @ + p.qty] \/ held' = held
    BY <1>6 DEF ExecuteMarketBuy
  <2>4. \A u \in Tickers :
          \/ signalled'[u] = signalled[u] /\ held'[u] = held[u]
          \/ signalled'[u] = signalled[u] + p.qty
             /\ held'[u] \in {held[u], held[u] + p.qty}
    BY <2>3, <1>3 DEF Holdings
  <2> QED BY <2>2, <2>3, <2>4, <1>1, <1>2, <1>3, <1>4 DEF Bounded
<1>7. CASE ExecuteLimitBuy(j, t)
  <2>1. /\ held' = held /\ signalled' = [signalled EXCEPT ![t] = @ + p.qty]
        /\ resting' = [resting EXCEPT ![t] = @ + p.qty]
        /\ \/ st' = st
           \/ st' = [st EXCEPT ![j].pending[t] = [qty |-> p.qty, old |-> FALSE]]
    BY <1>7 DEF ExecuteLimitBuy
  <2>2. \A u \in Tickers :
          \/ signalled'[u] = signalled[u] /\ resting'[u] = resting[u]
             /\ st'[j].pending[u] = st[j].pending[u]
          \/ signalled'[u] = signalled[u] + p.qty /\ resting'[u] = resting[u] + p.qty
             /\ st'[j].pending[u].qty \in {st[j].pending[u].qty, p.qty}
    BY <2>1, <1>3 DEF Holdings, StateDict
  <2> QED BY <2>1, <2>2, <1>1, <1>2, <1>3, <1>4 DEF Bounded
<1>8. CASE ExecuteFails(j, t)
  <2>1. /\ st' = st
        /\ \/ UNCHANGED <<held, resting, signalled>>
           \/ /\ signalled' = [signalled EXCEPT ![t] = @ + p.qty]
              /\ \/ held' = [held EXCEPT ![t] = @ + p.qty] /\ resting' = resting
                 \/ resting' = [resting EXCEPT ![t] = @ + p.qty] /\ held' = held
    BY <1>8 DEF ExecuteFails
  <2>2. \A u \in Tickers :
          \/ /\ signalled'[u] = signalled[u]
             /\ held'[u] = held[u] /\ resting'[u] = resting[u]
          \/ /\ signalled'[u] = signalled[u] + p.qty
             /\ held'[u] + resting'[u] = held[u] + resting[u] + p.qty
    BY <2>1, <1>3, <1>4 DEF Holdings
  <2> QED BY <2>1, <2>2, <1>1, <1>2, <1>3, <1>4 DEF Bounded
<1> QED BY <1>1, <1>5, <1>6, <1>7, <1>8

\* A step of a cycle keeps the exposure invariant.
LEMMA CycleExposure ==
    ASSUME TypeOK, ExposureInv, SafeFaults, NEW j \in Jobs, CycleStep(j)
    PROVE  ExposureInv'
<1>1. /\ pc[j] # "idle" /\ \A k \in Jobs \ {j} : pc[k] = "idle" /\ pc'[k] = "idle"
      /\ OneJob'
  BY CycleControl DEF ExposureInv
<1>2. \A k \in Jobs \ {j} : ~Working(k) /\ ~Working(k)' /\ ~HasDict(k)'
  BY <1>1 DEF Working, HasDict
<1>3. SUFFICES /\ ~Working(j)' => Bounded(file)'
               /\ HasDict(j)' => Bounded(st[j])'
  BY <1>1, <1>2 DEF ExposureInv
<1>4. ~Working(j) => Bounded(file)
  BY <1>2 DEF ExposureInv
<1>5. HasDict(j) => Bounded(st[j])
  BY DEF ExposureInv
<1>6. pc \in [Jobs -> PCs] /\ st \in [Jobs -> StateDict]
  BY DEF TypeOK, PCs
<1>7. AfterCycle(j) \in {"idle", "stamp"}
  BY DEF AfterCycle
<1>8. CASE \E t \in Tickers : ExecuteSell(j, t) \/ ExecuteMarketBuy(j, t)
                              \/ ExecuteLimitBuy(j, t) \/ ExecuteFails(j, t)
  BY <1>8, ExecuteExposure DEF Working
<1>14. CASE CycleSignals(j)
  <2>1. /\ Bounded(file) /\ Bounded(st[j]) /\ UNCHANGED <<file, held, resting, signalled>>
    BY <1>4, <1>5, <1>14 DEF CycleSignals, Working, HasDict, fileVars, brokerVars
  <2>2. CASE Leave(j, AfterCycle(j))
    <3>1. pc'[j] = AfterCycle(j) BY <2>2, <1>6 DEF Leave
    <3> QED BY <2>1, <3>1, <1>7 DEF HasDict, Bounded
  <2>3. CASE st' = st
    BY <2>1, <2>3 DEF Bounded
  <2> QED BY <2>2, <2>3, <1>14 DEF CycleSignals
<1>9. CASE CycleLoad(j)
  <2>1. ~torn
    BY <1>1, <1>6, <1>9 DEF CycleLoad, ExposureInv, OneJob
  <2>2. Bounded(file) /\ UNCHANGED <<file, held, resting, signalled>>
    BY <1>4, <1>9 DEF CycleLoad, Working, fileVars, brokerVars
  <2>3. Bounded(file)'
    BY <2>2 DEF Bounded
  <2>4. CASE Leave(j, AfterCycle(j))
    <3>1. pc'[j] = AfterCycle(j) BY <2>4, <1>6 DEF Leave
    <3> QED BY <2>3, <3>1, <1>7 DEF HasDict
  <2>5. CASE st' = [st EXCEPT ![j] = Loaded]
    <3>1. st'[j] = file BY <2>5, <2>1, <1>6 DEF Loaded
    <3> QED BY <2>2, <2>3, <3>1 DEF Bounded
  <2> QED BY <2>4, <2>5, <1>9 DEF CycleLoad
<1>10. CASE CycleGivesUp(j)
  <2>1. pc'[j] = AfterCycle(j)
    BY <1>10, <1>6 DEF CycleGivesUp, Leave
  <2>2. Bounded(file) /\ UNCHANGED <<file, held, resting, signalled>>
    BY <1>4, <1>10 DEF CycleGivesUp, Working, fileVars, brokerVars
  <2> QED BY <2>1, <2>2, <1>7 DEF HasDict, Bounded
<1>11. CASE CycleSelect(j) \/ SaveBegin(j)
  <2>1. pc'[j] \in {"exec", "write"} /\ HasDict(j)
    BY <1>11, <1>6 DEF CycleSelect, SaveBegin, HasDict
  <2>2. st'[j].pending = st[j].pending
    BY <1>11, <1>6 DEF CycleSelect, SaveBegin, Reconciled, StateDict
  <2>3. UNCHANGED <<held, resting, signalled>>
    BY <1>11 DEF CycleSelect, SaveBegin, brokerVars
  <2> QED BY <1>5, <2>1, <2>2, <2>3 DEF Working, Bounded
<1>12. CASE SaveEnd(j)
  <2>1. /\ pc'[j] = AfterCycle(j) /\ file' = st[j] /\ HasDict(j)
        /\ UNCHANGED <<held, resting, signalled>>
    BY <1>12, <1>6 DEF SaveEnd, Leave, HasDict, brokerVars
  <2> QED BY <2>1, <1>5, <1>7 DEF HasDict, Bounded
<1>13. ~SaveFails(j)
  BY DEF SaveFails, SafeFaults
<1> QED BY <1>8, <1>9, <1>10, <1>11, <1>12, <1>13, <1>14 DEF CycleStep

\* One iteration of the loop over pending_buys: an escalation buys what leaves
\* the pending entry, or nothing.
LEMMA ScanExposure ==
    ASSUME TypeOK, SafeFaults, Bounded(st["bg"]), NEW t \in Tickers,
           \/ BgConfirmFill(t) \/ BgEscalate(t) \/ BgEscalationFails(t) \/ BgKeepWaiting(t)
    PROVE  Bounded(st["bg"])' /\ pc' = pc /\ pc["bg"] = "scan"
           /\ (changed' \/ UNCHANGED <<changed, held, resting, signalled, file>>)
<1>0. "bg" \in Jobs
  BY DEF Jobs
<1>1. /\ pc' = pc /\ pc["bg"] = "scan"
      /\ UNCHANGED <<resting, signalled, file>>
  BY DEF BgConfirmFill, BgEscalate, BgEscalationFails, BgKeepWaiting, Scans, fileVars
<1>2. st["bg"] \in StateDict /\ st \in [Jobs -> StateDict] /\ held \in Holdings
  BY <1>0 DEF TypeOK
<1>3. \A u \in Tickers : /\ held[u] \in Nat /\ resting[u] \in Nat /\ signalled[u] \in Nat
                         /\ st["bg"].pending[u].qty \in Nat
  BY <1>2 DEF TypeOK, Holdings, StateDict, Pending
<1>4. CASE BgKeepWaiting(t) \/ BgEscalationFails(t)
  BY <1>1, <1>4 DEF BgKeepWaiting, BgEscalationFails, SafeFaults, Bounded
<1>5. ASSUME NEW q \in Nat, NEW n \in LegCounts, Resolve(t, q, n)
      PROVE  /\ changed'
             /\ \A u \in Tickers : st'["bg"].pending[u].qty
                                   = IF u = t THEN 0 ELSE st["bg"].pending[u].qty
  <2>1. n \in 0..2
    BY LegCountsAssumption
  <2>0. PICK ids \in KnownIds(n) :
          st' = [st EXCEPT !["bg"] = [Stored(@, t, ids) EXCEPT !.pending[t] = NoPending]]
    BY <1>5 DEF Resolve
  <2>2. PICK d : d = Stored(st["bg"], t, ids)
    OBVIOUS
  <2>3. d \in StateDict
    BY <1>2, <2>1, <2>2, StoredType DEF TypeOK
  <2>4. d.pending = st["bg"].pending
    BY <1>2, <2>2 DEF Stored, StateDict
  <2>5. st' = [st EXCEPT !["bg"] = [d EXCEPT !.pending[t] = NoPending]] /\ changed'
    BY <1>5, <2>0, <2>2 DEF Resolve
  <2>6. st'["bg"] = [d EXCEPT !.pending[t] = NoPending]
    BY <1>0, <1>2, <2>5
  <2>7. st'["bg"].pending = [d.pending EXCEPT ![t] = NoPending]
    BY <2>3, <2>6 DEF StateDict
  <2>8. d.pending \in [Tickers -> Pending]
    BY <2>3 DEF StateDict
  <2> QED BY <2>4, <2>5, <2>7, <2>8 DEF NoPending
<1>6. CASE BgConfirmFill(t)
  <2>1. acct[t] \in Nat
    BY DEF TypeOK, Holdings
  <2>2. held' = held /\ \E n \in LegCounts : Resolve(t, acct[t], n)
    BY <1>6 DEF BgConfirmFill
  <2>3. changed' /\ \A u \in Tickers : st'["bg"].pending[u].qty
                                   = IF u = t THEN 0 ELSE st["bg"].pending[u].qty
    BY <1>5, <2>1, <2>2
  <2>4. \A u \in Tickers : held'[u] + resting'[u] + st'["bg"].pending[u].qty
                           <= held[u] + resting[u] + st["bg"].pending[u].qty
    BY <1>1, <1>3, <2>2, <2>3
  <2> QED BY <1>1, <1>3, <2>2, <2>3 DEF Bounded
<1>7. CASE BgEscalate(t)
  <2> DEFINE q == st["bg"].pending[t].qty
  <2>1. q \in Nat
    BY <1>3
  <2>2. /\ held' = [held EXCEPT ![t] = @ + q] \/ held' = held
        /\ \E n \in LegCounts : Resolve(t, q, n)
    BY <1>7 DEF BgEscalate
  <2>3. changed' /\ \A u \in Tickers : st'["bg"].pending[u].qty
                                   = IF u = t THEN 0 ELSE st["bg"].pending[u].qty
    BY <1>5, <2>1, <2>2
  <2>4. \A u \in Tickers : held'[u] = held[u] \/ (u = t /\ held'[u] = held[u] + q)
    BY <2>2, <1>2 DEF Holdings
  <2> QED BY <1>1, <1>3, <2>3, <2>4 DEF Bounded
<1> QED BY <1>1, <1>4, <1>6, <1>7

\* A step of the background check keeps the exposure invariant.
LEMMA BgExposure ==
    ASSUME TypeOK, ExposureInv, SafeFaults, BgStep
    PROVE  ExposureInv'
<1>1. pc["main"] = "idle" /\ pc'["main"] = "idle" /\ OneJob'
  BY BgControl DEF ExposureInv
<1>2. ~Working("main") /\ ~Working("main")' /\ ~HasDict("main")'
  BY <1>1 DEF Working, HasDict
<1>3. SUFFICES /\ ~Working("bg")' => Bounded(file)'
               /\ HasDict("bg")' => Bounded(st["bg"])'
  BY <1>1, <1>2 DEF ExposureInv, Jobs
<1>4. ~Working("bg") => Bounded(file)
  BY <1>2 DEF ExposureInv, Jobs
<1>5. HasDict("bg") => Bounded(st["bg"])
  BY DEF ExposureInv, Jobs
<1>6. pc \in [Jobs -> PCs] /\ st \in [Jobs -> StateDict] /\ "bg" \in Jobs /\ file \in StateDict
  BY DEF TypeOK, PCs, Jobs
<1>7. pc["bg"] \notin {"write", "bgWrite"} => ~torn
  BY <1>1 DEF ExposureInv, OneJob, Jobs
<1>8. CASE \E t \in Tickers : \/ BgConfirmFill(t) \/ BgEscalate(t)
                              \/ BgEscalationFails(t) \/ BgKeepWaiting(t)
  <2>1. PICK t \in Tickers : \/ BgConfirmFill(t) \/ BgEscalate(t)
                             \/ BgEscalationFails(t) \/ BgKeepWaiting(t)
    BY <1>8
  <2>2. Bounded(st["bg"])
    BY <1>5, <2>1 DEF BgConfirmFill, BgEscalate, BgEscalationFails, BgKeepWaiting, Scans, HasDict
  <2>3. /\ Bounded(st["bg"])' /\ pc' = pc /\ pc["bg"] = "scan"
        /\ (changed' \/ UNCHANGED <<changed, held, resting, signalled, file>>)
    BY <2>1, <2>2, ScanExposure
  <2> QED BY <1>4, <2>3 DEF Working, Bounded
<1>9. CASE BgTrigger \/ BgAccount \/ BgSaveBegin
  <2>1. /\ UNCHANGED <<file, held, resting, signalled, st>>
        /\ \/ pc["bg"] = "idle" /\ pc'["bg"] = "cycle"
           \/ pc["bg"] = "bgAccount" /\ pc'["bg"] = "scan"
           \/ pc["bg"] = "bgSave" /\ pc'["bg"] = "bgWrite"
    BY <1>9, <1>6 DEF BgTrigger, MayStart, BgAccount, BgSaveBegin, fileVars, brokerVars
  <2>2. ~Working("bg")' => ~Working("bg")
    BY <2>1 DEF Working
  <2>3. HasDict("bg")' => HasDict("bg")
    BY <2>1 DEF HasDict
  <2> QED BY <1>4, <1>5, <2>1, <2>2, <2>3 DEF Bounded
<1>10. CASE BgLoad \/ (BgStamp /\ ~LeaveBg("idle"))
  <2>1. /\ pc["bg"] \in {"idle", "stamp"} /\ UNCHANGED <<file, held, resting, signalled>>
        /\ st' = [st EXCEPT !["bg"] = Loaded] \/ st' = [st EXCEPT !["bg"] = [Loaded EXCEPT !.last_run = peek]]
    BY <1>10 DEF BgLoad, MayStart, BgStamp, fileVars, brokerVars
  <2>2. Loaded = file
    BY <1>7, <2>1 DEF Loaded
  <2>3. st'["bg"] = file \/ st'["bg"] = [file EXCEPT !.last_run = peek]
    BY <1>6, <2>1, <2>2
  <2>4. st'["bg"].pending = file.pending
    BY <1>6, <2>3 DEF StateDict
  <2>5. Bounded(file)
    BY <1>4, <2>1 DEF Working
  <2> QED BY <2>1, <2>4, <2>5 DEF Bounded
<1>11. CASE LeaveBg("idle") /\ (BgStamp \/ BgAccountFails \/ BgReconcile)
  <2>1. /\ UNCHANGED <<file, held, resting, signalled>> /\ pc'["bg"] = "idle"
        /\ pc["bg"] \in {"stamp", "bgAccount", "scan"}
    BY <1>11, <1>6 DEF LeaveBg, Leave, BgStamp, BgAccountFails, BgReconcile, fileVars, brokerVars
  <2>2. pc["bg"] = "scan" => ~changed
    BY <1>11, <1>6 DEF LeaveBg, Leave, BgStamp, BgAccountFails, BgReconcile, NeedsSave
  <2>3. Bounded(file)
    BY <1>4, <2>1, <2>2 DEF Working
  <2> QED BY <2>1, <2>3 DEF Bounded, HasDict
<1>12. CASE BgReconcile /\ ~LeaveBg("idle")
  <2>1. PICK a : st' = [st EXCEPT !["bg"] = Reconciled(st["bg"], a)]
    BY <1>12 DEF BgReconcile
  <2>2. /\ UNCHANGED <<held, resting, signalled>>
        /\ pc["bg"] = "scan" /\ pc'["bg"] = "bgSave"
    BY <1>12, <1>6 DEF BgReconcile
  <2>3. st'["bg"].pending = st["bg"].pending
    BY <1>6, <2>1 DEF Reconciled, StateDict
  <2> QED BY <1>5, <2>2, <2>3 DEF Working, HasDict, Bounded
<1>13. CASE BgSaveEnd
  <2>1. /\ file' = st["bg"] /\ UNCHANGED <<held, resting, signalled>>
        /\ pc["bg"] = "bgWrite" /\ pc'["bg"] = "idle"
    BY <1>13, <1>6 DEF BgSaveEnd, LeaveBg, Leave, brokerVars
  <2> QED BY <1>5, <2>1 DEF HasDict, Bounded
<1>14. ~BgSaveFails
  BY DEF BgSaveFails, SafeFaults
<1>15. BgAccountFails => LeaveBg("idle")
  BY DEF BgAccountFails
<1> QED
  BY <1>8, <1>9, <1>10, <1>11, <1>12, <1>13, <1>14, <1>15 DEF BgStep

\* The environment keeps it: a fill moves shares from resting to held, a leg
\* only sells, ageing leaves quantities alone.
LEMMA EnvExposure ==
    ASSUME TypeOK, ExposureInv, SafeFaults, EnvStep
    PROVE  ExposureInv'
<1>1. ~Crash
  BY DEF Crash, SafeFaults
<1>2. pc' = pc /\ torn' = torn /\ changed' = changed /\ signalled' = signalled
  BY <1>1 DEF EnvStep, Publish, HourPasses, LimitFills, LegFires, fileVars, brokerVars, bgVars
<1>3. /\ held \in Holdings /\ resting \in Holdings
      /\ \A u \in Tickers : held[u] \in Nat /\ resting[u] \in Nat /\ signalled[u] \in Nat
      /\ \A s \in StateDict, u \in Tickers : s.pending[u].qty \in Nat
      /\ file \in StateDict /\ \A j \in Jobs : st[j] \in StateDict
  BY DEF TypeOK, Holdings, StateDict, Pending
<1>4. \A u \in Tickers : /\ held'[u] \in Nat /\ resting'[u] \in Nat
                         /\ held'[u] + resting'[u] <= held[u] + resting[u]
  <2>1. CASE UNCHANGED <<held, resting>>
    BY <2>1, <1>3
  <2>2. ASSUME NEW t \in Tickers, LimitFills(t)
        PROVE  \A u \in Tickers : /\ held'[u] \in Nat /\ resting'[u] \in Nat
                                  /\ held'[u] + resting'[u] <= held[u] + resting[u]
    <3>1. PICK q \in 1..resting[t] : /\ held' = [held EXCEPT ![t] = @ + q]
                                     /\ resting' = [resting EXCEPT ![t] = @ - q]
      BY <2>2 DEF LimitFills
    <3>2. q \in Nat /\ q <= resting[t]
      BY <1>3
    <3> QED BY <1>3, <3>1, <3>2 DEF Holdings
  <2>3. ASSUME NEW l \in legs, LegFires(l)
        PROVE  \A u \in Tickers : /\ held'[u] \in Nat /\ resting'[u] \in Nat
                                  /\ held'[u] + resting'[u] <= held[u] + resting[u]
    <3>1. l.qty \in Nat /\ l.ticker \in Tickers
      BY DEF TypeOK, Leg
    <3>2. /\ resting' = resting
          /\ \/ held' = held
             \/ l.qty <= held[l.ticker] /\ held' = [held EXCEPT ![l.ticker] = @ - l.qty]
      BY <2>3 DEF LegFires
    <3> QED BY <1>3, <3>1, <3>2 DEF Holdings
  <2> QED BY <1>1, <2>1, <2>2, <2>3 DEF EnvStep, Publish, HourPasses, brokerVars
<1>5. /\ \A u \in Tickers : file'.pending[u].qty = file.pending[u].qty
      /\ \A j \in Jobs, u \in Tickers : st'[j].pending[u].qty = st[j].pending[u].qty
  <2>1. CASE UNCHANGED <<file, st>>
    BY <2>1
  <2>2. ASSUME NEW t \in Tickers, HourPasses(t)
        PROVE  /\ \A u \in Tickers : file'.pending[u].qty = file.pending[u].qty
               /\ \A j \in Jobs, u \in Tickers : st'[j].pending[u].qty = st[j].pending[u].qty
    <3>1. \A s \in StateDict, u \in Tickers : Aged(s, t).pending[u].qty = s.pending[u].qty
      BY DEF Aged, StateDict, Pending
    <3> QED BY <1>3, <2>2, <3>1 DEF HourPasses
  <2> QED BY <1>1, <2>1, <2>2 DEF EnvStep, Publish, LimitFills, LegFires, fileVars
<1>6. Bounded(file) => Bounded(file)'
  BY <1>2, <1>3, <1>4, <1>5 DEF Bounded
<1>7. ASSUME NEW j \in Jobs PROVE Bounded(st[j]) => Bounded(st[j])'
  BY <1>2, <1>3, <1>4, <1>5 DEF Bounded
<1> QED
  BY <1>2, <1>6, <1>7 DEF ExposureInv, OneJob, Working, HasDict

\* What is held and on order never exceeds twice what was asked for, while jobs
\* do not overlap, the process does not die, the file can be written and a call
\* that fails has done nothing, whenever runs are published and orders filled.
THEOREM ExposureLimited == Spec => []ExposureBound
<1> DEFINE IInv == SafeFaults => ExposureInv
<1>1. [Next]_vars => faults' = faults
  BY DEF Next, MainStart, CycleStep, CycleLoad, CycleSignals, CycleGivesUp, CycleSelect, ExecuteSell,
         ExecuteMarketBuy, ExecuteLimitBuy, ExecuteFails, Executes, SaveBegin, SaveEnd,
         SaveFails, BgStep, BgTrigger, BgLoad, BgStamp, BgAccount, BgAccountFails,
         BgConfirmFill, BgEscalate, BgEscalationFails, BgKeepWaiting, Scans, BgReconcile,
         BgSaveBegin, BgSaveEnd, BgSaveFails, EnvStep, Publish, HourPasses, LimitFills, LegFires,
         Crash, envVars, vars
<1>2. Init => IInv
  BY DEF Init, ExposureInv, OneJob, Working, HasDict, Bounded, DefaultState, NoPending, Nothing, Jobs
<1>3. TypeOK /\ IInv /\ [Next]_vars => IInv'
  <2> SUFFICES ASSUME TypeOK, ExposureInv, SafeFaults, [Next]_vars PROVE ExposureInv'
    BY <1>1 DEF SafeFaults
  <2>1. ASSUME NEW j \in Jobs, CycleStep(j) PROVE ExposureInv'
    BY <2>1, CycleExposure
  <2>2. CASE BgStep
    BY <2>2, BgExposure
  <2>3. CASE EnvStep
    BY <2>3, EnvExposure
  <2>4. CASE MainStart
    <3>1. /\ pc["bg"] = "idle" /\ pc'["main"] = "cycle" /\ pc'["bg"] = "idle"
          /\ pc["main"] = "idle"
          /\ UNCHANGED <<file, torn, held, resting, signalled, st, changed>>
      BY <2>4 DEF MainStart, MayStart, SafeFaults, Jobs, TypeOK, fileVars, brokerVars, bgVars
    <3>2. ~torn /\ Bounded(file)
      BY <3>1 DEF ExposureInv, OneJob, Working, Jobs
    <3> QED BY <3>1, <3>2 DEF ExposureInv, OneJob, Working, HasDict, Bounded, Jobs, CyclePCs
  <2>5. CASE UNCHANGED vars
    BY <2>5 DEF vars, ExposureInv, OneJob, Working, HasDict, Bounded
  <2> QED BY <2>1, <2>2, <2>3, <2>4, <2>5 DEF Next
<1>4. TypeOK /\ IInv => ExposureBound
  <2> SUFFICES ASSUME TypeOK, ExposureInv, NEW t \in Tickers
               PROVE  held[t] + resting[t] <= 2 * signalled[t]
    BY DEF ExposureBound, SafeFaults
  <2>1. /\ held[t] \in Nat /\ resting[t] \in Nat /\ signalled[t] \in Nat
        /\ file.pending[t].qty \in Nat /\ \A j \in Jobs : st[j].pending[t].qty \in Nat
    BY DEF TypeOK, Holdings, StateDict, Pending
  <2>2. CASE \A j \in Jobs : ~Working(j)
    BY <2>1, <2>2 DEF ExposureInv, Bounded
  <2>3. CASE \E j \in Jobs : Working(j)
    <3>1. PICK j \in Jobs : HasDict(j)
      BY <2>3 DEF Working, HasDict
    <3> QED BY <2>1, <3>1 DEF ExposureInv, Bounded
  <2> QED BY <2>2, <2>3
<1> QED BY <1>2, <1>3, <1>4, TypeCorrect, PTL DEF Spec

-----------------------------------------------------------------------------
(* EscalationsStop, under every fault.  What the file or a copy has pending   *)
(* was asked for, and so was what rests.  While background_check looks at an  *)
(* entry, no more is held and on order than its snapshot and what was asked   *)
(* for; an escalation adds what is pending to a snapshot of less than 90% of  *)
(* it.                                                                        *)

Asked(s) == \A t \in Tickers : s.pending[t].qty <= signalled[t]
RestsAsked == \A t \in Tickers : resting[t] <= signalled[t]
SnapshotCovers ==
    pc["bg"] = "scan" =>
        \A t \in scan : held[t] + resting[t] <= acct[t] + signalled[t]
StopInv ==
    /\ RestsAsked /\ SnapshotCovers /\ EscalationsStop
    /\ Asked(file) /\ \A j \in Jobs : Asked(st[j])

\* The quantities of the state are naturals.
LEMMA Quantities ==
    ASSUME TypeOK
    PROVE  /\ \A u \in Tickers : /\ held[u] \in Nat /\ resting[u] \in Nat
                                 /\ signalled[u] \in Nat /\ acct[u] \in Nat
           /\ \A s \in StateDict, u \in Tickers : s.pending[u].qty \in Nat
           /\ file \in StateDict /\ Loaded \in StateDict /\ st \in [Jobs -> StateDict]
           /\ \A j \in Jobs : st[j] \in StateDict
           /\ held \in Holdings /\ resting \in Holdings /\ signalled \in Holdings
           /\ scan \subseteq Tickers
BY LoadedType DEF TypeOK, Holdings, StateDict, Pending

\* What is bought or put on order was asked for in the same step, and copies have
\* nothing pending that was not asked for.
Orderly ==
    /\ \A u \in Tickers :
          /\ signalled[u] <= signalled'[u]
          /\ resting'[u] - resting[u] <= signalled'[u] - signalled[u]
          /\ (held'[u] + resting'[u]) - (held[u] + resting[u]) <= signalled'[u] - signalled[u]
    /\ Asked(file)' /\ \A j \in Jobs : Asked(st[j])'
    /\ pc'["bg"] = "scan" => pc["bg"] = "scan" /\ acct' = acct /\ scan' \subseteq scan

LEMMA OrderlyStops == ASSUME TypeOK, TypeOK', StopInv, Orderly PROVE StopInv'
<1>1. \A u \in Tickers : /\ held[u] \in Nat /\ resting[u] \in Nat
                         /\ signalled[u] \in Nat /\ acct[u] \in Nat
                         /\ held'[u] \in Nat /\ resting'[u] \in Nat
                         /\ signalled'[u] \in Nat /\ acct'[u] \in Nat
  BY DEF TypeOK, Holdings
<1>2. RestsAsked'
  BY <1>1 DEF Orderly, StopInv, RestsAsked
<1>3. EscalationsStop'
  BY <1>1 DEF Orderly, StopInv, EscalationsStop
<1>4. SnapshotCovers'
  <2> SUFFICES ASSUME pc'["bg"] = "scan", NEW u \in scan'
               PROVE  held'[u] + resting'[u] <= acct'[u] + signalled'[u]
    BY DEF SnapshotCovers
  <2>1. u \in scan /\ u \in Tickers /\ acct' = acct
    BY Quantities DEF Orderly
  <2>2. held[u] + resting[u] <= acct[u] + signalled[u]
    BY <2>1 DEF Orderly, StopInv, SnapshotCovers
  <2> QED BY <1>1, <2>1, <2>2 DEF Orderly
<1> QED BY <1>2, <1>3, <1>4 DEF Orderly, StopInv

\* A step that orders nothing, and whose dicts have pending what old dicts had.
AskedDict(d) == \A t \in Tickers : d.pending[t].qty <= signalled[t]
LEMMA QuietStops ==
    ASSUME TypeOK, TypeOK', StopInv, UNCHANGED <<held, resting, signalled>>,
           AskedDict(file'), \A j \in Jobs : AskedDict(st'[j]),
           pc'["bg"] = "scan" => pc["bg"] = "scan" /\ acct' = acct /\ scan' \subseteq scan
    PROVE  StopInv'
<1>1. Orderly
  BY Quantities DEF Orderly, Asked, AskedDict
<1> QED BY <1>1, OrderlyStops

\* The dicts at hand have nothing pending that was not asked for.
LEMMA DictsAsked ==
    ASSUME TypeOK, StopInv
    PROVE  /\ AskedDict(DefaultState) /\ AskedDict(file) /\ AskedDict(Loaded)
           /\ \A j \in Jobs : AskedDict(st[j])
BY Quantities DEF StopInv, Asked, AskedDict, DefaultState, NoPending, Loaded

\* One job's dict is replaced by such a dict.
LEMMA OneDictAsked ==
    ASSUME TypeOK, StopInv, NEW j \in Jobs, NEW d, AskedDict(d), st' = [st EXCEPT ![j] = d]
    PROVE  \A k \in Jobs : AskedDict(st'[k])
<1>1. \A k \in Jobs : st'[k] = d \/ st'[k] = st[k] BY DEF TypeOK
<1> QED BY <1>1, DictsAsked

LEMMA LeaveAsked ==
    ASSUME TypeOK, StopInv, NEW j \in Jobs, NEW where, Leave(j, where)
    PROVE  \A k \in Jobs : AskedDict(st'[k])
BY DictsAsked, OneDictAsked DEF Leave

LEMMA ReconciledAsked ==
    ASSUME TypeOK, StopInv, NEW j \in Jobs, NEW a PROVE AskedDict(Reconciled(st[j], a))
<1>1. Reconciled(st[j], a).pending = st[j].pending
  BY Quantities DEF Reconciled, StateDict
<1> QED BY <1>1, DictsAsked DEF AskedDict

\* The steps of a cycle that order nothing.
LEMMA CycleStops ==
    ASSUME TypeOK, TypeOK', StopInv, NEW j \in Jobs,
           \/ CycleLoad(j) \/ CycleSignals(j) \/ CycleGivesUp(j) \/ CycleSelect(j)
           \/ SaveBegin(j) \/ SaveEnd(j) \/ SaveFails(j)
    PROVE  StopInv'
<1> USE DEF fileVars, brokerVars, bgVars
<1>1. UNCHANGED <<held, resting, signalled, acct, scan>>
  BY DEF CycleLoad, CycleSignals, CycleGivesUp, CycleSelect, SaveBegin, SaveEnd, SaveFails
<1>2. pc'["bg"] = "scan" => pc["bg"] = "scan"
  BY DEF CycleLoad, CycleSignals, CycleGivesUp, CycleSelect, SaveBegin, SaveEnd, SaveFails,
         Leave, AfterCycle, TypeOK, Jobs
<1>3. AskedDict(file')
  <2>1. file' = file \/ file' = st[j]
    BY DEF CycleLoad, CycleSignals, CycleGivesUp, CycleSelect, SaveBegin, SaveEnd, SaveFails
  <2> QED BY <2>1, DictsAsked
<1>4. \A k \in Jobs : AskedDict(st'[k])
  <2>1. CASE \E where : Leave(j, where)
    BY <2>1, LeaveAsked
  <2>2. CASE st' = st
    BY <2>2, DictsAsked
  <2>3. CASE st' = [st EXCEPT ![j] = Loaded]
    <3>1. AskedDict(Loaded)
      BY DictsAsked
    <3> HIDE DEF Loaded
    <3> QED BY <2>3, <3>1, OneDictAsked
  <2>4. CASE CycleSelect(j)
    BY <2>4, ReconciledAsked, OneDictAsked DEF CycleSelect
  <2>5. CASE SaveBegin(j)
    <3>1. PICK d : d = [st[j] EXCEPT !.last_run = run[j]]
      OBVIOUS
    <3>2. st' = [st EXCEPT ![j] = d]
      BY <2>5, <3>1 DEF SaveBegin, TypeOK
    <3>3. d.pending = st[j].pending
      BY <3>1, Quantities DEF StateDict
    <3> QED BY <3>2, <3>3, DictsAsked, OneDictAsked DEF AskedDict
  <2> QED
    BY <2>1, <2>2, <2>3, <2>4, <2>5 DEF CycleLoad, CycleSignals, CycleGivesUp, SaveEnd, SaveFails
<1> QED BY <1>1, <1>2, <1>3, <1>4, QuietStops

\* Executing a plan: what it buys or puts on order is asked for.
LEMMA ExecuteStops ==
    ASSUME TypeOK, TypeOK', StopInv, NEW j \in Jobs, NEW t \in Tickers,
           \/ ExecuteSell(j, t) \/ ExecuteMarketBuy(j, t)
           \/ ExecuteLimitBuy(j, t) \/ ExecuteFails(j, t)
    PROVE  StopInv'
<1> DEFINE p == plans[j][t]
<1>1. /\ file' = file /\ pc' = pc /\ acct' = acct /\ scan' = scan
  BY DEF ExecuteSell, ExecuteMarketBuy, ExecuteLimitBuy, ExecuteFails, Executes, fileVars, bgVars
<1>2. p.qty \in Nat
  BY DEF TypeOK, Plan
<1>3. /\ \/ st' = st
         \/ \E ids : st' = [st EXCEPT ![j] = Stored(st[j], t, ids)]
         \/ /\ st' = [st EXCEPT ![j].pending[t] = [qty |-> p.qty, old |-> FALSE]]
            /\ signalled' = [signalled EXCEPT ![t] = @ + p.qty]
      /\ signalled' = signalled \/ signalled' = [signalled EXCEPT ![t] = @ + p.qty]
  BY DEF ExecuteSell, ExecuteMarketBuy, ExecuteLimitBuy, ExecuteFails
<1>4. \A u \in Tickers : signalled'[u] = signalled[u] \/ signalled'[u] = signalled[u] + p.qty
  BY <1>3, Quantities DEF Holdings
<1>5. \A k \in Jobs, u \in Tickers :
         \/ st'[k].pending[u].qty = st[k].pending[u].qty
         \/ st'[k].pending[u].qty = p.qty /\ signalled'[u] = signalled[u] + p.qty
  <2>1. CASE st' = st
    BY <2>1
  <2>2. ASSUME NEW ids, st' = [st EXCEPT ![j] = Stored(st[j], t, ids)]
        PROVE  \A k \in Jobs : st'[k].pending = st[k].pending
    BY <2>2, Quantities DEF Stored, StateDict
  <2>3. CASE /\ st' = [st EXCEPT ![j].pending[t] = [qty |-> p.qty, old |-> FALSE]]
             /\ signalled' = [signalled EXCEPT ![t] = @ + p.qty]
    BY <2>3, Quantities DEF StateDict, Holdings
  <2> QED BY <1>3, <2>1, <2>2, <2>3
<1>6. Asked(file)' /\ \A k \in Jobs : Asked(st[k])'
  BY <1>1, <1>2, <1>4, <1>5, Quantities DEF StopInv, Asked
<1>7. \A u \in Tickers :
         \/ /\ signalled'[u] = signalled[u] /\ resting'[u] = resting[u] /\ held'[u] \in Int
            /\ held'[u] <= held[u]
         \/ /\ signalled'[u] = signalled[u] + p.qty
            /\ resting'[u] = resting[u] /\ held'[u] \in {held[u], held[u] + p.qty}
         \/ /\ signalled'[u] = signalled[u] + p.qty
            /\ resting'[u] = resting[u] + p.qty /\ held'[u] = held[u]
  <2>1. CASE ExecuteSell(j, t)
    BY <2>1, <1>2, Quantities DEF ExecuteSell, Holdings
  <2>2. CASE ExecuteMarketBuy(j, t)
    BY <2>2, <1>2, Quantities DEF ExecuteMarketBuy, Holdings
  <2>3. CASE ExecuteLimitBuy(j, t)
    BY <2>3, <1>2, Quantities DEF ExecuteLimitBuy, Holdings
  <2>4. CASE ExecuteFails(j, t)
    <3>1. \/ UNCHANGED <<held, resting, signalled>>
          \/ /\ signalled' = [signalled EXCEPT ![t] = @ + p.qty]
             /\ \/ held' = [held EXCEPT ![t] = @ + p.qty] /\ resting' = resting
                \/ resting' = [resting EXCEPT ![t] = @ + p.qty] /\ held' = held
      BY <2>4 DEF ExecuteFails
    <3> QED BY <3>1, <1>2, Quantities DEF Holdings
  <2> QED BY <2>1, <2>2, <2>3, <2>4
<1>8. Orderly
  BY <1>1, <1>2, <1>6, <1>7, Quantities DEF Orderly
<1> QED BY <1>8, OrderlyStops

\* The steps of a background check that order nothing; a snapshot covers what is held.
LEMMA BgStops ==
    ASSUME TypeOK, TypeOK', StopInv,
           \/ MainStart \/ BgTrigger \/ BgLoad \/ BgStamp \/ BgAccount \/ BgAccountFails
           \/ BgReconcile \/ BgSaveBegin \/ BgSaveEnd \/ BgSaveFails
    PROVE  StopInv'
<1> USE DEF fileVars, brokerVars, bgVars
<1>0. "bg" \in Jobs
  BY DEF Jobs
<1>1. UNCHANGED <<held, resting, signalled>>
  BY DEF MainStart, BgTrigger, BgLoad, BgStamp, BgAccount, BgAccountFails, BgReconcile,
         BgSaveBegin, BgSaveEnd, BgSaveFails
<1>2. AskedDict(file')
  <2>1. file' = file \/ file' = st["bg"]
    BY DEF MainStart, BgTrigger, BgLoad, BgStamp, BgAccount, BgAccountFails, BgReconcile,
           BgSaveBegin, BgSaveEnd, BgSaveFails
  <2> QED BY <1>0, <2>1, DictsAsked
<1>3. \A k \in Jobs : AskedDict(st'[k])
  <2>1. CASE LeaveBg("idle")
    BY <1>0, <2>1, LeaveAsked DEF LeaveBg
  <2>2. CASE st' = st
    BY <2>2, DictsAsked
  <2>3. CASE BgLoad
    <3>1. AskedDict(Loaded) /\ st' = [st EXCEPT !["bg"] = Loaded]
      BY <2>3, DictsAsked DEF BgLoad
    <3> HIDE DEF Loaded
    <3> QED BY <1>0, <3>1, OneDictAsked
  <2>4. CASE BgStamp /\ ~LeaveBg("idle")
    <3>1. PICK d : d = [Loaded EXCEPT !.last_run = peek]
      OBVIOUS
    <3>2. st' = [st EXCEPT !["bg"] = d]
      BY <2>4, <3>1 DEF BgStamp
    <3>3. d.pending = Loaded.pending
      BY <3>1, Quantities DEF StateDict
    <3> QED BY <1>0, <3>2, <3>3, DictsAsked, OneDictAsked DEF AskedDict
  <2>5. CASE BgReconcile /\ ~LeaveBg("idle")
    <3>1. PICK a : st' = [st EXCEPT !["bg"] = Reconciled(st["bg"], a)]
      BY <2>5 DEF BgReconcile
    <3> QED BY <1>0, <3>1, ReconciledAsked, OneDictAsked
  <2> QED
    BY <2>1, <2>2, <2>3, <2>4, <2>5
    DEF MainStart, BgTrigger, BgAccount, BgAccountFails, BgSaveBegin, BgSaveEnd, BgSaveFails
<1>4. CASE BgAccount
  <2>1. acct' = held
    BY <1>4 DEF BgAccount
  <2>2. RestsAsked' /\ EscalationsStop'
    BY <1>1 DEF StopInv, RestsAsked, EscalationsStop
  <2>3. SnapshotCovers'
    BY <1>1, <2>1, Quantities DEF StopInv, RestsAsked, SnapshotCovers, TypeOK
  <2>4. Asked(file)' /\ \A k \in Jobs : Asked(st[k])'
    BY <1>1, <1>2, <1>3 DEF Asked, AskedDict
  <2> QED BY <2>2, <2>3, <2>4 DEF StopInv
<1>5. CASE ~BgAccount
  <2>1. pc'["bg"] = "scan" => pc["bg"] = "scan" /\ acct' = acct /\ scan' = scan
    BY <1>5 DEF MainStart, MayStart, BgTrigger, BgLoad, BgStamp, BgAccountFails, BgReconcile,
                BgSaveBegin, BgSaveEnd, BgSaveFails, LeaveBg, Leave, TypeOK, Jobs
  <2> QED BY <1>1, <1>2, <1>3, <2>1, QuietStops
<1> QED BY <1>4, <1>5

\* One iteration of the loop over pending_buys.
LEMMA ScanStops ==
    ASSUME TypeOK, TypeOK', StopInv, NEW t \in Tickers,
           \/ BgConfirmFill(t) \/ BgEscalate(t) \/ BgEscalationFails(t) \/ BgKeepWaiting(t)
    PROVE  StopInv'
<1> DEFINE q == st["bg"].pending[t].qty
<1>0. "bg" \in Jobs /\ q \in Nat /\ q <= signalled[t] /\ acct[t] \in Nat
  BY Quantities DEF Jobs, StopInv, Asked
<1>1. /\ pc' = pc /\ pc["bg"] = "scan" /\ t \in scan /\ scan' = scan \ {t} /\ acct' = acct
      /\ UNCHANGED <<resting, signalled, file>>
  BY DEF BgConfirmFill, BgEscalate, BgEscalationFails, BgKeepWaiting, Scans, fileVars
<1>2. held' = held \/ (held' = [held EXCEPT ![t] = @ + q] /\ ~Filled(t))
  BY DEF BgConfirmFill, BgEscalate, BgEscalationFails, BgKeepWaiting
<1>3. /\ \A u \in Tickers \ {t} : held'[u] = held[u]
      /\ held'[t] = held[t] \/ (held'[t] = held[t] + q /\ ~Filled(t))
  BY <1>2, Quantities DEF Holdings
<1>4. EscalationsStop'
  <2>1. ~Filled(t) => acct[t] <= q
    BY <1>0 DEF Filled
  <2>2. held[t] + resting[t] <= acct[t] + signalled[t]
    BY <1>1 DEF StopInv, SnapshotCovers
  <2>3. held'[t] = held[t] \/ held'[t] + resting[t] <= 3 * signalled[t]
    BY <1>0, <1>3, <2>1, <2>2, Quantities
  <2> QED BY <1>1, <1>3, <2>3 DEF StopInv, EscalationsStop
<1>5. SnapshotCovers' /\ RestsAsked'
  BY <1>1, <1>3, Quantities DEF StopInv, SnapshotCovers, RestsAsked
<1>6. \A k \in Jobs, u \in Tickers :
         st'[k].pending[u] = st[k].pending[u] \/ st'[k].pending[u].qty = 0
  <2>1. CASE st' = st
    BY <2>1
  <2>2. ASSUME NEW x \in Nat, NEW n \in LegCounts, Resolve(t, x, n)
        PROVE  \A k \in Jobs, u \in Tickers :
                  st'[k].pending[u] = st[k].pending[u] \/ st'[k].pending[u].qty = 0
    <3>1. PICK ids \in KnownIds(n) :
            st' = [st EXCEPT !["bg"] = [Stored(@, t, ids) EXCEPT !.pending[t] = NoPending]]
      BY <2>2 DEF Resolve
    <3>2. PICK d : d = Stored(st["bg"], t, ids)
      OBVIOUS
    <3>3. n \in 0..2
      BY LegCountsAssumption
    <3>4. d \in StateDict
      BY <1>0, <3>2, <3>3, Quantities, StoredType
    <3>5. d.pending = st["bg"].pending
      BY <1>0, <3>2, Quantities DEF Stored, StateDict
    <3>6. /\ st'["bg"] = [d EXCEPT !.pending[t] = NoPending]
          /\ \A k \in Jobs \ {"bg"} : st'[k] = st[k]
      BY <1>0, <3>1, <3>2, Quantities
    <3>7. st'["bg"].pending = [d.pending EXCEPT ![t] = NoPending]
          /\ d.pending \in [Tickers -> Pending]
      BY <3>4, <3>6 DEF StateDict
    <3>8. \A u \in Tickers : \/ st'["bg"].pending[u] = st["bg"].pending[u]
                             \/ st'["bg"].pending[u].qty = 0
      BY <3>5, <3>7 DEF NoPending
    <3> QED BY <3>6, <3>8
  <2> QED
    BY <1>0, <2>1, <2>2 DEF BgConfirmFill, BgEscalate, BgEscalationFails, BgKeepWaiting
<1>7. Asked(file)' /\ \A k \in Jobs : Asked(st[k])'
  BY <1>1, <1>6, Quantities DEF StopInv, Asked
<1> QED BY <1>4, <1>5, <1>7 DEF StopInv

\* The environment: a fill moves shares from resting to held, a leg only sells.
LEMMA EnvStops == ASSUME TypeOK, TypeOK', StopInv, EnvStep PROVE StopInv'
<1> USE DEF fileVars, brokerVars, bgVars
<1>1. ASSUME NEW t \in Tickers, LimitFills(t) PROVE StopInv'
  <2>1. PICK x \in 1..resting[t] : /\ held' = [held EXCEPT ![t] = @ + x]
                                   /\ resting' = [resting EXCEPT ![t] = @ - x]
    BY <1>1 DEF LimitFills
  <2>2. x \in Nat /\ x <= resting[t]
    BY Quantities
  <2>3. UNCHANGED <<file, st, signalled, pc, acct, scan>>
    BY <1>1 DEF LimitFills
  <2>4. Orderly
    BY <2>1, <2>2, <2>3, Quantities DEF Orderly, Holdings, StopInv, Asked
  <2> QED BY <2>4, OrderlyStops
<1>2. ASSUME NEW l \in legs, LegFires(l) PROVE StopInv'
  <2>1. l.qty \in Nat /\ l.ticker \in Tickers
    BY DEF TypeOK, Leg
  <2>2. /\ UNCHANGED <<resting, file, st, signalled, pc, acct, scan>>
        /\ \/ held' = held
           \/ l.qty <= held[l.ticker] /\ held' = [held EXCEPT ![l.ticker] = @ - l.qty]
    BY <1>2 DEF LegFires
  <2>3. Orderly
    BY <2>1, <2>2, Quantities DEF Orderly, Holdings, StopInv, Asked
  <2> QED BY <2>3, OrderlyStops
<1>3. CASE Publish
  BY <1>3, DictsAsked, QuietStops DEF Publish
<1>4. CASE Crash
  <2>1. /\ UNCHANGED <<held, resting, signalled, file>> /\ pc'["bg"] = "idle"
        /\ \A j \in Jobs : st'[j] = DefaultState
    BY <1>4 DEF Crash, Jobs
  <2> QED BY <2>1, DictsAsked, QuietStops
<1>5. ASSUME NEW t \in Tickers, HourPasses(t) PROVE StopInv'
  <2>1. \A s \in StateDict, u \in Tickers : Aged(s, t).pending[u].qty = s.pending[u].qty
    BY DEF Aged, StateDict, Pending
  <2>2. AskedDict(file') /\ \A j \in Jobs : AskedDict(st'[j])
    BY <1>5, <2>1, DictsAsked, Quantities DEF HourPasses, AskedDict
  <2> QED BY <1>5, <2>2, QuietStops DEF HourPasses
<1> QED BY <1>1, <1>2, <1>3, <1>4, <1>5 DEF EnvStep

\* However often an escalation fails, reaches the broker late or is forgotten by a
\* crash, a lost save or an overlapping job, what is held and on order stays within
\* three times what was asked for.
THEOREM EscalationsEnd == Spec => []EscalationsStop
<1>1. Init => StopInv
  BY DEF Init, StopInv, RestsAsked, SnapshotCovers, EscalationsStop, Asked, DefaultState,
         NoPending, Nothing, Jobs
<1>2. TypeOK /\ TypeOK' /\ StopInv /\ [Next]_vars => StopInv'
  <2> SUFFICES ASSUME TypeOK, TypeOK', StopInv, [Next]_vars PROVE StopInv'
    OBVIOUS
  <2>1. ASSUME NEW j \in Jobs, CycleStep(j) PROVE StopInv'
    BY <2>1, CycleStops, ExecuteStops DEF CycleStep
  <2>2. CASE BgStep
    BY <2>2, BgStops, ScanStops DEF BgStep
  <2>3. CASE UNCHANGED vars
    BY <2>3 DEF vars, StopInv, RestsAsked, SnapshotCovers, EscalationsStop, Asked
  <2> QED BY <2>1, <2>2, <2>3, BgStops, EnvStops DEF Next
<1>3. StopInv => EscalationsStop
  BY DEF StopInv
<1> QED BY <1>1, <1>2, <1>3, TypeCorrect, PTL DEF Spec

=============================================================================
