----------------------- MODULE DecisionEngineRunsProofs -----------------------
(***************************************************************************)
(* Theorems about the runs of DecisionEngine and the stamps on record:     *)
(* which runs are executed, how often, and what last_run_id says of them.  *)
(* ExitsReached holds under overlapping jobs, crashes and failed saves;    *)
(* StampsGrow with crashes and failed saves, when jobs do not overlap and  *)
(* runs are published between them; ExecutedOnce when, besides, the state  *)
(* is saved; LegsSurvive when jobs do not overlap and the broker answers.  *)
(***************************************************************************)
EXTENDS DecisionEngineProofs

-----------------------------------------------------------------------------
(* The inductive invariants, in named parts *)

\* No two jobs are under way, and run_once runs cycles only.
Alone ==
    /\ pc["main"] \in {"idle"} \cup CyclePCs
    /\ pc["main"] = "idle" \/ pc["bg"] = "idle"

\* Nothing is on record, nor executed, that TDash has not published.
Known ==
    /\ file.last_run <= latest /\ peek <= latest
    /\ \A j \in Jobs : st[j].last_run <= latest /\ run[j] <= latest
    /\ \A r \in Runs : r > latest => execs[r] = 0

\* A job's copy is about to be written with the run the job has executed.
Stamped == \A j \in Jobs : pc[j] = "write" => st[j].last_run = run[j]

\* While a cycle executes a run, and until its guard, that run is the newest.
Current ==
    /\ \A j \in Jobs :
          pc[j] \in {"signals", "account", "exec", "write"} => run[j] = latest /\ latest # 0
    /\ pc["bg"] \in CyclePCs \cup {"stamp"} => peek = latest

\* The copy background_check works on is that of the file, or the blank one of a torn
\* file, with which there is nothing to do.
Blank(s) == \A t \in Tickers : s.pending[t].qty = 0 /\ s.pairs[t] = {}
Copied ==
    /\ pc["bg"] \notin {"scan", "bgSave", "bgWrite"} => ~changed /\ scan = {}
    /\ pc["bg"] \in {"bgAccount", "scan"} =>
          \/ Blank(st["bg"]) /\ ~changed /\ scan = {}
          \/ /\ st["bg"].last_run = file.last_run
             /\ changed \/ \A t \in Tickers : st["bg"].pending[t].qty = file.pending[t].qty

\* A stamp that background_check is about to write is no older than the one on file.
NoOlder == pc["bg"] \in {"bgSave", "bgWrite"} => st["bg"].last_run >= file.last_run

\* A run that was executed is on record as soon as its cycle has saved, and no run is
\* executed that is.
Once ==
    /\ RunOnce
    /\ torn => \E j \in Jobs : pc[j] \in {"write", "bgWrite"}
    /\ \A j \in Jobs : pc[j] \in {"signals", "account"} => execs[latest] = 0
    /\ (latest # 0 /\ execs[latest] > 0 /\ \A j \in Jobs : pc[j] \notin {"exec", "write"})
       => file.last_run = latest

\* Whatever is on record of a newest run that has an exit, in the file or in a copy,
\* about to be stamped or being executed, that run has been through an execution.
Executed(r) == r = latest => execs[latest] > 0
Reached ==
    /\ \A j \in Jobs : pc[j] \in {"account", "exec", "write"} /\ run[j] = latest => want[j] = sigs
    /\ pc["bg"] \in {"signals", "account", "exec", "write"} => peek <= run["bg"]
    /\ \A j \in Jobs : pc[j] \in {"signals", "account", "exec", "write"} => run[j] # 0
    /\ (latest # 0 /\ Exits(sigs) # {}) =>
          /\ Executed(file.last_run)
          /\ \A j \in Jobs : /\ Executed(st[j].last_run)
                             /\ pc[j] \in {"exec", "write"} => Executed(run[j])
          /\ pc["bg"] = "stamp" => Executed(peek)

-----------------------------------------------------------------------------
(* What the steps do to the variables of these invariants *)

\* The faults of a behaviour do not change.
LEMMA FaultsSame == [Next]_vars => faults' = faults
BY DEF Next, MainStart, CycleStep, CycleLoad, CycleSignals, CycleGivesUp, CycleSelect, ExecuteSell,
       ExecuteMarketBuy, ExecuteLimitBuy, ExecuteFails, Executes, SaveBegin, SaveEnd,
       SaveFails, BgStep, BgTrigger, BgLoad, BgStamp, BgAccount, BgAccountFails,
       BgConfirmFill, BgEscalate, BgEscalationFails, BgKeepWaiting, Scans, BgReconcile,
       BgSaveBegin, BgSaveEnd, BgSaveFails, EnvStep, Publish, HourPasses, LimitFills, LegFires,
       Crash, envVars, vars

\* Job j goes from one place to another, and the other job stays as it is.
Moves(j, from, to) ==
    /\ pc[j] = from /\ pc'[j] = to
    /\ \A k \in Jobs \ {j} : /\ pc'[k] = pc[k] /\ st'[k] = st[k]
                             /\ run'[k] = run[k] /\ want'[k] = want[k]

SameRun(j) == run'[j] = run[j] /\ want'[j] = want[j]
SameStamp(j) == SameRun(j) /\ st'[j].last_run = st[j].last_run
Returned(j) == st'[j] = DefaultState /\ run'[j] = 0 /\ want'[j] = NoSignals

\* What a step of a cycle may do.
CycleMoves(j) ==
    /\ UNCHANGED <<envVars, bgVars>>
    /\ \/ /\ Moves(j, "cycle", "signals") /\ NewRun
          /\ st'[j] = Loaded /\ run'[j] = latest
          /\ UNCHANGED <<fileVars, execs>>
       \/ /\ Moves(j, "signals", "account") /\ st' = st
          /\ run'[j] = run[j] /\ want'[j] = sigs
          /\ UNCHANGED <<fileVars, execs>>
       \/ /\ \/ Moves(j, "cycle", AfterCycle(j)) /\ (~NewRun \/ "broker" \in faults)
             \/ /\ Moves(j, "signals", AfterCycle(j))
                /\ Exits(sigs) = {} \/ "broker" \in faults
             \/ /\ Moves(j, "account", AfterCycle(j))
                /\ Exits(want[j]) = {} \/ "broker" \in faults
             \/ Moves(j, "exec", AfterCycle(j)) /\ "disk" \in faults
          /\ Returned(j) /\ UNCHANGED <<fileVars, execs>>
       \/ /\ Moves(j, "account", "exec") /\ SameStamp(j)
          /\ execs' = [execs EXCEPT ![run[j]] = @ + 1] /\ UNCHANGED fileVars
       \/ Moves(j, "exec", "exec") /\ SameStamp(j) /\ UNCHANGED <<fileVars, execs>>
       \/ /\ Moves(j, "exec", "write") /\ SameRun(j) /\ st'[j].last_run = run[j]
          /\ file' = file /\ torn' = TRUE /\ execs' = execs
       \/ /\ Moves(j, "write", AfterCycle(j)) /\ Returned(j)
          /\ file' = st[j] /\ torn' = FALSE /\ execs' = execs

\* Job j is moved by an update of the job's own entries.
LEMMA MovesOne ==
    ASSUME TypeOK, NEW j \in Jobs, NEW from, NEW to, pc[j] = from,
           pc' = [pc EXCEPT ![j] = to],
           \A k \in Jobs \ {j} : /\ st'[k] = st[k] /\ run'[k] = run[k] /\ want'[k] = want[k]
    PROVE  Moves(j, from, to)
BY DEF Moves, TypeOK

LEMMA LeaveMoves ==
    ASSUME TypeOK, NEW j \in Jobs, NEW to, Leave(j, to)
    PROVE  Moves(j, pc[j], to) /\ Returned(j)
BY DEF Leave, Moves, Returned, TypeOK

LEMMA CycleMovesOnly == ASSUME TypeOK, NEW j \in Jobs, CycleStep(j) PROVE CycleMoves(j)
<1>1. st \in [Jobs -> StateDict] /\ Loaded \in StateDict
  BY LoadedType DEF TypeOK
<1>2. CASE CycleLoad(j)
  <2>0. pc[j] = "cycle" /\ UNCHANGED <<fileVars, envVars, bgVars, execs>>
    BY <1>2 DEF CycleLoad
  <2>1. CASE Leave(j, AfterCycle(j)) /\ (~NewRun \/ "broker" \in faults)
    BY <2>0, <2>1, LeaveMoves DEF CycleMoves
  <2>2. CASE /\ NewRun /\ pc' = [pc EXCEPT ![j] = "signals"]
             /\ st' = [st EXCEPT ![j] = Loaded]
             /\ run' = [run EXCEPT ![j] = latest] /\ want' = want
    <3>1. Moves(j, "cycle", "signals") /\ st'[j] = Loaded /\ run'[j] = latest
      BY <2>0, <2>2, MovesOne DEF TypeOK
    <3> QED BY <2>0, <2>2, <3>1 DEF CycleMoves
  <2> QED BY <1>2, <2>1, <2>2 DEF CycleLoad
<1>9. CASE CycleSignals(j)
  <2>0. pc[j] = "signals" /\ UNCHANGED <<fileVars, envVars, bgVars, execs>>
    BY <1>9 DEF CycleSignals
  <2>1. CASE Leave(j, AfterCycle(j)) /\ (~(\E t \in Tickers : sigs[t].action # "HOLD")
                                         \/ "broker" \in faults)
    <3>1. ~(\E t \in Tickers : sigs[t].action # "HOLD") => Exits(sigs) = {}
      BY DEF Exits
    <3> QED BY <2>0, <2>1, <3>1, LeaveMoves DEF CycleMoves
  <2>2. CASE /\ pc' = [pc EXCEPT ![j] = "account"] /\ st' = st /\ run' = run
             /\ want' = [want EXCEPT ![j] = sigs]
    <3>1. Moves(j, "signals", "account") /\ want'[j] = sigs
      BY <2>0, <2>2, MovesOne DEF TypeOK
    <3> QED BY <2>0, <2>2, <3>1 DEF CycleMoves
  <2> QED BY <1>9, <2>1, <2>2 DEF CycleSignals
<1>3. CASE CycleGivesUp(j)
  BY <1>3, LeaveMoves DEF CycleGivesUp, NothingSelected, CycleMoves
<1>4. CASE CycleSelect(j)
  <2>1. /\ pc[j] = "account" /\ pc' = [pc EXCEPT ![j] = "exec"]
        /\ st' = [st EXCEPT ![j] = Reconciled(st[j], held)] /\ UNCHANGED <<run, want>>
        /\ execs' = [execs EXCEPT ![run[j]] = @ + 1]
        /\ UNCHANGED <<fileVars, envVars, bgVars>>
    BY <1>4 DEF CycleSelect
  <2>2. st'[j].last_run = st[j].last_run
    BY <1>1, <2>1 DEF Reconciled, StateDict
  <2> QED BY <2>1, <2>2, <1>1, MovesOne DEF CycleMoves, SameStamp, SameRun
<1>5. ASSUME NEW t \in Tickers, \/ ExecuteSell(j, t) \/ ExecuteMarketBuy(j, t)
                                \/ ExecuteLimitBuy(j, t) \/ ExecuteFails(j, t)
      PROVE  CycleMoves(j)
  <2>1. /\ pc[j] = "exec" /\ pc' = pc /\ UNCHANGED <<run, want, fileVars, envVars, bgVars, execs>>
    BY <1>5 DEF ExecuteSell, ExecuteMarketBuy, ExecuteLimitBuy, ExecuteFails, Executes
  <2>2. \/ st' = st
        \/ \E n : st' = [st EXCEPT ![j] = Stored(@, t, n)]
        \/ \E p : st' = [st EXCEPT ![j].pending[t] = p]
    BY <1>5 DEF ExecuteSell, ExecuteMarketBuy, ExecuteLimitBuy, ExecuteFails
  <2>3. \A k \in Jobs : st'[k].last_run = st[k].last_run /\ (k # j => st'[k] = st[k])
    BY <1>1, <2>2 DEF Stored, StateDict
  <2>4. Moves(j, "exec", "exec")
    BY <2>1, <2>3 DEF Moves
  <2> QED BY <2>1, <2>3, <2>4 DEF CycleMoves, SameStamp, SameRun
<1>6. CASE SaveBegin(j)
  <2>1. /\ pc[j] = "exec" /\ pc' = [pc EXCEPT ![j] = "write"]
        /\ st' = [st EXCEPT ![j].last_run = run[j]] /\ torn' = TRUE
        /\ UNCHANGED <<run, want, file, envVars, bgVars, execs>>
    BY <1>6 DEF SaveBegin
  <2>2. st'[j].last_run = run[j] /\ \A k \in Jobs \ {j} : st'[k] = st[k]
    BY <1>1, <2>1 DEF StateDict
  <2> QED BY <2>1, <2>2, MovesOne DEF CycleMoves, SameRun
<1>7. CASE SaveEnd(j)
  BY <1>7, LeaveMoves DEF SaveEnd, CycleMoves
<1>8. CASE SaveFails(j)
  BY <1>8, LeaveMoves DEF SaveFails, CycleMoves
<1> QED BY <1>2, <1>3, <1>4, <1>5, <1>6, <1>7, <1>8, <1>9 DEF CycleStep

\* What a step of a background check may do, outside the cycle it calls.
BgMoves ==
    /\ UNCHANGED <<envVars, execs>>
    /\ \/ /\ MayStart("bg") /\ NewRun /\ Moves("bg", "idle", "cycle")
          /\ SameStamp("bg") /\ peek' = latest /\ UNCHANGED <<fileVars, scan, changed>>
       \/ /\ MayStart("bg") /\ Moves("bg", "idle", "bgAccount") /\ SameRun("bg")
          /\ st'["bg"] = Loaded /\ UNCHANGED <<fileVars, bgVars>>
       \/ /\ Moves("bg", "stamp", "bgSave") /\ SameRun("bg")
          /\ st'["bg"] = [Loaded EXCEPT !.last_run = peek]
          /\ UNCHANGED <<fileVars, bgVars>>
       \/ /\ \/ Moves("bg", "stamp", "idle") /\ Loaded.last_run = peek
             \/ Moves("bg", "bgAccount", "idle") \/ Moves("bg", "scan", "idle")
             \/ Moves("bg", "bgSave", "idle") /\ "disk" \in faults
          /\ Returned("bg") /\ peek' = 0 /\ scan' = {} /\ changed' = FALSE
          /\ UNCHANGED fileVars
       \/ /\ Moves("bg", "bgAccount", "scan") /\ SameRun("bg") /\ st' = st
          /\ scan' = {t \in Tickers : st["bg"].pending[t].qty > 0}
          /\ UNCHANGED <<fileVars, peek, changed>>
       \/ /\ Moves("bg", "scan", "scan") /\ SameStamp("bg") /\ scan # {}
          /\ \/ changed'
             \/ st' = st /\ changed' = changed
          /\ scan' \subseteq scan /\ UNCHANGED <<fileVars, peek>>
       \/ /\ Moves("bg", "scan", "bgSave") /\ SameStamp("bg")
          /\ changed \/ ~Blank(st["bg"])
          /\ UNCHANGED <<fileVars, bgVars>>
       \/ /\ Moves("bg", "bgSave", "bgWrite") /\ SameRun("bg") /\ st' = st
          /\ file' = file /\ torn' = TRUE /\ UNCHANGED bgVars
       \/ /\ Moves("bg", "bgWrite", "idle") /\ Returned("bg")
          /\ peek' = 0 /\ scan' = {} /\ changed' = FALSE
          /\ file' = st["bg"] /\ torn' = FALSE

\* With nothing pending and no pairs there is nothing to forget.
LEMMA NothingToForget ==
    ASSUME NEW s \in StateDict, Blank(s), NEW a PROVE Reconciled(s, a) = s
<1>1. \A t \in Tickers : s.pairs[t] = {}
  BY DEF Blank
<1>2. s.pairs = [t \in Tickers |-> IF t \in Gone(a) THEN {} ELSE s.pairs[t]]
  BY <1>1 DEF StateDict
<1>3. s = [last_run |-> s.last_run, pending |-> s.pending, pairs |-> s.pairs]
  BY DEF StateDict
<1> QED BY <1>2, <1>3 DEF Reconciled

LEMMA LeaveBgMoves ==
    ASSUME TypeOK, LeaveBg("idle")
    PROVE  /\ Moves("bg", pc["bg"], "idle") /\ Returned("bg")
           /\ peek' = 0 /\ scan' = {} /\ changed' = FALSE
<1>1. "bg" \in Jobs /\ Leave("bg", "idle") /\ scan' = {} /\ changed' = FALSE /\ peek' = 0
  BY DEF Jobs, LeaveBg
<1>2. Moves("bg", pc["bg"], "idle") /\ Returned("bg")
  BY <1>1, LeaveMoves
<1> QED BY <1>1, <1>2

LEMMA BgMovesOnly == ASSUME TypeOK, BgStep PROVE BgMoves
<1>1. /\ "bg" \in Jobs /\ st \in [Jobs -> StateDict] /\ st["bg"] \in StateDict
      /\ Loaded \in StateDict
  BY LoadedType DEF TypeOK, Jobs
<1>2. CASE BgTrigger
  <2>1. /\ MayStart("bg") /\ NewRun /\ pc["bg"] = "idle" /\ pc' = [pc EXCEPT !["bg"] = "cycle"]
        /\ peek' = latest /\ UNCHANGED <<st, run, want, fileVars, envVars, scan, changed, execs>>
    BY <1>2 DEF BgTrigger, MayStart
  <2>2. Moves("bg", "idle", "cycle")
    BY <1>1, <2>1, MovesOne
  <2> QED BY <2>1, <2>2 DEF BgMoves, SameStamp, SameRun
<1>3. CASE BgLoad
  <2>1. /\ MayStart("bg") /\ pc["bg"] = "idle" /\ pc' = [pc EXCEPT !["bg"] = "bgAccount"]
        /\ st' = [st EXCEPT !["bg"] = Loaded]
        /\ UNCHANGED <<run, want, fileVars, envVars, bgVars, execs>>
    BY <1>3 DEF BgLoad, MayStart
  <2>2. Moves("bg", "idle", "bgAccount") /\ st'["bg"] = Loaded
    BY <1>1, <2>1, MovesOne
  <2> QED BY <2>1, <2>2 DEF BgMoves, SameRun
<1>4. CASE BgStamp
  <2>1. CASE LeaveBg("idle") /\ Loaded.last_run = peek
    BY <1>4, <2>1, LeaveBgMoves DEF BgStamp, BgMoves
  <2>2. CASE ~(LeaveBg("idle") /\ Loaded.last_run = peek)
    <3>1. /\ pc["bg"] = "stamp" /\ pc' = [pc EXCEPT !["bg"] = "bgSave"]
          /\ st' = [st EXCEPT !["bg"] = [Loaded EXCEPT !.last_run = peek]]
          /\ UNCHANGED <<run, want, fileVars, envVars, bgVars, execs>>
      BY <1>4, <2>2 DEF BgStamp
    <3>2. Moves("bg", "stamp", "bgSave") /\ st'["bg"] = [Loaded EXCEPT !.last_run = peek]
      BY <1>1, <3>1, MovesOne
    <3> QED BY <3>1, <3>2 DEF BgMoves, SameRun
  <2> QED BY <2>1, <2>2
<1>5. CASE BgAccount
  <2>1. /\ pc["bg"] = "bgAccount" /\ pc' = [pc EXCEPT !["bg"] = "scan"]
        /\ scan' = {t \in Tickers : st["bg"].pending[t].qty > 0}
        /\ UNCHANGED <<st, run, want, fileVars, envVars, peek, changed, execs>>
    BY <1>5 DEF BgAccount
  <2>2. Moves("bg", "bgAccount", "scan")
    BY <1>1, <2>1, MovesOne
  <2> QED BY <2>1, <2>2 DEF BgMoves, SameRun
<1>6. CASE BgAccountFails
  BY <1>6, LeaveBgMoves DEF BgAccountFails, BgMoves
<1>7. ASSUME NEW t \in Tickers, \/ BgConfirmFill(t) \/ BgEscalate(t)
                                \/ BgEscalationFails(t) \/ BgKeepWaiting(t)
      PROVE  BgMoves
  <2>1. /\ pc["bg"] = "scan" /\ pc' = pc /\ t \in scan /\ scan' = scan \ {t}
        /\ UNCHANGED <<run, want, fileVars, envVars, peek, execs>>
    BY <1>7 DEF BgConfirmFill, BgEscalate, BgEscalationFails, BgKeepWaiting, Scans
  <2>2. \/ st' = st /\ changed' = changed
        \/ /\ changed' = TRUE
           /\ \E n : st' = [st EXCEPT !["bg"] = [Stored(@, t, n) EXCEPT !.pending[t] = NoPending]]
    BY <1>7 DEF BgConfirmFill, BgEscalate, BgEscalationFails, BgKeepWaiting, Resolve
  <2>3. /\ \A k \in Jobs \ {"bg"} : st'[k] = st[k]
        /\ st'["bg"].last_run = st["bg"].last_run
    <3>1. CASE st' = st
      BY <3>1
    <3>2. ASSUME NEW n, st' = [st EXCEPT !["bg"] = [Stored(@, t, n) EXCEPT !.pending[t] = NoPending]]
          PROVE  /\ \A k \in Jobs \ {"bg"} : st'[k] = st[k]
                 /\ st'["bg"].last_run = st["bg"].last_run
      BY <1>1, <3>2 DEF Stored, StateDict
    <3> QED BY <2>2, <3>1, <3>2
  <2>4. Moves("bg", "scan", "scan")
    BY <2>1, <2>3 DEF Moves
  <2> QED BY <2>1, <2>2, <2>3, <2>4 DEF BgMoves, SameStamp, SameRun
<1>8. CASE BgReconcile
  <2>1. CASE LeaveBg("idle")
    BY <1>8, <2>1, LeaveBgMoves DEF BgReconcile, BgMoves
  <2>2. CASE ~LeaveBg("idle")
    <3>1. PICK a : /\ NeedsSave(a) /\ st' = [st EXCEPT !["bg"] = Reconciled(st["bg"], a)]
                   /\ pc["bg"] = "scan" /\ pc' = [pc EXCEPT !["bg"] = "bgSave"]
                   /\ UNCHANGED <<run, want, fileVars, envVars, bgVars, execs>>
      BY <1>8, <2>2 DEF BgReconcile
    <3>2. st'["bg"].last_run = st["bg"].last_run /\ \A k \in Jobs \ {"bg"} : st'[k] = st[k]
      BY <1>1, <3>1 DEF Reconciled, StateDict
    <3>3. changed \/ ~Blank(st["bg"])
      BY <1>1, <3>1, NothingToForget DEF NeedsSave
    <3>4. Moves("bg", "scan", "bgSave")
      BY <1>1, <3>1, <3>2, MovesOne
    <3> QED BY <3>1, <3>2, <3>3, <3>4 DEF BgMoves, SameStamp, SameRun
  <2> QED BY <2>1, <2>2
<1>9. CASE BgSaveBegin
  <2>1. /\ pc["bg"] = "bgSave" /\ pc' = [pc EXCEPT !["bg"] = "bgWrite"] /\ torn' = TRUE
        /\ UNCHANGED <<st, run, want, file, envVars, bgVars, execs>>
    BY <1>9 DEF BgSaveBegin
  <2>2. Moves("bg", "bgSave", "bgWrite")
    BY <1>1, <2>1, MovesOne
  <2> QED BY <2>1, <2>2 DEF BgMoves, SameRun
<1>10. CASE BgSaveEnd
  BY <1>10, LeaveBgMoves DEF BgSaveEnd, BgMoves
<1>11. CASE BgSaveFails
  BY <1>11, LeaveBgMoves DEF BgSaveFails, BgMoves
<1> QED
  BY <1>2, <1>3, <1>4, <1>5, <1>6, <1>7, <1>8, <1>9, <1>10, <1>11 DEF BgStep

\* What the start of run_once does.
MainMoves ==
    /\ MayStart("main") /\ Moves("main", "idle", "cycle") /\ st' = st /\ SameRun("main")
    /\ UNCHANGED <<fileVars, envVars, bgVars, execs>>

LEMMA MainMovesOnly == ASSUME TypeOK, MainStart PROVE MainMoves
<1>1. /\ MayStart("main") /\ pc["main"] = "idle" /\ pc' = [pc EXCEPT !["main"] = "cycle"]
      /\ UNCHANGED <<st, run, want, fileVars, envVars, bgVars, execs>>
  BY DEF MainStart, MayStart
<1>2. "main" \in Jobs
  BY DEF Jobs
<1>3. Moves("main", "idle", "cycle")
  BY <1>1, <1>2, MovesOne
<1> QED BY <1>1, <1>3 DEF MainMoves, SameRun

\* The dict s' is s but for the age of an order.
Older(s, t) == t.last_run = s.last_run /\ t.pairs = s.pairs
               /\ \A u \in Tickers : t.pending[u].qty = s.pending[u].qty

\* What TDash, time, the market and a crash do.
EnvMoves ==
    /\ faults' = faults /\ execs' = execs /\ torn' = torn
    /\ \/ /\ latest' = latest + 1 /\ latest < MaxRuns
          /\ "midpublish" \in faults \/ \A j \in Jobs : pc[j] = "idle"
          /\ UNCHANGED <<file, bgVars, pc, st, run, want>>
       \/ /\ Older(file, file') /\ \A j \in Jobs : Older(st[j], st'[j])
          /\ UNCHANGED <<latest, sigs, bgVars, pc, run, want>>
       \/ /\ "crash" \in faults /\ UNCHANGED <<file, latest, sigs>>
          /\ \A j \in Jobs : pc'[j] = "idle" /\ st'[j] = DefaultState /\ run'[j] = 0
          /\ peek' = 0 /\ scan' = {} /\ changed' = FALSE

LEMMA AgedOlder ==
    ASSUME NEW s \in StateDict, NEW t \in Tickers PROVE Older(s, Aged(s, t))
BY DEF Older, Aged, StateDict, Pending

LEMMA EnvMovesOnly == ASSUME TypeOK, EnvStep PROVE EnvMoves
<1>1. CASE Publish
  BY <1>1 DEF Publish, EnvMoves, fileVars
<1>2. CASE Crash
  BY <1>2 DEF Crash, EnvMoves, fileVars, envVars
<1>3. ASSUME NEW t \in Tickers, HourPasses(t) PROVE EnvMoves
  <2>1. file \in StateDict /\ \A j \in Jobs : st[j] \in StateDict
    BY DEF TypeOK
  <2>2. Older(file, file') /\ \A j \in Jobs : Older(st[j], st'[j])
    BY <1>3, <2>1, AgedOlder DEF HourPasses
  <2> QED BY <1>3, <2>2 DEF HourPasses, EnvMoves, envVars
<1>4. ASSUME UNCHANGED <<fileVars, envVars, bgVars, pc, st, run, want, execs>> PROVE EnvMoves
  <2>1. Older(file, file') /\ \A j \in Jobs : Older(st[j], st'[j])
    BY <1>4 DEF Older, fileVars
  <2> QED BY <1>4, <2>1 DEF EnvMoves, fileVars, envVars
<1> QED BY <1>1, <1>2, <1>3, <1>4 DEF EnvStep, LimitFills, LegFires

\* Every step is one of these moves; a step that changes nothing is as good as an hour.
LEMMA Steps ==
    ASSUME TypeOK, [Next]_vars
    PROVE  (\E j \in Jobs : CycleMoves(j)) \/ BgMoves \/ MainMoves \/ EnvMoves
<1>1. CASE UNCHANGED vars
  <2>1. Older(file, file') /\ \A j \in Jobs : Older(st[j], st'[j])
    BY <1>1 DEF Older, vars
  <2> QED BY <1>1, <2>1 DEF EnvMoves, vars, bgVars
<1> QED BY <1>1, CycleMovesOnly, BgMovesOnly, MainMovesOnly, EnvMovesOnly DEF Next

-----------------------------------------------------------------------------
(* Parts that hold under every fault *)

\* The numbers of runs that the state holds.
LEMMA RunNumbers ==
    ASSUME TypeOK
    PROVE  /\ latest \in Nat /\ peek \in Nat /\ file.last_run \in Nat
           /\ Loaded.last_run \in {0, file.last_run} /\ DefaultState.last_run = 0
           /\ st["main"].last_run \in Nat /\ st["bg"].last_run \in Nat
           /\ run["main"] \in Nat /\ run["bg"] \in Nat
           /\ execs \in [Runs -> Nat] /\ pc \in [Jobs -> PCs]
           /\ Loaded \in StateDict /\ MaxRuns \in Nat
<1>1. file \in StateDict /\ st["main"] \in StateDict /\ st["bg"] \in StateDict
  BY DEF TypeOK, Jobs
<1> QED
  BY <1>1, LoadedType, BoundsAssumption DEF TypeOK, StateDict, Loaded, DefaultState, PCs, Jobs

LEMMA KnownStep == ASSUME TypeOK, Known, Stamped, [Next]_vars PROVE Known' /\ Stamped'
<1> USE RunNumbers
<1>1. ASSUME NEW j \in Jobs, CycleMoves(j) PROVE Known' /\ Stamped'
  <2>1. /\ latest' = latest /\ peek' = peek
        /\ \A k \in Jobs \ {j} : pc'[k] = pc[k] /\ st'[k] = st[k] /\ run'[k] = run[k]
    BY <1>1 DEF CycleMoves, Moves, envVars, bgVars
  <2>2. /\ file'.last_run <= latest /\ st'[j].last_run <= latest /\ run'[j] <= latest
        /\ pc'[j] = "write" => st'[j].last_run = run'[j]
    BY <1>1 DEF CycleMoves, Moves, SameStamp, SameRun, Returned, Known, fileVars, AfterCycle, Jobs
  <2>3. execs' = execs \/ execs' = [execs EXCEPT ![run[j]] = @ + 1]
    BY <1>1 DEF CycleMoves
  <2>4. ASSUME NEW r \in Runs, r > latest PROVE execs'[r] = 0
    <3>1. r # run[j] /\ execs[r] = 0
      BY <2>4 DEF Known, Runs, Jobs
    <3>2. execs'[r] = execs[r]
      BY <2>3, <3>1
    <3> QED BY <3>1, <3>2
  <2> QED BY <2>1, <2>2, <2>4 DEF Known, Stamped
<1>2. CASE BgMoves
  <2>1. /\ latest' = latest /\ execs' = execs
        /\ \A k \in Jobs \ {"bg"} : pc'[k] = pc[k] /\ st'[k] = st[k] /\ run'[k] = run[k]
    BY <1>2 DEF BgMoves, Moves, envVars
  <2>2. [Loaded EXCEPT !.last_run = peek].last_run = peek
    BY DEF StateDict
  <2>3. st'["bg"].last_run \in {st["bg"].last_run, Loaded.last_run, peek, 0}
    BY <1>2, <2>2 DEF BgMoves, SameStamp, Returned
  <2>4. /\ file'.last_run \in {file.last_run, st["bg"].last_run}
        /\ run'["bg"] \in {run["bg"], 0} /\ peek' \in {peek, latest, 0} /\ pc'["bg"] # "write"
    BY <1>2 DEF BgMoves, Moves, SameStamp, SameRun, Returned, fileVars, bgVars
  <2> QED BY <2>1, <2>3, <2>4 DEF Known, Stamped, Jobs
<1>3. CASE MainMoves
  BY <1>3 DEF MainMoves, Moves, SameRun, Known, Stamped, fileVars, envVars, bgVars, Jobs
<1>4. CASE EnvMoves
  BY <1>4 DEF EnvMoves, Older, Known, Stamped, bgVars, Runs, Jobs
<1> QED BY <1>1, <1>2, <1>3, <1>4, Steps

-----------------------------------------------------------------------------
(* ExitsNotSkipped, whatever fails but the calls to TDash and the broker *)

\* A cycle keeps Reached: it selects an exit and so executes, or was not needed.
LEMMA ReachedCycle ==
    ASSUME TypeOK, Known, Stamped, Reached, "broker" \notin faults,
           NEW j \in Jobs, CycleMoves(j)
    PROVE  Reached'
<1> USE RunNumbers DEF Jobs
<1>1. /\ latest' = latest /\ sigs' = sigs /\ peek' = peek
      /\ \A k \in Jobs \ {j} : /\ pc'[k] = pc[k] /\ st'[k] = st[k]
                               /\ run'[k] = run[k] /\ want'[k] = want[k]
  BY DEF CycleMoves, Moves, envVars, bgVars
<1>2. AfterCycle(j) = IF j = "main" THEN "idle" ELSE "stamp"
  BY DEF AfterCycle
<1>3. /\ pc'[j] \in {"signals", "account", "exec", "write"} => run'[j] # 0
      /\ pc'[j] \in {"account", "exec", "write"} => (run'[j] = latest => want'[j] = sigs)
      /\ j = "bg" /\ pc'["bg"] \in {"signals", "account", "exec", "write"} => peek <= run'["bg"]
  BY <1>2 DEF CycleMoves, Moves, SameStamp, SameRun, NewRun, Reached, Known
<1>4. ASSUME latest # 0, Exits(sigs) # {}
      PROVE  /\ Executed(file.last_run)'
             /\ \A k \in Jobs : /\ Executed(st[k].last_run)'
                                /\ pc'[k] \in {"exec", "write"} => Executed(run[k])'
             /\ pc'["bg"] = "stamp" => Executed(peek)'
  <2>1. latest \in Runs /\ execs[latest] \in Nat
    BY <1>4 DEF TypeOK, Runs
  <2>2. /\ execs'[latest] \in Nat /\ execs'[latest] >= execs[latest]
        /\ execs' # execs => pc[j] = "account" /\ pc'[j] = "exec"
                             /\ (run[j] = latest => execs'[latest] > 0)
    <3>1. CASE execs' = execs
      BY <2>1, <3>1
    <3>2. CASE execs' = [execs EXCEPT ![run[j]] = @ + 1] /\ pc[j] = "account" /\ pc'[j] = "exec"
      <4>1. execs'[latest] = IF run[j] = latest THEN execs[latest] + 1 ELSE execs[latest]
        BY <2>1, <3>2
      <4> QED BY <2>1, <3>2, <4>1
    <3> QED BY <3>1, <3>2 DEF CycleMoves, Moves
  <2>3. /\ file.last_run = latest => execs[latest] > 0
        /\ \A k \in Jobs : /\ st[k].last_run = latest => execs[latest] > 0
                           /\ pc[k] \in {"exec", "write"} /\ run[k] = latest => execs[latest] > 0
        /\ pc["bg"] = "stamp" /\ peek = latest => execs[latest] > 0
    BY <1>4 DEF Reached, Executed
  <2>4. file'.last_run = latest => execs'[latest] > 0
    BY <2>2, <2>3, <2>1 DEF CycleMoves, fileVars
  <2>5. st'[j].last_run = latest => execs'[latest] > 0
    BY <2>2, <2>3, <2>1, <1>4 DEF CycleMoves, Moves, SameStamp, Returned
  <2>6. pc'[j] \in {"exec", "write"} /\ run'[j] = latest => execs'[latest] > 0
    BY <1>2, <2>2, <2>3, <2>1 DEF CycleMoves, Moves, SameStamp, SameRun
  <2>7. j = "bg" /\ pc'[j] = "stamp" /\ peek = latest => execs'[latest] > 0
    <3> SUFFICES ASSUME j = "bg", pc'[j] = "stamp", peek = latest PROVE execs'[latest] > 0
      OBVIOUS
    <3>1. CASE Moves(j, "cycle", AfterCycle(j)) /\ ~NewRun
      BY <1>4, <2>1, <2>2, <2>3, <3>1 DEF NewRun
    <3>2. CASE Moves(j, "account", AfterCycle(j)) /\ Exits(want[j]) = {}
      <4>1. peek <= run[j] /\ run[j] <= latest /\ (run[j] = latest => want[j] = sigs)
        BY <3>2 DEF Moves, Reached, Known
      <4> QED BY <1>4, <3>2, <4>1
    <3>3. CASE Moves(j, "exec", AfterCycle(j)) \/ Moves(j, "write", AfterCycle(j))
      <4>1. peek <= run[j] /\ run[j] <= latest /\ pc[j] \in {"exec", "write"}
        BY <3>3 DEF Moves, Reached, Known
      <4> QED BY <4>1, <2>1, <2>2, <2>3
    <3>4. CASE Moves(j, "signals", AfterCycle(j)) /\ Exits(sigs) = {}
      BY <1>4, <3>4
    <3> QED BY <3>1, <3>2, <3>3, <3>4 DEF CycleMoves, Moves
  <2>8. execs[latest] > 0 => execs'[latest] > 0
    BY <2>1, <2>2
  <2>9. ASSUME NEW k \in Jobs
        PROVE  /\ st'[k].last_run = latest => execs'[latest] > 0
               /\ pc'[k] \in {"exec", "write"} /\ run'[k] = latest => execs'[latest] > 0
    <3>1. CASE k = j
      BY <2>5, <2>6, <3>1
    <3>2. CASE k # j
      <4>1. pc'[k] = pc[k] /\ st'[k] = st[k] /\ run'[k] = run[k]
        BY <1>1, <3>2
      <4> QED BY <2>3, <2>8, <4>1
    <3> QED BY <3>1, <3>2
  <2>10. pc'["bg"] = "stamp" /\ peek' = latest => execs'[latest] > 0
    BY <1>1, <2>3, <2>7, <2>8
  <2> QED BY <1>1, <2>4, <2>9, <2>10 DEF Executed
<1> QED BY <1>1, <1>3, <1>4 DEF Reached

\* A background check keeps Reached: it stamps what its cycle was triggered for.
LEMMA ReachedBg ==
    ASSUME TypeOK, Known, Stamped, Reached, BgMoves
    PROVE  Reached'
<1> USE RunNumbers DEF Jobs
<1>1. /\ latest' = latest /\ sigs' = sigs /\ execs' = execs
      /\ pc'["main"] = pc["main"] /\ st'["main"] = st["main"]
      /\ run'["main"] = run["main"] /\ want'["main"] = want["main"]
  BY DEF BgMoves, Moves, envVars
<1>2. pc'["bg"] \notin {"signals", "account", "exec", "write", "stamp"}
  BY DEF BgMoves, Moves
<1>3. [Loaded EXCEPT !.last_run = peek].last_run = peek
  BY DEF StateDict
<1>4. \/ st'["bg"].last_run \in {st["bg"].last_run, Loaded.last_run, 0}
      \/ st'["bg"].last_run = peek /\ pc["bg"] = "stamp"
  <2>1. CASE Moves("bg", "stamp", "bgSave") /\ st'["bg"] = [Loaded EXCEPT !.last_run = peek]
    BY <1>3, <2>1 DEF Moves
  <2>2. CASE st'["bg"] = st["bg"] \/ SameStamp("bg") \/ st'["bg"] = Loaded \/ Returned("bg")
    BY <2>2 DEF SameStamp, Returned
  <2> QED BY <2>1, <2>2 DEF BgMoves
<1>5. file'.last_run \in {file.last_run, st["bg"].last_run}
  BY DEF BgMoves, fileVars
<1>6. ASSUME latest # 0, Exits(sigs) # {}
      PROVE  /\ file'.last_run = latest => execs[latest] > 0
             /\ st'["bg"].last_run = latest => execs[latest] > 0
             /\ st["main"].last_run = latest => execs[latest] > 0
             /\ pc["main"] \in {"exec", "write"} /\ run["main"] = latest => execs[latest] > 0
  BY <1>4, <1>5, <1>6 DEF Reached, Executed
<1> QED BY <1>1, <1>2, <1>6 DEF Reached, Executed

\* What a job that starts, TDash, time or a crash do keeps Reached: a new run is on no
\* record.
LEMMA ReachedRest ==
    ASSUME TypeOK, Known, Reached, MainMoves \/ EnvMoves
    PROVE  Reached'
<1> USE RunNumbers DEF Jobs
<1>1. CASE MainMoves
  BY <1>1 DEF MainMoves, Moves, SameRun, Reached, Executed, fileVars, envVars, bgVars
<1>2. CASE EnvMoves
  <2>1. CASE latest' = latest + 1 /\ UNCHANGED <<file, bgVars, pc, st, run, want>>
    BY <2>1, <1>2 DEF EnvMoves, Known, Reached, Executed, bgVars
  <2>2. CASE /\ Older(file, file') /\ \A j \in Jobs : Older(st[j], st'[j])
             /\ UNCHANGED <<latest, sigs, bgVars, pc, run, want>>
    BY <2>2, <1>2 DEF EnvMoves, Older, Reached, Executed, bgVars
  <2>3. CASE /\ \A j \in Jobs : pc'[j] = "idle" /\ st'[j] = DefaultState /\ run'[j] = 0
             /\ UNCHANGED <<file, latest, sigs>>
    BY <2>3, <1>2 DEF EnvMoves, Reached, Executed
  <2> QED BY <1>2, <2>1, <2>2, <2>3 DEF EnvMoves
<1> QED BY <1>1, <1>2

LEMMA KnownFirst == Init => Known /\ Stamped
BY BoundsAssumption DEF Init, Known, Stamped, DefaultState, Jobs, Runs

\* What is on record of the newest run is true of it: no run with an exit is put on
\* record without an execution, by overlapping jobs, stale copies, stamps of the guard,
\* crashes and lost saves, as long as the calls to TDash and the broker do not fail.
THEOREM ExitsReached == Spec => []ExitsNotSkipped
<1> DEFINE IInv == Known /\ Stamped /\ ("broker" \notin faults => Reached)
<1>1. Init => IInv
  BY KnownFirst DEF Init, Reached, Executed, Jobs
<1>2. TypeOK /\ IInv /\ [Next]_vars => IInv'
  BY FaultsSame, KnownStep, Steps, ReachedCycle, ReachedBg, ReachedRest
<1>3. TypeOK /\ IInv => ExitsNotSkipped
  <2> SUFFICES ASSUME IInv, "broker" \notin faults, latest # 0, file.last_run = latest,
                      Exits(sigs) # {}
               PROVE  execs[latest] > 0
    BY DEF ExitsNotSkipped
  <2> QED BY DEF Reached, Executed
<1> QED BY <1>1, <1>2, <1>3, TypeCorrect, PTL DEF Spec

-----------------------------------------------------------------------------
(* StampNeverRegresses, when jobs do not overlap *)

\* Whoever moves is alone.
LEMMA AloneStep ==
    ASSUME TypeOK, Alone, "overlap" \notin faults, [Next]_vars
    PROVE  /\ Alone'
           /\ \A j \in Jobs : CycleMoves(j) =>
                 pc[j] \in CyclePCs /\ \A k \in Jobs \ {j} : pc[k] = "idle" /\ pc'[k] = "idle"
           /\ BgMoves => pc["main"] = "idle" /\ pc'["main"] = "idle"
           /\ MainMoves => pc["bg"] = "idle" /\ pc'["bg"] = "idle"
<1> USE RunNumbers DEF Jobs, CyclePCs
<1>1. ASSUME NEW j \in Jobs, CycleMoves(j)
      PROVE  /\ pc[j] \in CyclePCs /\ pc'[j] \in CyclePCs \cup {AfterCycle(j)}
             /\ \A k \in Jobs \ {j} : pc[k] = "idle" /\ pc'[k] = "idle"
  <2>1. pc[j] \in CyclePCs /\ pc'[j] \in CyclePCs \cup {AfterCycle(j)}
    BY <1>1 DEF CycleMoves, Moves
  <2>2. \A k \in Jobs \ {j} : pc'[k] = pc[k]
    BY <1>1 DEF CycleMoves, Moves
  <2> QED BY <2>1, <2>2 DEF Alone
<1>2. ASSUME BgMoves PROVE pc["main"] = "idle" /\ pc'["main"] = "idle"
  <2>1. MayStart("bg") => pc["main"] = "idle"
    BY DEF MayStart
  <2>2. MayStart("bg") \/ pc["bg"] # "idle"
    BY <1>2 DEF BgMoves, Moves
  <2>3. pc'["main"] = pc["main"]
    BY <1>2 DEF BgMoves, Moves
  <2> QED BY <2>1, <2>2, <2>3 DEF Alone
<1>3. ASSUME MainMoves PROVE pc["bg"] = "idle" /\ pc'["bg"] = "idle" /\ pc'["main"] = "cycle"
  BY <1>3 DEF MainMoves, Moves, MayStart
<1>4. ASSUME EnvMoves PROVE Alone'
  BY <1>4 DEF EnvMoves, Alone
<1>5. Alone'
  BY <1>1, <1>2, <1>3, <1>4, Steps DEF Alone, AfterCycle
<1> QED BY <1>1, <1>2, <1>3, <1>5

\* When runs are published between jobs only, a cycle's run stays the newest.
LEMMA CurrentStep ==
    ASSUME TypeOK, Alone, Current, {"midpublish", "overlap"} \cap faults = {}, [Next]_vars
    PROVE  Current'
<1> USE RunNumbers DEF Jobs, CyclePCs
<1>1. ASSUME NEW j \in Jobs, CycleMoves(j) PROVE Current'
  <2>1. /\ latest' = latest /\ peek' = peek
        /\ \A k \in Jobs \ {j} : pc'[k] = "idle"
        /\ j = "bg" => peek = latest
    BY <1>1, AloneStep DEF CycleMoves, Current, envVars, bgVars
  <2>2. pc'[j] \in {"signals", "account", "exec", "write"} => run'[j] = latest /\ latest # 0
    BY <1>1 DEF CycleMoves, Moves, SameStamp, SameRun, Current, NewRun, AfterCycle
  <2> QED BY <2>1, <2>2 DEF Current
<1>2. CASE BgMoves
  <2>1. latest' = latest /\ pc'["main"] = "idle"
    BY <1>2, AloneStep DEF BgMoves, envVars
  <2>2. pc'["bg"] \in CyclePCs \cup {"stamp"} => pc'["bg"] = "cycle" /\ peek' = latest
    BY <1>2 DEF BgMoves, Moves
  <2> QED BY <2>1, <2>2 DEF Current
<1>3. CASE MainMoves
  BY <1>3, AloneStep DEF MainMoves, Moves, Current
<1>4. CASE EnvMoves
  BY <1>4 DEF EnvMoves, Current, bgVars
<1> QED BY <1>1, <1>2, <1>3, <1>4, Steps

\* The file does not change under a background check, so its copy stays a copy.
LEMMA CopiedStep ==
    ASSUME TypeOK, Alone, Copied, "overlap" \notin faults, [Next]_vars
    PROVE  Copied'
<1> USE RunNumbers DEF Jobs, CyclePCs
<1>1. ASSUME NEW j \in Jobs, CycleMoves(j) PROVE Copied'
  <2>1. /\ pc["bg"] \notin {"bgAccount", "scan", "bgSave", "bgWrite"}
        /\ pc'["bg"] \notin {"bgAccount", "scan", "bgSave", "bgWrite"}
    BY <1>1, AloneStep DEF CycleMoves, Moves, AfterCycle
  <2> QED BY <1>1, <2>1 DEF CycleMoves, Copied, bgVars
<1>2. CASE MainMoves
  BY <1>2, AloneStep DEF MainMoves, Copied, bgVars
<1>3. CASE BgMoves
  <2>1. CASE Moves("bg", "idle", "bgAccount") /\ st'["bg"] = Loaded /\ UNCHANGED <<fileVars, bgVars>>
    <3>1. CASE torn
      <4>1. Blank(DefaultState)
        BY DEF Blank, DefaultState, NoPending
      <4> QED BY <2>1, <3>1, <4>1 DEF Moves, Loaded, Copied, Blank, bgVars, fileVars
    <3>2. CASE ~torn
      BY <2>1, <3>2 DEF Moves, Loaded, Copied, bgVars, fileVars
    <3> QED BY <3>1, <3>2
  <2>2. CASE /\ Moves("bg", "bgAccount", "scan") /\ st' = st
             /\ scan' = {t \in Tickers : st["bg"].pending[t].qty > 0}
             /\ UNCHANGED <<fileVars, peek, changed>>
    <3>1. Blank(st["bg"]) => scan' = {}
      BY <2>2 DEF Blank
    <3> QED BY <2>2, <3>1 DEF Moves, Copied, Blank, fileVars
  <2>3. CASE /\ Moves("bg", "scan", "scan") /\ SameStamp("bg") /\ scan # {}
             /\ changed' \/ (st' = st /\ changed' = changed)
             /\ UNCHANGED <<fileVars, peek>>
    BY <2>3 DEF Moves, SameStamp, Copied, fileVars
  <2>4. CASE pc'["bg"] \in {"bgSave", "bgWrite"}
    BY <2>4 DEF Copied
  <2>5. CASE pc'["bg"] = "idle" /\ scan' = {} /\ changed' = FALSE
    BY <2>5 DEF Copied
  <2>6. CASE Moves("bg", "idle", "cycle") /\ UNCHANGED <<scan, changed>>
    BY <2>6 DEF Moves, Copied
  <2> QED BY <1>3, <2>1, <2>2, <2>3, <2>4, <2>5, <2>6 DEF BgMoves, Moves
<1>4. CASE EnvMoves
  BY <1>4 DEF EnvMoves, Older, Copied, Blank, bgVars
<1> QED BY <1>1, <1>2, <1>3, <1>4, Steps

\* What background_check is about to write is the newest stamp, or the one on file.
LEMMA NoOlderStep ==
    ASSUME TypeOK, Known, Alone, Current, Copied, NoOlder,
           {"midpublish", "overlap"} \cap faults = {}, [Next]_vars
    PROVE  NoOlder'
<1> USE RunNumbers DEF Jobs, CyclePCs
<1>1. ASSUME NEW j \in Jobs, CycleMoves(j) PROVE NoOlder'
  <2>1. pc'["bg"] \notin {"bgSave", "bgWrite"}
    BY <1>1, AloneStep DEF CycleMoves, Moves, AfterCycle
  <2> QED BY <2>1 DEF NoOlder
<1>2. CASE MainMoves
  BY <1>2, AloneStep DEF NoOlder
<1>3. CASE BgMoves
  <2>1. CASE Moves("bg", "stamp", "bgSave") /\ st'["bg"] = [Loaded EXCEPT !.last_run = peek]
             /\ UNCHANGED fileVars
    <3>1. st'["bg"].last_run = latest
      BY <2>1 DEF Moves, Current, StateDict
    <3> QED BY <2>1, <3>1 DEF Known, NoOlder, fileVars
  <2>2. CASE /\ Moves("bg", "scan", "bgSave") /\ SameStamp("bg") /\ UNCHANGED fileVars
             /\ changed \/ ~Blank(st["bg"])
    BY <2>2 DEF Moves, SameStamp, Copied, NoOlder, fileVars
  <2>3. CASE Moves("bg", "bgSave", "bgWrite") /\ st' = st /\ file' = file
    BY <2>3 DEF Moves, NoOlder
  <2>4. CASE pc'["bg"] \notin {"bgSave", "bgWrite"}
    BY <2>4 DEF NoOlder
  <2> QED BY <1>3, <2>1, <2>2, <2>3, <2>4 DEF BgMoves, Moves
<1>4. CASE EnvMoves
  BY <1>4 DEF EnvMoves, Older, NoOlder
<1> QED BY <1>1, <1>2, <1>3, <1>4, Steps

\* The stamp on file never goes back to an earlier run, through crashes, failed and torn
\* saves and failing calls, while jobs do not overlap and no run is published during one.
THEOREM StampsGrow == Spec => StampNeverRegresses
<1> DEFINE Apart == {"midpublish", "overlap"} \cap faults = {}
           IInv == Known /\ Stamped /\ (Apart => Alone /\ Current /\ Copied /\ NoOlder)
           Step == {"midpublish", "overlap"} \cap faults = {} => file'.last_run >= file.last_run
<1>1. Init => IInv
  BY KnownFirst DEF Init, Alone, Current, Copied, NoOlder, CyclePCs, Jobs
<1>2. TypeOK /\ IInv /\ [Next]_vars => IInv'
  BY FaultsSame, KnownStep, AloneStep, CurrentStep, CopiedStep, NoOlderStep
<1>3. TypeOK /\ IInv /\ [Next]_vars => [Step]_vars
  <2> SUFFICES ASSUME TypeOK, IInv, Apart, [Next]_vars PROVE file'.last_run >= file.last_run
    OBVIOUS
  <2> USE RunNumbers
  <2>1. ASSUME NEW j \in Jobs, CycleMoves(j) PROVE file'.last_run >= file.last_run
    <3>1. CASE file' = file
      BY <3>1
    <3>2. CASE file' = st[j] /\ pc[j] = "write"
      BY <3>2 DEF Stamped, Current, Known
    <3> QED BY <2>1, <3>1, <3>2 DEF CycleMoves, Moves, fileVars
  <2>2. CASE BgMoves
    BY <2>2 DEF BgMoves, Moves, NoOlder, fileVars
  <2>3. CASE MainMoves \/ EnvMoves
    BY <2>3 DEF MainMoves, EnvMoves, Older, fileVars
  <2> QED BY <2>1, <2>2, <2>3, Steps
<1>4. Spec => [](TypeOK /\ IInv)
  BY <1>1, <1>2, TypeCorrect, PTL DEF Spec
<1> QED BY <1>3, <1>4, PTL DEF Spec, StampNeverRegresses

-----------------------------------------------------------------------------
(* AtMostOnce, when the state is saved besides *)

\* The faults under which a run is executed once: calls that fail, at once or late.
Saved == faults \subseteq {"broker", "late"}

\* A cycle executes the newest run only while that run is not on record, and puts it on
\* record before the next cycle looks.
LEMMA OnceStep ==
    ASSUME TypeOK, Known, Stamped, Alone, Current, NoOlder, Once, Saved, [Next]_vars
    PROVE  Once'
<1> USE RunNumbers DEF Jobs, CyclePCs
<1>1. ASSUME NEW j \in Jobs, CycleMoves(j) PROVE Once'
  <2>1. /\ latest' = latest /\ pc[j] \in CyclePCs
        /\ \A k \in Jobs \ {j} : pc[k] = "idle" /\ pc'[k] = "idle"
    BY <1>1, AloneStep DEF CycleMoves, envVars, Saved
  <2>2. CASE /\ Moves(j, "cycle", "signals") /\ NewRun /\ UNCHANGED <<fileVars, execs>>
    <3>1. latest # 0 /\ latest # file.last_run
      BY <2>1, <2>2 DEF Moves, NewRun, Loaded, Once
    <3>2. latest \in 0..MaxRuns /\ execs[latest] \in Nat
      BY <3>1 DEF TypeOK, Runs
    <3>3. \A k \in Jobs : pc[k] \notin {"exec", "write"}
      BY <2>1, <2>2 DEF Moves
    <3>4. execs[latest] = 0
      BY <3>1, <3>2, <3>3 DEF Once
    <3> QED BY <2>1, <2>2, <3>1, <3>4 DEF Moves, Once, RunOnce, fileVars
  <2>3. CASE /\ pc'[j] = AfterCycle(j) /\ UNCHANGED <<fileVars, execs>>
             /\ pc[j] \in {"cycle", "signals", "account"}
    BY <2>1, <2>3 DEF Once, RunOnce, fileVars, AfterCycle
  <2>8. CASE Moves(j, "signals", "account") /\ UNCHANGED <<fileVars, execs>>
    BY <2>1, <2>8 DEF Moves, Once, RunOnce, fileVars
  <2>4. CASE /\ Moves(j, "account", "exec") /\ UNCHANGED fileVars
             /\ execs' = [execs EXCEPT ![run[j]] = @ + 1]
    <3>1. run[j] = latest /\ latest \in Runs /\ execs[latest] = 0
      BY <2>4 DEF Moves, Current, Once, TypeOK, Runs
    <3>2. RunOnce'
      BY <2>4, <3>1 DEF Once, RunOnce
    <3> QED BY <2>1, <2>4, <3>2 DEF Moves, Once, fileVars
  <2>5. CASE Moves(j, "exec", "exec") /\ UNCHANGED <<fileVars, execs>>
    BY <2>1, <2>5 DEF Moves, Once, RunOnce, fileVars
  <2>6. CASE Moves(j, "exec", "write") /\ execs' = execs
    BY <2>1, <2>6 DEF Moves, Once, RunOnce
  <2>7. CASE /\ Moves(j, "write", AfterCycle(j)) /\ file' = st[j] /\ torn' = FALSE
             /\ execs' = execs
    <3>1. file'.last_run = latest
      BY <2>7 DEF Moves, Stamped, Current
    <3> QED BY <2>1, <2>7, <3>1 DEF Moves, Once, RunOnce, AfterCycle
  <2> QED BY <1>1, <2>2, <2>3, <2>4, <2>5, <2>6, <2>7, <2>8 DEF CycleMoves, Moves, Saved
<1>2. CASE BgMoves
  <2>1. /\ latest' = latest /\ execs' = execs /\ pc["main"] = "idle" /\ pc'["main"] = "idle"
        /\ pc["bg"] \notin {"signals", "account", "exec", "write"}
        /\ pc'["bg"] \notin {"signals", "account", "exec", "write"}
    BY <1>2, AloneStep DEF BgMoves, Moves, envVars, Saved
  <2>2. CASE UNCHANGED fileVars /\ pc["bg"] # "bgWrite"
    BY <2>1, <2>2 DEF Once, RunOnce, fileVars
  <2>3. CASE Moves("bg", "bgSave", "bgWrite") /\ file' = file
    BY <2>1, <2>3 DEF Moves, Once, RunOnce
  <2>4. CASE Moves("bg", "bgWrite", "idle") /\ file' = st["bg"] /\ torn' = FALSE
    BY <2>1, <2>4 DEF Moves, Once, RunOnce, NoOlder, Known
  <2> QED BY <1>2, <2>2, <2>3, <2>4 DEF BgMoves, Moves
<1>3. CASE MainMoves
  <2>1. /\ pc["main"] = "idle" /\ pc'["main"] = "cycle" /\ pc["bg"] = "idle" /\ pc'["bg"] = "idle"
        /\ UNCHANGED <<file, torn, latest, execs>>
    BY <1>3, AloneStep DEF MainMoves, Moves, fileVars, envVars, Saved
  <2> QED BY <2>1 DEF Once, RunOnce
<1>4. CASE EnvMoves
  <2>1. torn' = torn /\ execs' = execs /\ "crash" \notin faults /\ "midpublish" \notin faults
    BY <1>4 DEF EnvMoves, Saved
  <2>2. CASE /\ latest' = latest + 1 /\ latest < MaxRuns /\ \A j \in Jobs : pc[j] = "idle"
             /\ pc' = pc /\ file' = file
    <3>1. execs[latest + 1] = 0
      BY <2>2 DEF Known, Runs
    <3> QED BY <2>1, <2>2, <3>1 DEF Once, RunOnce
  <2>3. CASE file'.last_run = file.last_run /\ latest' = latest /\ pc' = pc
    BY <2>1, <2>3 DEF Once, RunOnce
  <2> QED BY <1>4, <2>1, <2>2, <2>3 DEF EnvMoves, Older
<1> QED BY <1>1, <1>2, <1>3, <1>4, Steps

\* No run is executed by two cycles, in whatever order run_once and background_check come
\* and whatever calls fail, while jobs do not overlap, the state is saved, the process
\* lives and no run is published during a job.
THEOREM ExecutedOnce == Spec => []AtMostOnce
<1> DEFINE IInv == Known /\ Stamped /\ (Saved => Alone /\ Current /\ Copied /\ NoOlder /\ Once)
<1>1. Init => IInv
  BY KnownFirst
     DEF Init, Alone, Current, Copied, NoOlder, Once, RunOnce, CyclePCs, Jobs
<1>2. TypeOK /\ IInv /\ [Next]_vars => IInv'
  <2> SUFFICES ASSUME TypeOK, IInv, [Next]_vars PROVE IInv'
    OBVIOUS
  <2>1. Saved' = Saved /\ (Saved => {"midpublish", "overlap"} \cap faults = {})
    BY FaultsSame DEF Saved
  <2>2. Known' /\ Stamped'
    BY KnownStep
  <2>3. ASSUME Saved PROVE Alone' /\ Current' /\ Copied' /\ NoOlder' /\ Once'
    BY <2>1, <2>3, AloneStep, CurrentStep, CopiedStep, NoOlderStep, OnceStep
  <2> QED BY <2>1, <2>2, <2>3
<1>3. IInv => AtMostOnce
  BY DEF AtMostOnce, Saved, Once
<1> QED BY <1>1, <1>2, <1>3, TypeCorrect, PTL DEF Spec

-----------------------------------------------------------------------------
(* FreshLegsKept *)

\* Only its reconciliation takes a background check from the loop to a save.
LEMMA OnlyReconciles ==
    ASSUME TypeOK, [Next]_vars, pc["bg"] = "scan", pc'["bg"] = "bgSave"
    PROVE  BgReconcile
<1> USE DEF Jobs
<1>1. pc \in [Jobs -> PCs]
  BY RunNumbers
<1>2. ASSUME NEW j \in Jobs, CycleStep(j) PROVE FALSE
  BY <1>2, CycleMovesOnly DEF CycleMoves, Moves, AfterCycle
<1>3. CASE BgStep
  <2>1. ~LeaveBg("idle")
    BY LeaveBgMoves DEF Moves
  <2>2. ASSUME NEW t \in Tickers, \/ BgConfirmFill(t) \/ BgEscalate(t)
                                  \/ BgEscalationFails(t) \/ BgKeepWaiting(t)
        PROVE  FALSE
    BY <2>2 DEF BgConfirmFill, BgEscalate, BgEscalationFails, BgKeepWaiting, Scans
  <2> QED
    BY <1>3, <2>1, <2>2
       DEF BgStep, BgTrigger, BgLoad, MayStart, BgStamp, BgAccount, BgAccountFails,
           BgSaveBegin, BgSaveEnd, BgSaveFails
<1>4. ~MainStart
  BY MainMovesOnly DEF MainMoves, Moves
<1>5. ~EnvStep
  BY EnvMovesOnly DEF EnvMoves
<1>6. ~UNCHANGED vars
  BY DEF vars
<1> QED BY <1>2, <1>3, <1>4, <1>5, <1>6 DEF Next

\* An order that the check resolved made it fetch the account again, and the ids recorded
\* for tickers that are gone are not those of a ticker that is held.
THEOREM LegsSurvive == Spec => FreshLegsKept
<1> DEFINE Fresh(t) == /\ {"broker", "overlap"} \cap faults = {}
                       /\ pc["bg"] = "scan" /\ scan = {} /\ pc'["bg"] = "bgSave"
                       /\ file.pending[t].qty > 0 /\ st["bg"].pending[t].qty = 0 /\ held[t] > 0
           Step == \A t \in Tickers :
                      Fresh(t) => \A l \in legs : l.id \in st["bg"].pairs[t] => l \in legs'
           IInv == "overlap" \notin faults => Alone /\ Copied
<1>1. Init => IInv
  BY DEF Init, Alone, Copied, CyclePCs, Jobs
<1>2. TypeOK /\ IInv /\ [Next]_vars => IInv'
  BY FaultsSame, AloneStep, CopiedStep
<1>3. TypeOK /\ NoForeignCancel /\ IInv /\ [Next]_vars => [Step]_vars
  <2> SUFFICES ASSUME TypeOK, NoForeignCancel, IInv, [Next]_vars,
                      NEW t \in Tickers, Fresh(t),
                      NEW l \in legs, l.id \in st["bg"].pairs[t]
               PROVE  l \in legs'
    OBVIOUS
  <2>1. BgReconcile
    BY OnlyReconciles
  <2>2. changed
    BY DEF Copied, Blank
  <2>3. Snapshots = {held}
    BY <2>2 DEF Snapshots
  <2>4. legs' = {k \in legs : k.id \notin UNION {st["bg"].pairs[u] : u \in Gone(held)}}
    BY <2>1, <2>3 DEF BgReconcile, CancelOrphans
  <2>5. ASSUME NEW u \in Gone(held) PROVE l.id \notin st["bg"].pairs[u]
    <3>1. u \in Tickers /\ u # t
      BY DEF Gone, TypeOK, Holdings
    <3>2. \A v \in Tickers : l.id \in st["bg"].pairs[v] => l.ticker = v
      BY DEF NoForeignCancel, RecordsOwnLegs, Jobs
    <3> QED BY <3>1, <3>2
  <2> QED BY <2>4, <2>5
<1>4. Spec => [](TypeOK /\ NoForeignCancel /\ IInv)
  BY <1>1, <1>2, TypeCorrect, RecordsSound, PTL DEF Spec
<1> QED BY <1>3, <1>4, PTL DEF Spec, FreshLegsKept

===============================================================================
