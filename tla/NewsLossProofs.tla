---------------------------- MODULE NewsLossProofs ----------------------------
(***************************************************************************)
(* The theorem that NewsDaemon loses no event but to a mishap: the events  *)
(* in the store that were neither dropped nor traded to the end are        *)
(* counted against the exceptions, stops and kills.                        *)
(***************************************************************************)
EXTENDS NewsDaemonProofs, FiniteSetTheorems

-----------------------------------------------------------------------------
(* The inductive invariant *)

\* The events that are stored, not handled and not in hand.
Lost == (stored \ handled) \ {cur}

\* How many events a requested stop may still lose: one of each feed it has yet to end.
StillToLose ==
    IF stop /\ at \notin {"top", "down"}
    THEN (IF poll = "edgar" THEN 1 ELSE 0) + (IF batch # {} THEN 1 ELSE 0)
    ELSE 0

\* What is lost and what a requested stop may still lose was paid for by mishaps.
Paid == Cardinality(Lost) + StillToLose <= mishaps

-----------------------------------------------------------------------------
(* Counting *)

\* A subset of the lost events, or of them and one more, counts no more than that.
LEMMA CountUpTo ==
    ASSUME NEW S \in SUBSET Events, NEW T, NEW x
    PROVE  /\ Cardinality(S) \in Nat
           /\ T \subseteq S => Cardinality(T) \in Nat /\ Cardinality(T) <= Cardinality(S)
           /\ T \subseteq S \cup {x} =>
                 Cardinality(T) \in Nat /\ Cardinality(T) <= Cardinality(S) + 1
<1>1. IsFiniteSet(S) /\ Cardinality(S) \in Nat
  BY EventsAssumption, FS_Subset, FS_CardinalityType
<1>2. /\ IsFiniteSet(S \cup {x}) /\ Cardinality(S \cup {x}) \in Nat
      /\ Cardinality(S \cup {x}) <= Cardinality(S) + 1
  <2>1. IsFiniteSet(S \cup {x})
        /\ (Cardinality(S \cup {x}) = Cardinality(S) \/ Cardinality(S \cup {x}) = Cardinality(S) + 1)
    BY <1>1, FS_AddElement
  <2> QED BY <1>1, <2>1
<1>3. ASSUME NEW U, IsFiniteSet(U), T \subseteq U
      PROVE  Cardinality(T) \in Nat /\ Cardinality(T) <= Cardinality(U)
  BY <1>3, FS_Subset, FS_CardinalityType
<1> QED BY <1>1, <1>2, <1>3

\* Nothing more is lost, and a stop may lose no more than before.
LEMMA NoMoreLost ==
    ASSUME TypeOK, Paid, Lost' \subseteq Lost, StillToLose' <= StillToLose,
           mishaps' = mishaps
    PROVE  Paid'
<1>1. Cardinality(Lost)' \in Nat /\ Cardinality(Lost') <= Cardinality(Lost)
      /\ Cardinality(Lost) \in Nat
  BY CountUpTo DEF TypeOK, Lost
<1>2. StillToLose \in Nat /\ StillToLose' \in Nat /\ mishaps \in Nat
  BY DEF StillToLose, TypeOK
<1> QED BY <1>1, <1>2 DEF Paid

\* One event more is lost, which a mishap, or the stop that was requested, has paid for.
LEMMA OneMoreLost ==
    ASSUME TypeOK, Paid, NEW x, Lost' \subseteq Lost \cup {x},
           StillToLose' + mishaps + 1 <= StillToLose + mishaps', mishaps' \in Nat
    PROVE  Paid'
<1>1. Cardinality(Lost') \in Nat /\ Cardinality(Lost') <= Cardinality(Lost) + 1
      /\ Cardinality(Lost) \in Nat
  BY CountUpTo DEF TypeOK, Lost
<1>2. StillToLose \in Nat /\ StillToLose' \in Nat /\ mishaps \in Nat
  BY DEF StillToLose, TypeOK
<1>3. \A c, d, l, m, n, k \in Nat :
         c + l <= m /\ d <= c + 1 /\ n + m + 1 <= l + k => d + n <= k
  OBVIOUS
<1> QED BY <1>1, <1>2, <1>3 DEF Paid

-----------------------------------------------------------------------------
(* Each step *)

LEMMA PaidStep ==
    ASSUME TypeOK, Phases, Paid, "crawler" \notin faults, [Next]_vars
    PROVE  Paid'
<1> USE DEF Phases
<1>m. mishaps \in Nat
  BY DEF TypeOK
<1>1. CASE PollBegins
  <2>1. Lost' = Lost /\ mishaps' = mishaps /\ StillToLose' = 0 /\ StillToLose = 0
    BY <1>1 DEF PollBegins, Lost, StillToLose, execVars, histVars
  <2> QED BY <2>1, NoMoreLost
<1>2. CASE FeedEnds
  <2>1. Lost' = Lost /\ mishaps' = mishaps
    BY <1>2 DEF FeedEnds, Lost, execVars, histVars
  <2>2. StillToLose' <= StillToLose
    BY <1>2 DEF FeedEnds, StillToLose
  <2> QED BY <2>1, <2>2, NoMoreLost
<1>3. ASSUME NEW e \in Events, Take(e) PROVE Paid'
  <2>1. /\ at = "read" /\ cur = NoEvent /\ e \in batch /\ stored' = stored \cup {e}
        /\ poll' = poll /\ stop' = stop /\ handled' = handled /\ mishaps' = mishaps
    BY <1>3 DEF Take, Upsert, histVars
  <2>2. CASE e \in stored
    <3>1. cur' = cur /\ batch' = batch \ {e} /\ at' = at
      BY <1>3, <2>2 DEF Take
    <3>2. Lost' = Lost /\ StillToLose' <= StillToLose
      BY <2>1, <2>2, <3>1 DEF Lost, StillToLose
    <3> QED BY <2>1, <3>2, NoMoreLost
  <2>3. CASE e \notin stored /\ stop
    <3>1. cur' = cur /\ batch' = {} /\ at' = at
      BY <1>3, <2>3 DEF Take
    <3>2. Lost' \subseteq Lost \cup {e}
      BY <2>1, <3>1 DEF Lost
    <3>3. /\ StillToLose' + 1 <= StillToLose
          /\ StillToLose \in Nat /\ StillToLose' \in Nat
      BY <2>1, <2>3, <3>1 DEF StillToLose
    <3>4. mishaps' = mishaps /\ mishaps' \in Nat
      BY <1>m, <2>1
    <3>5. \A l, n, m \in Nat : n + 1 <= l => n + m + 1 <= l + m
      OBVIOUS
    <3>6. StillToLose' + mishaps + 1 <= StillToLose + mishaps'
      BY <1>m, <3>3, <3>4, <3>5
    <3> QED BY <3>2, <3>4, <3>6, OneMoreLost
  <2>4. CASE e \notin stored /\ ~stop
    <3>1. cur' = e
      BY <1>3, <2>4 DEF Take
    <3>2. Lost' \subseteq Lost /\ StillToLose' = 0 /\ StillToLose = 0
      BY <2>1, <2>4, <3>1, Given DEF Lost, StillToLose, TypeOK
    <3> QED BY <2>1, <3>2, NoMoreLost
  <2> QED BY <2>2, <2>3, <2>4
<1>4. CASE Drop \/ Return
  <2>1. /\ at \in {"score", "gate", "execute"} /\ at' = "read" /\ cur' = NoEvent
        /\ handled' = handled \cup {cur}
        /\ UNCHANGED <<stored, stop, poll, batch, mishaps>>
    BY <1>4 DEF Drop, Return
  <2>2. Lost' \subseteq Lost /\ StillToLose' = StillToLose
    BY <2>1 DEF Lost, StillToLose
  <2>3. StillToLose \in Nat
    BY DEF StillToLose
  <2> QED BY <2>1, <2>2, <2>3, NoMoreLost
<1>5. CASE Score \/ Gate \/ Trade
  <2>1. UNCHANGED <<stored, handled, cur, mishaps, stop, poll, batch>>
    <3>1. CASE Score \/ Gate
      BY <3>1 DEF Score, Gate, execVars, histVars
    <3>2. CASE Trade
      <4> DEFINE o == LocalDay \in over
      <4>1. o \in BOOLEAN /\ Execute(o) /\ at = "execute"
        BY <3>2 DEF Trade
      <4> HIDE DEF o
      <4>2. cur' = cur
        BY <4>1, ExecuteTypes DEF TypeOK
      <4> QED BY <3>2, <4>2 DEF Trade, memVars, histVars
    <3> QED BY <1>5, <3>1, <3>2
  <2>2. at \notin {"top", "down"} /\ at' \notin {"top", "down"}
    BY <1>5 DEF Score, Gate, Trade, memVars
  <2>3. Lost' = Lost /\ StillToLose' = StillToLose /\ StillToLose \in Nat
    BY <2>1, <2>2 DEF Lost, StillToLose
  <2> QED BY <2>1, <2>3, NoMoreLost
<1>6. CASE Abort \/ Down
  <2>1. /\ at' \in {"top", "down"} /\ cur' = NoEvent /\ UNCHANGED <<stored, handled>>
        /\ mishaps' = mishaps + 1 \/ (at = "top" /\ mishaps' = mishaps)
    BY <1>6 DEF Abort, Down, Ends
  <2>2. Lost' \subseteq Lost \cup {cur} /\ StillToLose' = 0 /\ StillToLose \in Nat
    BY <2>1 DEF Lost, StillToLose
  <2>3. at = "top" => Lost' \subseteq Lost
    BY <2>1 DEF Lost
  <2> QED BY <1>m, <2>1, <2>2, <2>3, NoMoreLost, OneMoreLost
<1>7. CASE RequestStop
  <2>1. UNCHANGED <<stored, handled, cur>> /\ ~stop /\ mishaps' = mishaps + 2
    BY <1>7 DEF RequestStop, execVars
  <2>2. Lost' = Lost /\ StillToLose = 0 /\ StillToLose' \in 0..2
    BY <2>1 DEF Lost, StillToLose
  <2>3. Cardinality(Lost) \in Nat
    BY CountUpTo DEF TypeOK, Lost
  <2> QED BY <1>m, <2>1, <2>2, <2>3 DEF Paid
<1>8. CASE Restart
  <2>1. Lost' = Lost /\ mishaps' = mishaps /\ StillToLose' = 0 /\ StillToLose = 0
    BY <1>8 DEF Restart, Lost, StillToLose, execVars, histVars
  <2> QED BY <2>1, NoMoreLost
<1>9. CASE UNCHANGED <<stored, handled, cur, mishaps, at, stop, poll, batch>>
  <2>1. Lost' = Lost /\ StillToLose' = StillToLose /\ StillToLose \in Nat
    BY <1>9 DEF Lost, StillToLose
  <2> QED BY <1>9, <2>1, NoMoreLost
<1>10. ASSUME NEW e \in Events, Ages(e) PROVE Paid'
  BY <1>9, <1>10 DEF Ages, execVars, memVars, histVars
<1>11. ASSUME NEW e \in Events, Crawl(e) PROVE Paid'
  BY <1>11 DEF Crawl
<1>12. CASE Tick
  BY <1>9, <1>12 DEF Tick, execVars, memVars, histVars
<1>13. CASE TheMarket
  BY <1>9, <1>13, MarketTypes DEF TheMarket, memVars, histVars, TypeOK
<1>14. CASE UNCHANGED vars
  BY <1>9, <1>14 DEF vars, execVars, memVars, histVars
<1> QED
  BY <1>1, <1>2, <1>3, <1>4, <1>5, <1>6, <1>7, <1>8, <1>10, <1>11, <1>12, <1>13, <1>14
     DEF Next, Daemon

\* Each exception and each kill loses at most the event in hand, and each requested stop
\* one event of each of the two feeds, however often the daemon is stopped, killed and
\* started again and whatever the scorer, the executor and the broker do, as long as
\* nobody else works on the store.
THEOREM LossesPaid == Spec => []LossBounded
<1> DEFINE IInv == "crawler" \notin faults => Paid
<1>1. Init => IInv
  <2> SUFFICES ASSUME Init PROVE Paid
    OBVIOUS
  <2>1. Lost = {} /\ StillToLose = 0 /\ mishaps = 0
    BY DEF Init, Lost, StillToLose
  <2> QED BY <2>1, FS_EmptySet DEF Paid
<1>2. TypeOK /\ Phases /\ IInv /\ [Next]_vars => IInv'
  BY PaidStep, FaultsFixed
<1>3. TypeOK /\ IInv => LossBounded
  <2> SUFFICES ASSUME TypeOK, Paid PROVE Cardinality(Lost) <= mishaps
    BY DEF LossBounded, Lost
  <2>1. Cardinality(Lost) \in Nat
    BY CountUpTo DEF TypeOK, Lost
  <2>2. StillToLose \in Nat /\ mishaps \in Nat
    BY DEF TypeOK, StillToLose
  <2> QED BY <2>1, <2>2 DEF Paid
<1>4. Spec => [](TypeOK /\ Phases)
  BY FirstTypes, StepTypes, PTL DEF Spec
<1> QED BY <1>1, <1>2, <1>3, <1>4, PTL DEF Spec
===============================================================================
