-------------------------- MODULE ETFSimulatorProofs --------------------------
(***************************************************************************)
(* Theorems about ETFSimulator for any calendar, any mode and any bars.    *)
(***************************************************************************)
EXTENDS ETFSimulator, FiniteSetTheorems, TLAPS

-----------------------------------------------------------------------------
(* Dates and slots *)

\* The numbers the constants are.
LEMMA Numbers ==
    /\ Days \in Nat /\ Day \in Nat \ {0} /\ Session \in Nat \ {0} /\ Warmup \in Nat
    /\ MaxStops \in Nat \ {0} /\ Reset \in 0..Day - 1
    /\ MinHold \in Nat /\ EodClose \in Nat /\ NoEntry \in Nat /\ OpenSkip \in Nat
    /\ Cooldown \in Nat
    /\ \A o \in Opens : o \in Nat \ {0} /\ o + Session <= Day
BY CalendarAssumption, ModeAssumption

\* A slot has a date and a place in the day.
LEMMA DateSlot ==
    ASSUME NEW n \in Nat
    PROVE  /\ n \div Day \in Nat /\ n % Day \in 0..Day - 1
           /\ n = Day * (n \div Day) + (n % Day)
BY Numbers

\* The slots of a date are those from its first one to the next date's.
LEMMA DateOf ==
    ASSUME NEW n \in Nat, NEW d \in Int, d * Day <= n, n < d * Day + Day
    PROVE  n \div Day = d
<1>1. n = d * Day + (n - d * Day)
  BY Numbers
<1>2. ASSUME NEW r \in Int, 0 <= r, r < Day
      PROVE  (d * Day + r) \div Day = d
  BY <1>2, Numbers
<1>3. d * Day \in Int /\ n - d * Day \in Int /\ 0 <= n - d * Day /\ n - d * Day < Day
  BY Numbers
<1> QED BY <1>1, <1>2, <1>3

\* The slot after a slot.
LEMMA NextSlot ==
    ASSUME NEW n \in Nat
    PROVE  IF (n % Day) + 1 < Day
           THEN (n + 1) \div Day = n \div Day /\ (n + 1) % Day = (n % Day) + 1
           ELSE (n + 1) \div Day = n \div Day + 1 /\ (n + 1) % Day = 0
<1> DEFINE q == n \div Day  r == n % Day
<1>1. q \in Nat /\ r \in 0..Day - 1 /\ n = Day * q + r
  BY DateSlot
<1>2. Day * q = q * Day /\ q * Day \in Int /\ (q + 1) * Day = q * Day + Day
  BY <1>1, Numbers
<1>3. ASSUME NEW k \in Int, NEW s \in Int, 0 <= s, s < Day
      PROVE  (k * Day + s) \div Day = k /\ (k * Day + s) % Day = s
  BY <1>3, Numbers
<1> HIDE DEF q, r
<1>4. CASE r + 1 < Day
  <2>1. n + 1 = q * Day + (r + 1)
    BY <1>1, <1>2
  <2>2. (q * Day + (r + 1)) \div Day = q /\ (q * Day + (r + 1)) % Day = r + 1
    BY <1>1, <1>3, <1>4
  <2> QED BY <1>4, <2>1, <2>2 DEF q, r
<1>5. CASE ~(r + 1 < Day)
  <2>1. n + 1 = (q + 1) * Day + 0
    BY <1>1, <1>2, <1>5, Numbers
  <2>2. ((q + 1) * Day + 0) \div Day = q + 1 /\ ((q + 1) * Day + 0) % Day = 0
    BY <1>1, <1>3, Numbers
  <2> QED BY <1>5, <2>1, <2>2 DEF q, r
<1> QED BY <1>4, <1>5

\* The slot before the first one is of no date.
LEMMA BeforeTime ==
    ASSUME NEW n \in Int, n = -1
    PROVE  n \div Day = -1
<1>1. ASSUME NEW q \in Int, NEW r \in Int, 0 <= r, r < Day
      PROVE  (q * Day + r) \div Day = q
  BY <1>1, Numbers
<1>2. n = (-1) * Day + (Day - 1)
  BY Numbers
<1>3. ((-1) * Day + (Day - 1)) \div Day = -1
  BY <1>1, Numbers
<1> QED BY <1>2, <1>3

\* Dates come one after the other.
LEMMA DatesOrdered ==
    ASSUME NEW n \in Int, n >= -1, NEW k \in Nat, n < k
    PROVE  n \div Day <= k \div Day
<1>1. CASE n = -1
  <2>1. n \div Day = -1
    BY <1>1, BeforeTime
  <2> QED BY <2>1, DateSlot
<1>2. CASE n \in Nat
  <2> DEFINE p == n \div Day  q == k \div Day
  <2>1. p \in Nat /\ q \in Nat /\ n >= Day * p /\ k < Day * q + Day
    BY <1>2, DateSlot, Numbers
  <2> HIDE DEF p, q
  <2>2. SUFFICES ASSUME q < p PROVE FALSE
    BY <2>1 DEF p, q
  <2>3. ASSUME NEW a \in Nat, NEW b \in Nat, a < b
        PROVE  Day * a + Day <= Day * b
    <3>1. Day * b - Day * a = (b - a) * Day
      BY Numbers
    <3>2. (b - a) * Day >= Day
      BY <2>3, Numbers
    <3> QED BY <3>1, <3>2, Numbers
  <2>4. Day * q + Day <= Day * p
    BY <2>1, <2>2, <2>3
  <2>5. Day * q \in Nat /\ Day * p \in Nat
    BY <2>1, Numbers
  <2> QED BY <2>1, <2>4, <2>5, Numbers
<1> QED BY <1>1, <1>2

\* A weekday follows every date within three days.
LEMMA WeekdayFollows ==
    ASSUME NEW d \in Dates
    PROVE  NextWeekday(d) \in {d + 1, d + 2, d + 3} /\ NextWeekday(d) \in Nat
<1>1. d \in Nat
  BY Numbers DEF Dates
<1>2. \E e \in d + 1..d + 3 : e \notin Weekend /\ \A f \in d + 1..e - 1 : f \in Weekend
  <2>1. CASE d + 1 \notin Weekend
    <3>1. d + 1 \in d + 1..d + 3 /\ \A f \in d + 1..(d + 1) - 1 : f \in Weekend
      BY <1>1
    <3> QED BY <2>1, <3>1
  <2>2. CASE d + 1 \in Weekend /\ d + 2 \notin Weekend
    <3>1. d + 2 \in d + 1..d + 3 /\ \A f \in d + 1..(d + 2) - 1 : f = d + 1
      BY <1>1
    <3> QED BY <2>2, <3>1
  <2>3. CASE d + 1 \in Weekend /\ d + 2 \in Weekend
    <3>1. d + 3 \in d + 1..d + 3 /\ \A f \in d + 1..(d + 3) - 1 : f = d + 1 \/ f = d + 2
      BY <1>1
    <3>2. d + 3 \notin Weekend
      BY <2>3, CalendarAssumption
    <3> QED BY <2>3, <3>1, <3>2
  <2> QED BY <2>1, <2>2, <2>3
<1>3. NextWeekday(d) \in d + 1..d + 3
  BY <1>2 DEF NextWeekday
<1> QED BY <1>1, <1>3

\* While there are bars to come, today is one of their dates.
LEMMA TodayIsDate ==
    ASSUME TypeOK, now < Days * Day
    PROVE  Today \in Dates /\ Today \in Nat /\ Slot \in 0..Day - 1
           /\ now = Day * Today + Slot /\ ts \in Int /\ ts >= -1 /\ ts < now /\ now \in Nat
<1> DEFINE q == now \div Day
<1>1. now \in Nat /\ ts \in Int /\ ts >= -1 /\ ts < now
  BY Numbers DEF TypeOK
<1>2. q \in Nat /\ now >= Day * q
  BY <1>1, DateSlot, Numbers
<1>3. q < Days
  <2> HIDE DEF q
  <2>1. SUFFICES ASSUME Days <= q PROVE FALSE
    BY <1>2, Numbers
  <2>2. Day * q - Day * Days = (q - Days) * Day /\ (q - Days) * Day >= 0
    BY <1>2, <2>1, Numbers
  <2>3. Day * q \in Nat /\ Days * Day = Day * Days /\ Days * Day \in Nat
    BY <1>2, Numbers
  <2> QED BY <1>1, <1>2, <2>2, <2>3
<1> QED BY <1>1, <1>2, <1>3, DateSlot, Numbers DEF Today, Slot, Dates

-----------------------------------------------------------------------------
(* Types *)

\* The positions there are.
LEMMA Positions ==
    /\ NoPos \in PositionOrNone /\ NoPos.date = -1
    /\ \A p \in PositionOrNone : p # NoPos => /\ p \in [date : Dates, age : 0..MinHold]
                                              /\ p.date \in Dates /\ p.age \in 0..MinHold
    /\ \A p \in PositionOrNone : p.date \in Int
    /\ \A d \in Dates : [date |-> d, age |-> 0] \in PositionOrNone
                        /\ [date |-> d, age |-> 0] # NoPos
BY Numbers DEF PositionOrNone, NoPos, Dates

\* A position that stays keeps its date and grows older by a bar.
LEMMA Older ==
    ASSUME TypeOK, pos # NoPos
    PROVE  /\ Age \in 0..MinHold
           /\ Age = IF pos.age = MinHold THEN MinHold ELSE pos.age + 1
           /\ [pos EXCEPT !.age = Age] \in PositionOrNone
           /\ [pos EXCEPT !.age = Age].date = pos.date
           /\ [pos EXCEPT !.age = Age].age = Age
           /\ [pos EXCEPT !.age = Age] # NoPos
<1>1. pos \in [date : Dates, age : 0..MinHold] /\ pos.age \in 0..MinHold /\ pos.date \in Dates
  BY Positions DEF TypeOK
<1>2. Age \in 0..MinHold /\ Age = IF pos.age = MinHold THEN MinHold ELSE pos.age + 1
  BY <1>1, Numbers DEF Age, MinOf
<1>3. [pos EXCEPT !.age = Age] \in [date : Dates, age : 0..MinHold]
      /\ [pos EXCEPT !.age = Age].date = pos.date /\ [pos EXCEPT !.age = Age].age = Age
  BY <1>1, <1>2
<1>4. pos.date # NoPos.date
  BY <1>1, Numbers DEF Dates, NoPos
<1> QED BY <1>2, <1>3, <1>4 DEF PositionOrNone

\* Every step has the position it leaves, and the rules, in their types.
LEMMA StepTypes == TypeOK /\ [Next]_vars => TypeOK'
<1> SUFFICES ASSUME TypeOK, [Next]_vars PROVE TypeOK'
  OBVIOUS
<1>1. CASE UNCHANGED vars
  BY <1>1 DEF vars, data, rules, TypeOK, PositionOrNone
<1>2. CASE Next
  <2>1. now < Days * Day
    BY <1>2 DEF Next
  <2>2. Today \in Dates /\ Today \in Nat /\ ts \in Int /\ ts >= -1 /\ ts < now /\ now \in Nat
    BY <2>1, TodayIsDate
  <2>3. now' = now + 1 => now' \in 0..Days * Day
    BY <2>1, <2>2, Numbers
  <2>4. ASSUME NEW sold, Arrives(sold), sold \subseteq {now}
        PROVE  /\ opens' \in Opens /\ regime' \in Regimes /\ now' \in 0..Days * Day
               /\ ts' = now /\ ts' \in -1..now' - 1 /\ bars' \in 0..Warmup
               /\ stopSales' \subseteq Nat
    <3>1. now' = now + 1 /\ ts' = now /\ bars' = MinOf(bars + 1, Warmup)
          /\ opens' = opens /\ regime' = regime
          /\ stopSales' = {s \in stopSales : now - s < Day} \cup sold
      BY <2>4 DEF Arrives, Advance, data
    <3>2. bars' \in 0..Warmup
      BY <3>1, Numbers DEF MinOf, TypeOK
    <3>3. ts' \in -1..now' - 1
      BY <2>2, <3>1
    <3>4. stopSales' \subseteq Nat
      BY <2>2, <2>4, <3>1 DEF TypeOK
    <3> QED BY <2>3, <3>1, <3>2, <3>3, <3>4 DEF TypeOK
  <2>5. ts \div Day <= Today
    BY <2>2, DatesOrdered DEF Today
  <2>6. pos.date <= Today /\ pos.date \in Int /\ stopDate <= Today
    <3>1. ts \div Day \in Int
      BY <2>2, Numbers
    <3>2. stopDate \in Int /\ stopDate <= ts \div Day
      BY Numbers DEF TypeOK, Dates
    <3> QED BY <2>2, <2>5, <3>1, <3>2, Positions DEF TypeOK
  <2>7. Seen => sound' \in BOOLEAN
    BY DEF Seen, TypeOK
  <2>8. CASE Missing
    <3>1. /\ now' = now + 1 /\ ts' = ts /\ bars' = bars /\ opens' = opens /\ regime' = regime
          /\ pos' = pos /\ blockedUntil' = blockedUntil /\ stops' = stops
          /\ stopDate' = stopDate /\ stopSales' \subseteq stopSales
      BY <2>8 DEF Missing, Advance, data, rules
    <3>2. sound' \in BOOLEAN
      BY <2>8 DEF Missing, TypeOK
    <3>3. ts' \in -1..now' - 1
      BY <2>2, <3>1
    <3> QED BY <2>3, <3>1, <3>2, <3>3 DEF TypeOK
  <2>9. CASE StaysOut
    BY <2>4, <2>6, <2>7, <2>9, Positions DEF StaysOut, rules, TypeOK, Today
  <2>10. ASSUME NEW s \in Signals, Enters(s) PROVE TypeOK'
    <3>1. pos' \in PositionOrNone /\ pos'.date = Today /\ Arrives({})
      BY <2>2, <2>10, Positions DEF Enters
    <3>2. /\ blockedUntil' = blockedUntil /\ stops' = stops /\ stopDate' = stopDate
          /\ sound' = TRUE
      BY <2>10 DEF Enters, rules
    <3>3. /\ blockedUntil' \in Nat /\ stops' \in Nat /\ stopDate' \in Dates \cup {-1}
          /\ stopDate' <= Today /\ (stopDate' # -1 => stops' > 0)
      BY <2>6, <3>2 DEF TypeOK
    <3> QED BY <2>2, <2>4, <3>1, <3>2, <3>3 DEF TypeOK, Today
  <2>11. ASSUME NEW s \in Signals, NEW p \in Prices, Keeps(s, p) PROVE TypeOK'
    <3>1. pos' \in PositionOrNone /\ pos'.date = pos.date /\ Arrives({}) /\ Seen
      BY <2>11, Older DEF Keeps
    <3> QED BY <2>4, <2>6, <2>7, <2>11, <3>1 DEF Keeps, rules, TypeOK, Today
  <2>12. ASSUME NEW p \in Prices, Sells(p) PROVE TypeOK'
    <3>1. pos' \in PositionOrNone /\ pos'.date <= Today /\ Seen
          /\ Arrives(IF ForceStop(p) THEN {now} ELSE {})
      BY <2>2, <2>12, Positions DEF Sells
    <3>2. StopsNow \in Nat /\ StopsNow > 0
      BY DEF StopsNow, TypeOK
    <3>3. BlockAfterStop \in Nat
      BY <2>2, WeekdayFollows, Numbers DEF BlockAfterStop
    <3>4. /\ blockedUntil' \in Nat /\ stops' \in Nat /\ stopDate' \in Dates \cup {-1}
          /\ stopDate' <= Today /\ (stopDate' # -1 => stops' > 0)
      BY <2>2, <2>6, <2>12, <3>2, <3>3 DEF Sells, TypeOK
    <3> QED BY <2>4, <2>7, <3>1, <3>4 DEF TypeOK, Today
  <2> QED BY <1>2, <2>8, <2>9, <2>10, <2>11, <2>12
          DEF Next, FlipExit, ForcedExit, SignalExit
<1> QED BY <1>1, <1>2

\* Every reachable state of the replay is well typed: no position and no date of stops is
\* later than the last bar, and a date of stops counts one (run_simulation, 551-726).
THEOREM ReplayTypes == Spec => []TypeOK
<1>1. Init => TypeOK
  <2> SUFFICES ASSUME Init PROVE TypeOK
    OBVIOUS
  <2>1. (-1) \div Day = -1
    BY BeforeTime
  <2>2. 0 \in 0..Days * Day
    BY Numbers
  <2>3. ts \in -1..now - 1 /\ bars \in 0..Warmup /\ stopSales \subseteq Nat
    BY Numbers DEF Init
  <2>4. pos \in PositionOrNone /\ pos.date <= ts \div Day /\ stopDate <= ts \div Day
    BY <2>1, Positions DEF Init
  <2> QED BY <2>2, <2>3, <2>4 DEF Init, TypeOK
<1> QED BY <1>1, StepTypes, PTL DEF Spec

-----------------------------------------------------------------------------
(* Steps *)

\* Every step of the replay is one of these, with time going on by a slot.
LEMMA Steps ==
    ASSUME TypeOK, Next
    PROVE  /\ now < Days * Day /\ now' = now + 1 /\ opens' = opens /\ regime' = regime
           /\ \/ Missing
              \/ StaysOut /\ ts' = now
              \/ (\E s \in Signals : Enters(s)) /\ ts' = now
              \/ (\E s \in Signals, p \in Prices : Keeps(s, p)) /\ ts' = now
              \/ (\E p \in Prices : Sells(p)) /\ ts' = now
BY DEF Next, Missing, StaysOut, Enters, Keeps, FlipExit, ForcedExit, SignalExit, Sells,
       Arrives, Advance, data

\* A stuttering step.
LEMMA Stutters ==
    ASSUME UNCHANGED vars
    PROVE  /\ opens' = opens /\ regime' = regime /\ now' = now /\ ts' = ts /\ pos' = pos
           /\ blockedUntil' = blockedUntil /\ stops' = stops /\ stopDate' = stopDate
           /\ stopSales' = stopSales /\ sound' = sound
BY DEF vars, data, rules

-----------------------------------------------------------------------------
(* Red days *)

\* A position was entered on a green day.
Green == pos # NoPos => regime[pos.date]

LEMMA RedStep == TypeOK /\ Green /\ RedDayLeft /\ [Next]_vars => Green' /\ RedDayLeft'
<1> SUFFICES ASSUME TypeOK, Green, RedDayLeft, [Next]_vars PROVE Green' /\ RedDayLeft'
  OBVIOUS
<1>1. CASE UNCHANGED vars
  BY <1>1, Stutters DEF Green, RedDayLeft
<1>2. CASE Next
  <2>1. CASE Missing
    BY <1>2, <2>1, Steps DEF Missing, Green, RedDayLeft
  <2>2. CASE StaysOut \/ \E p \in Prices : Sells(p)
    BY <2>2 DEF StaysOut, Sells, Green, RedDayLeft
  <2>3. ASSUME NEW s \in Signals, Enters(s), ts' = now PROVE Green' /\ RedDayLeft'
    <3>1. pos'.date = Today /\ regime[Today] /\ regime' = regime
      BY <1>2, <2>3, Steps DEF Enters, MayEnter
    <3> QED BY <2>3, <3>1 DEF Green, RedDayLeft, Today
  <2>4. ASSUME NEW s \in Signals, NEW p \in Prices, Keeps(s, p), ts' = now
        PROVE  Green' /\ RedDayLeft'
    <3>1. pos # NoPos /\ pos'.date = pos.date /\ pos'.age = Age /\ regime' = regime
      BY <1>2, <2>4, Steps, Older DEF Keeps
    <3>2. Age < MinHold \/ Today = pos.date \/ regime[Today]
      BY <2>4 DEF Keeps, RegimeFlip
    <3>3. regime[pos.date]
      BY <3>1 DEF Green
    <3>4. ~regime[Today] => pos'.age < MinHold /\ pos'.date # Today
      BY <3>1, <3>2, <3>3
    <3> QED BY <2>4, <3>1, <3>3, <3>4 DEF Green, RedDayLeft, Today
  <2> QED BY <1>2, <2>1, <2>2, <2>3, <2>4, Steps
<1> QED BY <1>1, <1>2

\* Once a bar of a red day has come, no position that has reached the minimum hold is
\* held, and nothing is bought on that day (simulate_etf_monitor.py 618 and 674-683).
THEOREM RedDaysLeft == Spec => []RedDayLeft
<1>1. Init => Green /\ RedDayLeft
  BY DEF Init, Green, RedDayLeft
<1> QED BY <1>1, ReplayTypes, RedStep, PTL DEF Spec

-----------------------------------------------------------------------------
(* Flat outside the session *)

\* Entries end before positions are closed by enough for the minimum hold, and the
\* window in which they are closed has a bar.
FlatTimes == EodClose >= 1 /\ NoEntry >= 1 /\ MinHold <= NoEntry /\ MinHold <= Session

\* A position in a sound session is held in the session only; as long as it is younger
\* than the minimum hold, it is as old as the bars since the opening or the entry are.
FlatInv == pos # NoPos /\ sound =>
    /\ InSession
    /\ pos.age < MinHold => \/ Slot - pos.age <= opens
                            \/ Close - (Slot - 1 - pos.age) > NoEntry

\* The numbers of a session.
LEMMA SessionNumbers ==
    ASSUME TypeOK, now < Days * Day
    PROVE  /\ Slot \in Nat /\ Slot < Day /\ opens \in Nat \ {0} /\ Close \in Nat /\ Close <= Day
           /\ Close = opens + Session /\ Session \in Nat /\ Session >= 1 /\ Day \in Nat
           /\ NoEntry \in Nat /\ MinHold \in Nat /\ EodClose \in Nat
BY Numbers, TodayIsDate DEF TypeOK, Close

\* Within a session the next slot is the next of the day.
LEMMA SlotGoesOn ==
    ASSUME TypeOK, Next, Slot + 1 < Close
    PROVE  Slot' = Slot + 1 /\ Close' = Close
<1>1. now < Days * Day /\ now' = now + 1 /\ opens' = opens
  BY Steps
<1>2. now \in Nat
  BY <1>1, TodayIsDate
<1>3. Slot + 1 < Day
  BY <1>1, SessionNumbers
<1>4. (now % Day) + 1 < Day
  BY <1>3 DEF Slot
<1>5. (now + 1) % Day = (now % Day) + 1
  BY <1>2, <1>4, NextSlot
<1> QED BY <1>1, <1>5 DEF Slot, Close

LEMMA FlatStep == FlatTimes /\ TypeOK /\ FlatInv /\ [Next]_vars => FlatInv'
<1> SUFFICES ASSUME FlatTimes, TypeOK, FlatInv, [Next]_vars PROVE FlatInv'
  OBVIOUS
<1>1. CASE UNCHANGED vars
  BY <1>1, Stutters DEF FlatInv, InSession, Slot, Close
<1>2. CASE Next
  <2>1. now < Days * Day
    BY <1>2, Steps
  <2>2. CASE Missing
    <3>1. pos' = pos /\ (sound' => sound /\ ~InSession)
      BY <2>2 DEF Missing
    <3> QED BY <3>1 DEF FlatInv
  <2>3. CASE StaysOut \/ \E p \in Prices : Sells(p)
    BY <2>3 DEF StaysOut, Sells, FlatInv
  <2>4. ASSUME NEW s \in Signals, Enters(s) PROVE FlatInv'
    <3>1. /\ opens <= Slot /\ Slot < Close /\ ~Within(NoEntry) /\ pos'.age = 0
      BY <2>4 DEF Enters, MayEnter, EntryWindow, InSession
    <3>2. Close - Slot > NoEntry /\ Slot + 1 < Close
      BY <2>1, <3>1, SessionNumbers DEF Within, FlatTimes
    <3>3. Slot' = Slot + 1 /\ Close' = Close /\ opens' = opens
      BY <1>2, <3>2, SlotGoesOn, Steps
    <3>4. opens' <= Slot' /\ Slot' < Close' /\ Close' - (Slot' - 1 - pos'.age) > NoEntry
      BY <2>1, <3>1, <3>2, <3>3, SessionNumbers
    <3> QED BY <3>4 DEF FlatInv, InSession
  <2>5. ASSUME NEW s \in Signals, NEW p \in Prices, Keeps(s, p) PROVE FlatInv'
    <3> SUFFICES ASSUME sound' PROVE FlatInv'
      BY DEF FlatInv
    <3>1. /\ pos # NoPos /\ pos'.age = Age /\ Age \in Nat /\ pos.age \in Nat
          /\ Age = IF pos.age = MinHold THEN MinHold ELSE pos.age + 1
          /\ pos.age <= MinHold
      BY <2>5, Older, Positions, Numbers DEF Keeps, TypeOK
    <3>2. Slot = opens \/ sound
      BY <2>5 DEF Keeps, Seen
    <3>3. /\ opens <= Slot /\ Slot < Close
          /\ pos.age < MinHold => \/ Slot - pos.age <= opens
                                  \/ Close - (Slot - 1 - pos.age) > NoEntry
      <4>1. CASE Slot = opens
        BY <2>1, <3>1, <4>1, SessionNumbers
      <4>2. CASE sound
        BY <3>1, <4>2 DEF FlatInv, InSession
      <4> QED BY <3>2, <4>1, <4>2
    <3>4. Slot + 1 < Close
      <4> SUFFICES ASSUME ~(Slot + 1 < Close) PROVE FALSE
        OBVIOUS
      <4>1. Slot + 1 = Close
        BY <2>1, <3>3, SessionNumbers
      <4>2. ForceEod
        BY <2>1, <4>1, SessionNumbers DEF ForceEod, Within, FlatTimes
      <4>3. Age < MinHold
        BY <2>5, <4>2 DEF Keeps
      <4>4. Age = pos.age + 1 /\ pos.age < MinHold
        BY <2>1, <3>1, <4>3, SessionNumbers
      <4> QED BY <2>1, <3>1, <3>3, <4>1, <4>3, <4>4, SessionNumbers DEF FlatTimes
    <3>5. Slot' = Slot + 1 /\ Close' = Close /\ opens' = opens
      BY <1>2, <3>4, SlotGoesOn, Steps
    <3>6. opens' <= Slot' /\ Slot' < Close'
      BY <2>1, <3>3, <3>4, <3>5, SessionNumbers
    <3>7. pos'.age < MinHold => \/ Slot' - pos'.age <= opens'
                                \/ Close' - (Slot' - 1 - pos'.age) > NoEntry
      BY <2>1, <3>1, <3>3, <3>5, SessionNumbers
    <3> QED BY <3>6, <3>7 DEF FlatInv, InSession
  <2> QED BY <1>2, <2>2, <2>3, <2>4, <2>5, Steps
<1> QED BY <1>1, <1>2

\* With such times nothing is carried out of a session all of whose bars since the
\* opening, or since the entry, were there (simulate_etf_monitor.py 607-609 and 671).
THEOREM FlatAfterSession == FlatTimes => (Spec => []FlatOvernight)
<1>1. Init => FlatInv
  BY DEF Init, FlatInv
<1>2. FlatInv => FlatOvernight
  BY DEF FlatInv, FlatOvernight
<1>3. CASE ~FlatTimes
  BY <1>3
<1>4. CASE FlatTimes
  <2>1. TypeOK /\ FlatInv /\ [Next]_vars => FlatInv'
    BY <1>4, FlatStep
  <2>2. Spec => []FlatOvernight
    BY <1>1, <1>2, <2>1, ReplayTypes, PTL DEF Spec
  <2> QED BY <2>2
<1> QED BY <1>3, <1>4

-----------------------------------------------------------------------------
(* The block after a stop-loss *)

\* The cooldown is no longer than the time from midnight to where the breaker ends.
CooldownFits == Cooldown <= Reset + 1

\* After the last stop-loss of a date entries are blocked through that date, and after
\* any of them for the cooldown.
LEMMA Blocks ==
    ASSUME TypeOK, now < Days * Day
    PROVE  /\ StopsNow \in Nat /\ BlockAfterStop \in Nat
           /\ CooldownFits => BlockAfterStop >= now + Cooldown
           /\ StopsNow >= MaxStops => BlockAfterStop >= Today * Day + Day
           /\ now < Today * Day + Day
<1>1. /\ Today \in Dates /\ Today \in Nat /\ now \in Nat /\ Slot \in 0..Day - 1
      /\ now = Day * Today + Slot
  BY TodayIsDate
<1>2. Day * Today = Today * Day /\ Today * Day \in Nat /\ Day \in Nat /\ Day > 0
      /\ Reset \in Nat /\ Cooldown \in Nat /\ MaxStops \in Nat
  BY <1>1, Numbers
<1>3. StopsNow \in Nat
  BY DEF StopsNow, TypeOK
<1>4. NextWeekday(Today) * Day >= Today * Day + Day /\ NextWeekday(Today) * Day \in Nat
  <2>1. /\ (Today + 1) * Day = Today * Day + Day /\ (Today + 2) * Day = Today * Day + Day + Day
        /\ (Today + 3) * Day = Today * Day + Day + Day + Day
    BY <1>1, Numbers
  <2>2. \/ NextWeekday(Today) = Today + 1 \/ NextWeekday(Today) = Today + 2
        \/ NextWeekday(Today) = Today + 3
    BY <1>1, WeekdayFollows
  <2> QED BY <1>2, <2>1, <2>2
<1>5. now < Today * Day + Day
  BY <1>1, <1>2
<1>6. BlockAfterStop = IF StopsNow >= MaxStops THEN NextWeekday(Today) * Day + Reset
                                               ELSE now + Cooldown
  BY DEF BlockAfterStop
<1> HIDE DEF Today
<1> QED BY <1>1, <1>2, <1>3, <1>4, <1>5, <1>6 DEF CooldownFits

\* Every sale at a stop is over, and either blocks or is the cooldown ago; while a
\* position is held they all are.
CooldownInv == \A s \in stopSales :
    /\ s < now
    /\ blockedUntil >= s + Cooldown \/ now - s >= Cooldown
    /\ pos # NoPos => now - s >= Cooldown

LEMMA CooldownStep == CooldownFits /\ TypeOK /\ CooldownInv /\ [Next]_vars => CooldownInv'
<1> SUFFICES ASSUME CooldownFits, TypeOK, CooldownInv, [Next]_vars,
                    NEW s \in stopSales'
             PROVE  /\ s < now'
                    /\ blockedUntil' >= s + Cooldown \/ now' - s >= Cooldown
                    /\ pos' # NoPos => now' - s >= Cooldown
  BY DEF CooldownInv
<1>1. CASE UNCHANGED vars
  BY <1>1, Stutters DEF CooldownInv
<1>2. CASE Next
  <2>1. now < Days * Day /\ now' = now + 1 /\ now \in Nat /\ blockedUntil \in Nat
        /\ stopSales \subseteq Nat /\ Cooldown \in Nat
    BY <1>2, Steps, TodayIsDate, Numbers DEF TypeOK
  <2>2. s \in stopSales => /\ s \in Nat /\ s < now
                           /\ blockedUntil >= s + Cooldown \/ now - s >= Cooldown
                           /\ pos # NoPos => now - s >= Cooldown
    BY <2>1 DEF CooldownInv
  <2>3. CASE Missing
    BY <2>1, <2>2, <2>3 DEF Missing, Advance, rules
  <2>4. CASE StaysOut
    BY <2>1, <2>2, <2>4 DEF StaysOut, Arrives, Advance, rules
  <2>5. ASSUME NEW t \in Signals, Enters(t)
        PROVE  s < now' /\ now' - s >= Cooldown
    <3>1. s \in stopSales /\ now >= blockedUntil
      BY <2>5 DEF Enters, Arrives, Advance, MayEnter
    <3> QED BY <2>1, <2>2, <3>1
  <2>6. ASSUME NEW t \in Signals, NEW p \in Prices, Keeps(t, p)
        PROVE  s < now' /\ now' - s >= Cooldown
    BY <2>1, <2>2, <2>6 DEF Keeps, Arrives, Advance
  <2>7. ASSUME NEW p \in Prices, Sells(p)
        PROVE  /\ s < now' /\ pos' = NoPos
               /\ blockedUntil' >= s + Cooldown \/ now' - s >= Cooldown
    <3>1. pos # NoPos /\ pos' = NoPos
      BY <2>7 DEF Sells
    <3>2. CASE s \in stopSales
      BY <2>1, <2>2, <3>1, <3>2
    <3>3. CASE s \notin stopSales
      <4>1. s = now /\ ForceStop(p)
        BY <2>7, <3>3 DEF Sells, Arrives, Advance
      <4>2. blockedUntil' = BlockAfterStop
        BY <2>7, <4>1 DEF Sells
      <4> QED BY <2>1, <3>1, <4>1, <4>2, Blocks
    <3> QED BY <3>2, <3>3
  <2> QED BY <1>2, <2>3, <2>4, <2>5, <2>6, <2>7, Steps
<1> QED BY <1>1, <1>2

\* Nothing is bought within the cooldown of a sale at a stop, if the cooldown is no
\* longer than the block of the circuit breaker may be (simulate_etf_monitor.py 712-726).
THEOREM CooldownHolds == CooldownFits => (Spec => CooldownKept)
<1>1. Init => CooldownInv
  BY DEF Init, CooldownInv
<1>2. TypeOK /\ CooldownInv /\ [Next]_vars
        => [Buys => \A s \in stopSales : now - s >= Cooldown]_vars
  <2> SUFFICES ASSUME TypeOK, CooldownInv, Next, Buys, NEW s \in stopSales
               PROVE  now - s >= Cooldown
    OBVIOUS
  <2>1. now < Days * Day /\ now \in Nat /\ blockedUntil \in Nat /\ s \in Nat /\ Cooldown \in Nat
    BY Steps, TodayIsDate, Numbers DEF TypeOK
  <2>2. now >= blockedUntil
    BY Steps DEF Buys, Missing, StaysOut, Enters, Keeps, Sells, MayEnter
  <2> QED BY <2>1, <2>2 DEF CooldownInv
<1>3. CASE ~CooldownFits
  BY <1>3
<1>4. CASE CooldownFits
  <2>1. TypeOK /\ CooldownInv /\ [Next]_vars => CooldownInv'
    BY <1>4, CooldownStep
  <2>2. Spec => CooldownKept
    BY <1>1, <1>2, <2>1, ReplayTypes, PTL DEF Spec, CooldownKept
  <2> QED BY <2>2
<1> QED BY <1>3, <1>4

-----------------------------------------------------------------------------
(* The circuit breaker *)

\* The sales at a stop that are remembered of a date.
StopsOn(d) == {s \in stopSales : s \div Day = d}

\* stops is no less than the sales at a stop on its date, and none is later; when they
\* are the last ones of that date, nothing is held for the rest of it.
BreakerInv ==
    /\ IsFiniteSet(stopSales)
    /\ Cardinality(StopsOn(stopDate)) <= stops
    /\ \A s \in stopSales : s \div Day <= stopDate
    /\ stopDate = -1 => stops = 0
    /\ stopDate # -1 => stopDate * Day <= now
    /\ stops >= MaxStops /\ now < stopDate * Day + Day =>
           pos = NoPos /\ blockedUntil >= stopDate * Day + Day

\* The last sale at a stop was not after today.
LEMMA StopDatePast ==
    ASSUME TypeOK, BreakerInv, now < Days * Day
    PROVE  stopDate <= Today
<1>1. now \in Nat /\ Today \in Nat /\ stopDate \in Dates \cup {-1}
  BY TodayIsDate DEF TypeOK
<1>2. CASE stopDate = -1
  BY <1>1, <1>2
<1>3. CASE stopDate # -1
  <2>1. stopDate \in Nat /\ stopDate * Day <= now
    BY <1>1, <1>3, Numbers DEF Dates, BreakerInv
  <2>2. stopDate * Day \in Nat /\ (stopDate * Day) \div Day = stopDate
    BY <2>1, Numbers
  <2> QED BY <1>1, <2>1, <2>2, DatesOrdered DEF Today
<1> QED BY <1>2, <1>3

\* Fewer sales are remembered as time passes.
LEMMA FewerStops ==
    ASSUME TypeOK, BreakerInv, stopSales' \subseteq stopSales, stopDate' = stopDate, stops' = stops
    PROVE  /\ IsFiniteSet(stopSales') /\ Cardinality(StopsOn(stopDate)') <= stops'
           /\ \A s \in stopSales' : s \div Day <= stopDate'
<1>1. IsFiniteSet(stopSales) /\ IsFiniteSet(stopSales')
  BY FS_Subset DEF BreakerInv
<1>2. StopsOn(stopDate)' \subseteq StopsOn(stopDate) /\ StopsOn(stopDate) \subseteq stopSales
  BY DEF StopsOn
<1>3. IsFiniteSet(StopsOn(stopDate))
  BY <1>1, <1>2, FS_Subset
<1>4. IsFiniteSet(StopsOn(stopDate)')
      /\ Cardinality(StopsOn(stopDate)') <= Cardinality(StopsOn(stopDate))
  BY <1>2, <1>3, FS_Subset
<1>5. Cardinality(StopsOn(stopDate)') \in Nat /\ Cardinality(StopsOn(stopDate)) \in Nat
  BY <1>3, <1>4, FS_CardinalityType
<1> QED BY <1>1, <1>4, <1>5 DEF BreakerInv, TypeOK

\* One more sale at a stop is counted.
LEMMA OneMoreStop ==
    ASSUME TypeOK, BreakerInv, now < Days * Day,
           stopSales' \subseteq stopSales \cup {now}, stopDate' = Today, stops' = StopsNow
    PROVE  /\ IsFiniteSet(stopSales') /\ Cardinality(StopsOn(stopDate)') <= stops'
           /\ \A s \in stopSales' : s \div Day <= stopDate'
<1> DEFINE before == {s \in stopSales : s \div Day = Today}
           after == {s \in stopSales' : s \div Day = Today}
<1>1. now \in Nat /\ Today \in Nat /\ stops \in Nat /\ stopDate \in Dates \cup {-1}
  BY TodayIsDate DEF TypeOK
<1>2. IsFiniteSet(stopSales \cup {now})
  BY FS_AddElement DEF BreakerInv
<1>3. IsFiniteSet(stopSales') /\ IsFiniteSet(before) /\ before \subseteq stopSales
  BY <1>2, FS_Subset DEF BreakerInv
<1>4. after \subseteq before \cup {now}
  OBVIOUS
<1>5. /\ IsFiniteSet(before \cup {now}) /\ Cardinality(before) \in Nat
      /\ Cardinality(before \cup {now}) <= Cardinality(before) + 1
      /\ Cardinality(before \cup {now}) \in Nat
  <2> HIDE DEF before
  <2>1. /\ IsFiniteSet(before \cup {now})
        /\ Cardinality(before \cup {now}) =
              IF now \in before THEN Cardinality(before) ELSE Cardinality(before) + 1
    BY <1>3, FS_AddElement
  <2> QED BY <1>3, <2>1, FS_CardinalityType
<1>6. Cardinality(after) <= Cardinality(before) + 1
  <2>1. Cardinality(after) \in Nat /\ Cardinality(after) <= Cardinality(before \cup {now})
    <3> HIDE DEF before, after
    <3> QED BY <1>4, <1>5, FS_Subset, FS_CardinalityType
  <2> HIDE DEF before, after
  <2> QED BY <1>5, <2>1
<1>7. Cardinality(before) + 1 <= StopsNow
  <2>1. CASE stopDate = Today
    <3>1. before = StopsOn(stopDate)
      BY <2>1 DEF StopsOn
    <3> HIDE DEF before
    <3> QED BY <1>1, <1>5, <2>1, <3>1 DEF StopsNow, BreakerInv
  <2>2. CASE stopDate # Today
    <3>1. stopDate < Today
      BY <1>1, <2>2, StopDatePast, Numbers DEF Dates
    <3>2. \A s \in stopSales : s \div Day # Today
      <4> SUFFICES ASSUME NEW s \in stopSales, s \div Day = Today PROVE FALSE
        OBVIOUS
      <4>1. s \div Day <= stopDate
        BY DEF BreakerInv
      <4> QED BY <1>1, <3>1, <4>1, Numbers DEF Dates
    <3>3. before = {}
      BY <3>2
    <3>4. Cardinality(before) = 0
      BY <3>3, FS_EmptySet
    <3> QED BY <2>2, <3>4 DEF StopsNow
  <2> QED BY <2>1, <2>2
<1>8. after = StopsOn(stopDate)'
  BY DEF StopsOn
<1>9. StopsNow \in Nat
  BY <1>1 DEF StopsNow
<1>10. \A s \in stopSales' : s \div Day <= stopDate'
  <2> SUFFICES ASSUME NEW s \in stopSales' PROVE s \div Day <= Today
    OBVIOUS
  <2>1. CASE s = now
    BY <1>1, <2>1 DEF Today
  <2>2. CASE s \in stopSales
    <3>1. s \in Nat /\ s \div Day <= stopDate
      BY <2>2 DEF TypeOK, BreakerInv
    <3> QED BY <1>1, <3>1, StopDatePast, DateSlot, Numbers DEF Dates
  <2> QED BY <2>1, <2>2
<1> HIDE DEF before, after
<1>11. Cardinality(after) <= stops'
  <2>1. Cardinality(after) \in Nat
    <3>1. IsFiniteSet(after)
      BY <1>4, <1>5, FS_Subset
    <3> QED BY <3>1, FS_CardinalityType
  <2> QED BY <1>5, <1>6, <1>7, <1>9, <2>1
<1> QED BY <1>3, <1>8, <1>10, <1>11

LEMMA BreakerStep == TypeOK /\ BreakerInv /\ [Next]_vars => BreakerInv'
<1> SUFFICES ASSUME TypeOK, BreakerInv, [Next]_vars PROVE BreakerInv'
  OBVIOUS
<1>1. CASE UNCHANGED vars
  BY <1>1, Stutters DEF BreakerInv, StopsOn
<1>2. CASE Next
  <2> DEFINE end == stopDate * Day + Day
  <2>1. /\ now < Days * Day /\ now' = now + 1 /\ now \in Nat /\ blockedUntil \in Nat
        /\ stops \in Nat /\ stopDate * Day \in Int /\ MaxStops \in Nat \ {0} /\ Day \in Nat
    BY <1>2, Steps, TodayIsDate, Numbers DEF TypeOK, Dates
  <2>2. stops >= MaxStops /\ now < end => pos = NoPos /\ blockedUntil >= end
    BY DEF BreakerInv
  <2>3. ASSUME stopDate' = stopDate, stops' = stops, stopSales' \subseteq stopSales,
               stops >= MaxStops /\ now < end => pos' = NoPos /\ blockedUntil' >= end
        PROVE  BreakerInv'
    <3>1. /\ IsFiniteSet(stopSales') /\ Cardinality(StopsOn(stopDate)') <= stops'
          /\ \A s \in stopSales' : s \div Day <= stopDate'
      BY <2>3, FewerStops
    <3>2. /\ stopDate' = -1 => stops' = 0
          /\ stopDate' # -1 => stopDate' * Day <= now'
      BY <2>1, <2>3 DEF BreakerInv
    <3>3. stops' >= MaxStops /\ now' < stopDate' * Day + Day =>
              pos' = NoPos /\ blockedUntil' >= stopDate' * Day + Day
      BY <2>1, <2>3
    <3> QED BY <3>1, <3>2, <3>3 DEF BreakerInv
  <2> HIDE DEF end
  <2>4. CASE Missing
    BY <2>2, <2>3, <2>4 DEF Missing, Advance, rules
  <2>5. CASE StaysOut
    BY <2>2, <2>3, <2>5 DEF StaysOut, Arrives, Advance, rules
  <2>6. ASSUME NEW t \in Signals, Enters(t) PROVE BreakerInv'
    <3>1. /\ stopDate' = stopDate /\ stops' = stops /\ stopSales' \subseteq stopSales
          /\ now >= blockedUntil
      BY <2>6 DEF Enters, Arrives, Advance, rules, MayEnter
    <3>2. ~(stops >= MaxStops /\ now < end)
      BY <2>1, <2>2, <3>1 DEF end
    <3> QED BY <2>3, <3>1, <3>2
  <2>7. ASSUME NEW t \in Signals, NEW p \in Prices, Keeps(t, p) PROVE BreakerInv'
    BY <2>2, <2>3, <2>7 DEF Keeps, Arrives, Advance, rules
  <2>8. ASSUME NEW p \in Prices, Sells(p) PROVE BreakerInv'
    <3>1. CASE ~ForceStop(p)
      BY <2>2, <2>3, <2>8, <3>1 DEF Sells, Arrives, Advance
    <3>2. CASE ForceStop(p)
      <4>1. /\ stopDate' = Today /\ stops' = StopsNow /\ blockedUntil' = BlockAfterStop
            /\ pos' = NoPos /\ stopSales' \subseteq stopSales \cup {now}
        BY <2>8, <3>2 DEF Sells, Arrives, Advance
      <4>2. /\ IsFiniteSet(stopSales') /\ Cardinality(StopsOn(stopDate)') <= stops'
            /\ \A s \in stopSales' : s \div Day <= stopDate'
        BY <2>1, <4>1, OneMoreStop
      <4>3. Today \in Nat /\ now = Day * Today + Slot /\ Slot \in 0..Day - 1
        BY <2>1, TodayIsDate
      <4>4. Today * Day <= now'
        <5>1. Day * Today = Today * Day /\ Today * Day \in Nat
          BY <4>3, Numbers
        <5> QED BY <2>1, <4>3, <5>1
      <4>5. stops' >= MaxStops => blockedUntil' >= stopDate' * Day + Day
        BY <2>1, <4>1, Blocks
      <4>6. stopDate' # -1
        BY <4>1, <4>3
      <4> QED BY <4>1, <4>2, <4>4, <4>5, <4>6 DEF BreakerInv
    <3> QED BY <3>1, <3>2
  <2> QED BY <1>2, <2>4, <2>5, <2>6, <2>7, <2>8, Steps
<1> QED BY <1>1, <1>2

\* After the last stop-loss a date may have nothing is bought on that date, whatever bars
\* come and however long the cooldown is (simulate_etf_monitor.py 713-722).
THEOREM BreakerHolds == Spec => BreakerKept
<1>1. Init => BreakerInv
  <2> SUFFICES ASSUME Init PROVE BreakerInv
    OBVIOUS
  <2>1. stopSales = {} /\ StopsOn(stopDate) = {} /\ stops = 0 /\ stopDate = -1
    BY DEF Init, StopsOn
  <2>2. IsFiniteSet(stopSales) /\ Cardinality(StopsOn(stopDate)) = 0
    BY <2>1, FS_EmptySet
  <2>3. ~(stops >= MaxStops)
    BY <2>1, Numbers
  <2> QED BY <2>1, <2>2, <2>3 DEF BreakerInv
<1>2. TypeOK /\ BreakerInv /\ [Next]_vars => [Buys => Cardinality(StopsToday) < MaxStops]_vars
  <2> SUFFICES ASSUME TypeOK, BreakerInv, Next, Buys, ~(Cardinality(StopsToday) < MaxStops)
               PROVE  FALSE
    OBVIOUS
  <2>1. /\ now < Days * Day /\ now \in Nat /\ blockedUntil \in Nat /\ stops \in Nat
        /\ MaxStops \in Nat \ {0} /\ stopDate \in Dates \cup {-1} /\ Today \in Nat
    BY Steps, TodayIsDate, Numbers DEF TypeOK
  <2>2. now >= blockedUntil
    BY Steps DEF Buys, Missing, StaysOut, Enters, Keeps, Sells, MayEnter
  <2>3. StopsToday \subseteq stopSales /\ IsFiniteSet(stopSales)
    BY DEF StopsToday, BreakerInv
  <2>4. Cardinality(StopsToday) \in Nat
    BY <2>3, FS_Subset, FS_CardinalityType
  <2>5. StopsToday # {}
    <3> SUFFICES ASSUME StopsToday = {} PROVE FALSE
      OBVIOUS
    <3>1. Cardinality(StopsToday) = 0
      BY FS_EmptySet
    <3> QED BY <2>1, <3>1
  <2>6. Today <= stopDate
    <3>1. PICK s \in stopSales : s \div Day = Today
      BY <2>5 DEF StopsToday
    <3> QED BY <3>1 DEF BreakerInv
  <2>7. stopDate = Today
    BY <2>1, <2>6, StopDatePast, Numbers DEF Dates
  <2>8. StopsToday = StopsOn(stopDate)
    BY <2>7 DEF StopsToday, StopsOn
  <2>9. stops >= MaxStops
    BY <2>1, <2>4, <2>8 DEF BreakerInv
  <2>10. now < stopDate * Day + Day
    BY <2>1, <2>7, Blocks
  <2>11. blockedUntil >= stopDate * Day + Day /\ stopDate * Day \in Int /\ Day \in Nat
    BY <2>1, <2>7, <2>9, <2>10, Numbers DEF BreakerInv
  <2> QED BY <2>1, <2>2, <2>10, <2>11
<1> QED BY <1>1, <1>2, ReplayTypes, BreakerStep, PTL DEF Spec, BreakerKept

-----------------------------------------------------------------------------
(* The breakeven stop *)

\* "If profitable near close, floor stop at entry" (simulate_etf_monitor.py 666-669, and
\* etf_monitor.py 740-743 in the same words) changes nothing: the floor is set only by a
\* price above it, and forgotten before the next one comes.
THEOREM BreakevenNeverSells ==
    ASSUME NEW near \in BOOLEAN, NEW p \in Int, Breakeven > 0
    PROVE  p <= StopAt(near, p) <=> p <= (IF near THEN -TightStop ELSE -StopLoss)
<1>1. TightStop \in Nat /\ StopLoss \in Nat /\ Breakeven \in Nat
  BY ModeAssumption
<1>2. CASE near /\ p >= Breakeven
  <2>1. StopAt(near, p) = 0
    BY <1>1, <1>2 DEF StopAt, MaxOf
  <2>2. (IF near THEN -TightStop ELSE -StopLoss) = -TightStop
    BY <1>2
  <2>3. ~(p <= 0) /\ ~(p <= -TightStop)
    BY <1>1, <1>2
  <2> QED BY <2>1, <2>2, <2>3
<1>3. CASE ~(near /\ p >= Breakeven)
  BY <1>3 DEF StopAt
<1> QED BY <1>2, <1>3
=============================================================================
