---------------------------- MODULE CashCycleProofs ----------------------------
(***************************************************************************)
(* Theorems about CashCycle for any stocks, runs, accounts, limits and     *)
(* faults, and the lemmas about sums over finite sets that they rest on.   *)
(***************************************************************************)
EXTENDS CashCycle, FiniteSetTheorems, TLAPS

-----------------------------------------------------------------------------
(* Sums over finite sets.  The induction theorems of the library take an   *)
(* operator, so induction is stated here of sets.                          *)

\* Induction on the natural numbers, of a set of them.
LEMMA NumbersFrom0 ==
    ASSUME NEW P \in SUBSET Nat, 0 \in P, \A n \in P : n + 1 \in P
    PROVE  P = Nat
<1> SUFFICES ASSUME Nat \ P # {} PROVE FALSE
  OBVIOUS
<1> DEFINE R == {ss \in Nat \X Nat : ss[1] < ss[2]}
<1>1. IsWellFoundedOn(R, Nat)
  BY NatLessThanWellFounded DEF OpToRel
<1> HIDE DEF R
<1>2. PICK n \in Nat \ P : \A m \in Nat \ P : <<m, n>> \notin R
  <2>1. Nat \ P \subseteq Nat
    OBVIOUS
  <2> QED BY <1>1, <2>1, WFMin
<1>3. \A m \in Nat \ P : ~(m < n)
  BY <1>2 DEF R
<1>4. n - 1 \in Nat /\ n - 1 < n /\ (n - 1) + 1 = n
  OBVIOUS
<1>5. n - 1 \in P
  BY <1>3, <1>4
<1> QED BY <1>2, <1>4, <1>5

\* Induction on the subsets of a finite set, of a set of them.
LEMMA SubsetsFromEmpty ==
    ASSUME NEW S, IsFiniteSet(S), NEW F,
           \A T \in SUBSET S : (\A x \in T : T \ {x} \in F) => T \in F
    PROVE  \A T \in SUBSET S : T \in F
<1> DEFINE B == (SUBSET S) \ F
<1> SUFFICES ASSUME B # {} PROVE FALSE
  OBVIOUS
<1>1. IsWellFoundedOn(StrictSubsetOrdering(S), SUBSET S)
  <2>1. FiniteSubsetsOf(S) = SUBSET S
    BY FS_FiniteSubsetsOfFinite
  <2>2. IsWellFoundedOn(StrictSubsetOrdering(S), FiniteSubsetsOf(S))
    BY FS_StrictSubsetOrderingWellFounded
  <2> QED BY <2>1, <2>2
<1>2. B \subseteq SUBSET S
  OBVIOUS
<1> HIDE DEF B
<1>3. PICK T \in B : \A U \in B : <<U, T>> \notin StrictSubsetOrdering(S)
  BY <1>1, <1>2, WFMin
<1>4. ASSUME NEW x \in T PROVE T \ {x} \in F
  <2>1. <<T \ {x}, T>> \in StrictSubsetOrdering(S)
    BY <1>2 DEF StrictSubsetOrdering
  <2>2. T \ {x} \notin B
    BY <1>3, <2>1
  <2> QED BY <1>2, <2>2 DEF B
<1>5. T \in SUBSET S /\ T \notin F
  BY DEF B
<1> QED BY <1>4, <1>5

\* The function behind SumFunctionOnSet, as one of the subsets of S.
Pick(s) == CHOOSE x \in s : TRUE
Adds(f, g, s) == IF s = {} THEN 0 ELSE f[Pick(s)] + g[s \ {Pick(s)}]
IsSum(g, f, S) == g = [s \in SUBSET S |-> Adds(f, g, s)]
SumsOf(f, S) == CHOOSE g : IsSum(g, f, S)

LEMMA Picked == \A s : s # {} => Pick(s) \in s
BY DEF Pick

LEMMA SumIs == ASSUME NEW f, NEW S PROVE SumFunctionOnSet(f, S) = SumsOf(f, S)[S]
BY Zenon DEF SumFunctionOnSet, FoldFunctionOnSet, MapThenFoldSet, SumsOf, IsSum, Adds, Pick

\* There is such a function: there is one that is right of the sets of n elements or less,
\* for every n.
LEMMA SumsExist ==
    ASSUME NEW f, NEW S, IsFiniteSet(S)
    PROVE  IsSum(SumsOf(f, S), f, S)
<1> DEFINE UpTo(g, n) == \A s \in SUBSET S : Cardinality(s) <= n => g[s] = Adds(f, g, s)
           P == {n \in Nat : \E g : UpTo(g, n)}
<1>1. \A s \in SUBSET S : /\ IsFiniteSet(s) /\ Cardinality(s) \in Nat
                          /\ Cardinality(s) = 0 => s = {}
                          /\ s # {} => /\ s \ {Pick(s)} \in SUBSET S
                                       /\ Cardinality(s \ {Pick(s)}) = Cardinality(s) - 1
  <2> SUFFICES ASSUME NEW s \in SUBSET S
               PROVE  /\ IsFiniteSet(s) /\ Cardinality(s) \in Nat
                      /\ Cardinality(s) = 0 => s = {}
                      /\ s # {} => /\ s \ {Pick(s)} \in SUBSET S
                                   /\ Cardinality(s \ {Pick(s)}) = Cardinality(s) - 1
    OBVIOUS
  <2>1. IsFiniteSet(s) /\ Cardinality(s) \in Nat
    BY FS_Subset, FS_CardinalityType
  <2> QED BY <2>1, FS_EmptySet, FS_RemoveElement, Picked
<1>2. 0 \in P
  <2> DEFINE z == [s \in SUBSET S |-> 0]
  <2>1. \A s \in SUBSET S : Cardinality(s) <= 0 => z[s] = Adds(f, z, s)
    <3> SUFFICES ASSUME NEW s \in SUBSET S, Cardinality(s) <= 0 PROVE z[s] = Adds(f, z, s)
      OBVIOUS
    <3>1. Cardinality(s) \in Nat
      BY <1>1
    <3>2. Cardinality(s) = 0
      BY <3>1
    <3>3. s = {}
      BY <1>1, <3>2
    <3> QED BY <3>3 DEF Adds
  <2> QED BY <2>1
<1>3. ASSUME NEW n \in P PROVE n + 1 \in P
  <2>1. n \in Nat
    OBVIOUS
  <2>2. PICK g : UpTo(g, n)
    OBVIOUS
  <2> DEFINE h == [s \in SUBSET S |-> IF Cardinality(s) = n + 1 THEN Adds(f, g, s) ELSE g[s]]
  <2>3. ASSUME NEW s \in SUBSET S, Cardinality(s) <= n + 1 PROVE h[s] = Adds(f, h, s)
    <3>1. h[s] = Adds(f, g, s)
      <4>1. CASE Cardinality(s) = n + 1
        BY <4>1
      <4>2. CASE Cardinality(s) # n + 1
        <5>1. Cardinality(s) \in Nat
          BY <1>1
        <5>2. Cardinality(s) <= n
          BY <2>1, <2>3, <4>2, <5>1
        <5> QED BY <2>2, <4>2, <5>2
      <4> QED BY <4>1, <4>2
    <3>2. CASE s = {}
      BY <3>1, <3>2 DEF Adds
    <3>3. CASE s # {}
      <4>1. s \ {Pick(s)} \in SUBSET S /\ Cardinality(s \ {Pick(s)}) # n + 1
        BY <1>1, <2>1, <2>3, <3>3
      <4>2. h[s \ {Pick(s)}] = g[s \ {Pick(s)}]
        BY <4>1
      <4> HIDE DEF h
      <4> QED BY <3>1, <3>3, <4>2 DEF Adds
    <3> QED BY <3>2, <3>3
  <2> HIDE DEF h
  <2>4. UpTo(h, n + 1)
    BY <2>3
  <2> QED BY <2>1, <2>4
<1>4. P = Nat
  <2>1. P \subseteq Nat
    OBVIOUS
  <2> HIDE DEF P
  <2> QED BY <1>2, <1>3, <2>1, NumbersFrom0
<1>5. Cardinality(S) \in Nat /\ \A s \in SUBSET S : Cardinality(s) <= Cardinality(S)
  BY FS_Subset, FS_CardinalityType
<1>6. PICK g : \A s \in SUBSET S : g[s] = Adds(f, g, s)
  <2>1. \E g : UpTo(g, Cardinality(S))
    BY <1>4, <1>5
  <2> QED BY <1>5, <2>1
<1> DEFINE r == [s \in SUBSET S |-> g[s]]
<1>7. IsSum(r, f, S)
  <2>1. ASSUME NEW s \in SUBSET S PROVE r[s] = Adds(f, r, s)
    <3>1. r[s] = g[s] /\ r[s \ {Pick(s)}] = g[s \ {Pick(s)}]
      OBVIOUS
    <3> HIDE DEF r
    <3> QED BY <1>6, <3>1 DEF Adds
  <2>2. r = [s \in SUBSET S |-> r[s]]
    OBVIOUS
  <2> HIDE DEF r
  <2> QED BY <2>1, <2>2 DEF IsSum
<1> HIDE DEF r
<1> QED BY <1>7 DEF SumsOf

\* The functions behind the sums of two sets agree where both are defined.
LEMMA SumsAgree ==
    ASSUME NEW f, NEW S, IsFiniteSet(S), NEW T \in SUBSET S
    PROVE  SumsOf(f, S)[T] = SumFunctionOnSet(f, T)
<1> DEFINE g == SumsOf(f, S)
           h == SumsOf(f, T)
           F == {s \in SUBSET T : g[s] = h[s]}
<1>1. IsFiniteSet(T) /\ IsSum(g, f, S) /\ IsSum(h, f, T)
  BY SumsExist, FS_Subset
<1> HIDE DEF g, h
<1>2. ASSUME NEW s \in SUBSET T PROVE g[s] = Adds(f, g, s) /\ h[s] = Adds(f, h, s)
  <2>1. g = [t \in SUBSET S |-> Adds(f, g, t)] /\ h = [t \in SUBSET T |-> Adds(f, h, t)]
    BY <1>1 DEF IsSum
  <2>2. s \in SUBSET S
    OBVIOUS
  <2> QED BY <2>1, <2>2
<1>3. ASSUME NEW s \in SUBSET T, \A x \in s : s \ {x} \in F PROVE s \in F
  <2>1. CASE s = {}
    BY <1>2, <2>1 DEF Adds
  <2>2. CASE s # {}
    <3>1. g[s \ {Pick(s)}] = h[s \ {Pick(s)}]
      BY <1>3, <2>2, Picked
    <3> QED BY <1>2, <2>2, <3>1 DEF Adds
  <2> QED BY <2>1, <2>2
<1>4. T \in F
  <2> HIDE DEF F
  <2> QED BY <1>1, <1>3, SubsetsFromEmpty
<1> QED BY <1>4, SumIs DEF g, h

LEMMA SumEmpty == ASSUME NEW f PROVE SumFunctionOnSet(f, {}) = 0
<1>1. IsSum(SumsOf(f, {}), f, {})
  BY SumsExist, FS_EmptySet
<1>2. {} \in SUBSET {}
  OBVIOUS
<1>3. SumsOf(f, {})[{}] = Adds(f, SumsOf(f, {}), {})
  BY <1>1, <1>2 DEF IsSum
<1> QED BY <1>3, SumIs DEF Adds

LEMMA SumPick ==
    ASSUME NEW f, NEW S, IsFiniteSet(S), S # {}
    PROVE  SumFunctionOnSet(f, S) = f[Pick(S)] + SumFunctionOnSet(f, S \ {Pick(S)})
<1>1. IsSum(SumsOf(f, S), f, S)
  BY SumsExist
<1>2. S \in SUBSET S /\ S \ {Pick(S)} \in SUBSET S
  OBVIOUS
<1>3. SumsOf(f, S)[S] = f[Pick(S)] + SumsOf(f, S)[S \ {Pick(S)}]
  BY <1>1, <1>2 DEF IsSum, Adds
<1>4. SumsOf(f, S)[S \ {Pick(S)}] = SumFunctionOnSet(f, S \ {Pick(S)})
  BY <1>2, SumsAgree
<1> QED BY <1>3, <1>4, SumIs

\* A sum of integers is one, of natural numbers, too, and depends on what is summed only.
LEMMA SumType ==
    ASSUME NEW f, NEW S, IsFiniteSet(S), \A x \in S : f[x] \in Int
    PROVE  SumFunctionOnSet(f, S) \in Int
<1> DEFINE F == {T \in SUBSET S : SumFunctionOnSet(f, T) \in Int}
<1>1. ASSUME NEW T \in SUBSET S, \A x \in T : T \ {x} \in F PROVE T \in F
  <2>1. CASE T = {}
    BY <2>1, SumEmpty
  <2>2. CASE T # {}
    <3>1. Pick(T) \in T /\ IsFiniteSet(T)
      BY <2>2, Picked, FS_Subset
    <3>2. f[Pick(T)] \in Int /\ SumFunctionOnSet(f, T \ {Pick(T)}) \in Int
      BY <1>1, <3>1
    <3>3. SumFunctionOnSet(f, T) = f[Pick(T)] + SumFunctionOnSet(f, T \ {Pick(T)})
      BY <2>2, <3>1, SumPick
    <3> QED BY <3>2, <3>3
  <2> QED BY <2>1, <2>2
<1>2. \A T \in SUBSET S : T \in F
  <2> HIDE DEF F
  <2> QED BY <1>1, SubsetsFromEmpty
<1>3. S \in F
  BY <1>2
<1> QED BY <1>3

LEMMA SumNat ==
    ASSUME NEW f, NEW S, IsFiniteSet(S), \A x \in S : f[x] \in Nat
    PROVE  SumFunctionOnSet(f, S) \in Nat
<1> DEFINE F == {T \in SUBSET S : SumFunctionOnSet(f, T) \in Nat}
<1>1. ASSUME NEW T \in SUBSET S, \A x \in T : T \ {x} \in F PROVE T \in F
  <2>1. CASE T = {}
    BY <2>1, SumEmpty
  <2>2. CASE T # {}
    <3>1. Pick(T) \in T /\ IsFiniteSet(T)
      BY <2>2, Picked, FS_Subset
    <3>2. f[Pick(T)] \in Nat /\ SumFunctionOnSet(f, T \ {Pick(T)}) \in Nat
      BY <1>1, <3>1
    <3>3. SumFunctionOnSet(f, T) = f[Pick(T)] + SumFunctionOnSet(f, T \ {Pick(T)})
      BY <2>2, <3>1, SumPick
    <3> QED BY <3>2, <3>3
  <2> QED BY <2>1, <2>2
<1>2. \A T \in SUBSET S : T \in F
  <2> HIDE DEF F
  <2> QED BY <1>1, SubsetsFromEmpty
<1>3. S \in F
  BY <1>2
<1> QED BY <1>3

LEMMA SumSame ==
    ASSUME NEW f, NEW g, NEW S, IsFiniteSet(S), \A x \in S : f[x] = g[x]
    PROVE  SumFunctionOnSet(f, S) = SumFunctionOnSet(g, S)
<1> DEFINE F == {T \in SUBSET S : SumFunctionOnSet(f, T) = SumFunctionOnSet(g, T)}
<1>1. ASSUME NEW T \in SUBSET S, \A x \in T : T \ {x} \in F PROVE T \in F
  <2>1. CASE T = {}
    BY <2>1, SumEmpty
  <2>2. CASE T # {}
    <3>1. Pick(T) \in T /\ IsFiniteSet(T)
      BY <2>2, Picked, FS_Subset
    <3>2. /\ f[Pick(T)] = g[Pick(T)]
          /\ SumFunctionOnSet(f, T \ {Pick(T)}) = SumFunctionOnSet(g, T \ {Pick(T)})
      BY <1>1, <3>1
    <3>3. /\ SumFunctionOnSet(f, T) = f[Pick(T)] + SumFunctionOnSet(f, T \ {Pick(T)})
          /\ SumFunctionOnSet(g, T) = g[Pick(T)] + SumFunctionOnSet(g, T \ {Pick(T)})
      BY <2>2, <3>1, SumPick
    <3> QED BY <3>2, <3>3
  <2> QED BY <2>1, <2>2
<1>2. \A T \in SUBSET S : T \in F
  <2> HIDE DEF F
  <2> QED BY <1>1, SubsetsFromEmpty
<1>3. S \in F
  BY <1>2
<1> QED BY <1>3

\* Any element can be split off, not only the one that is picked.
LEMMA SumRemove ==
    ASSUME NEW f, NEW S, IsFiniteSet(S), \A x \in S : f[x] \in Int, NEW x \in S
    PROVE  SumFunctionOnSet(f, S) = f[x] + SumFunctionOnSet(f, S \ {x})
<1> DEFINE F == {T \in SUBSET S : \A y \in T :
                    SumFunctionOnSet(f, T) = f[y] + SumFunctionOnSet(f, T \ {y})}
<1>1. ASSUME NEW T \in SUBSET S, \A y \in T : T \ {y} \in F PROVE T \in F
  <2> SUFFICES ASSUME NEW y \in T
               PROVE  SumFunctionOnSet(f, T) = f[y] + SumFunctionOnSet(f, T \ {y})
    OBVIOUS
  <2> DEFINE c == Pick(T)
             U == T \ {c, y}
  <2>1. c \in T /\ IsFiniteSet(T) /\ IsFiniteSet(U)
    BY Picked, FS_Subset
  <2>2. SumFunctionOnSet(f, T) = f[c] + SumFunctionOnSet(f, T \ {c})
    BY <2>1, SumPick
  <2>3. CASE c = y
    BY <2>2, <2>3
  <2>4. CASE c # y
    <3>1. T \ {c} \in F /\ T \ {y} \in F /\ y \in T \ {c} /\ c \in T \ {y}
      BY <1>1, <2>1, <2>4
    <3>2. (T \ {c}) \ {y} = U /\ (T \ {y}) \ {c} = U
      OBVIOUS
    <3> HIDE DEF c, U
    <3>3. /\ SumFunctionOnSet(f, T \ {c}) = f[y] + SumFunctionOnSet(f, U)
          /\ SumFunctionOnSet(f, T \ {y}) = f[c] + SumFunctionOnSet(f, U)
      BY <3>1, <3>2
    <3>4. \A u \in U : f[u] \in Int
      BY DEF U
    <3>5. SumFunctionOnSet(f, U) \in Int /\ f[c] \in Int /\ f[y] \in Int
      BY <2>1, <3>4, SumType
    <3> QED BY <2>2, <3>3, <3>5
  <2> QED BY <2>3, <2>4
<1>2. \A T \in SUBSET S : T \in F
  <2> HIDE DEF F
  <2> QED BY <1>1, SubsetsFromEmpty
<1>3. S \in F
  BY <1>2
<1> QED BY <1>3

\* A sum is no more than that of a set into which its elements are mapped one to one,
\* none to less than itself, if the rest of that set takes nothing away.
LEMMA SumInto ==
    ASSUME NEW f, NEW S, IsFiniteSet(S), \A x \in S : f[x] \in Int,
           NEW g, NEW D, IsFiniteSet(D), \A y \in D : g[y] \in Nat,
           NEW h, \A x \in S : h[x] \in D /\ f[x] <= g[h[x]],
           \A x, z \in S : h[x] = h[z] => x = z
    PROVE  SumFunctionOnSet(f, S) <= SumFunctionOnSet(g, D)
<1> DEFINE Img(T) == {h[x] : x \in T}
           F == {T \in SUBSET S : \A E \in SUBSET D : Img(T) \subseteq E =>
                    SumFunctionOnSet(f, T) <= SumFunctionOnSet(g, E)}
<1>0. \A E \in SUBSET D : SumFunctionOnSet(g, E) \in Nat
  BY SumNat, FS_Subset
<1>1. ASSUME NEW T \in SUBSET S, \A x \in T : T \ {x} \in F PROVE T \in F
  <2> SUFFICES ASSUME NEW E \in SUBSET D, Img(T) \subseteq E
               PROVE  SumFunctionOnSet(f, T) <= SumFunctionOnSet(g, E)
    OBVIOUS
  <2>1. CASE T = {}
    BY <1>0, <2>1, SumEmpty
  <2>2. CASE T # {}
    <3> DEFINE c == Pick(T)
               d == h[c]
    <3>1. c \in T /\ IsFiniteSet(T) /\ IsFiniteSet(E) /\ d \in E
      BY <2>2, Picked, FS_Subset
    <3>2. Img(T \ {c}) \subseteq E \ {d}
      BY <3>1
    <3>3. SumFunctionOnSet(f, T \ {c}) <= SumFunctionOnSet(g, E \ {d})
      BY <1>1, <3>1, <3>2
    <3>4. SumFunctionOnSet(f, T) = f[c] + SumFunctionOnSet(f, T \ {c})
      BY <2>2, <3>1, SumPick
    <3>5. SumFunctionOnSet(g, E) = g[d] + SumFunctionOnSet(g, E \ {d})
      <4>1. \A y \in E : g[y] \in Int
        OBVIOUS
      <4> QED BY <3>1, <4>1, SumRemove
    <3>6. /\ f[c] \in Int /\ g[d] \in Nat /\ f[c] <= g[d]
          /\ SumFunctionOnSet(g, E \ {d}) \in Nat
      BY <1>0, <3>1
    <3>7. SumFunctionOnSet(f, T \ {c}) \in Int
      <4>1. IsFiniteSet(T \ {c}) /\ \A x \in T \ {c} : f[x] \in Int
        BY <3>1, FS_RemoveElement
      <4> QED BY <4>1, SumType
    <3> QED BY <3>3, <3>4, <3>5, <3>6, <3>7
  <2> QED BY <2>1, <2>2
<1>2. \A T \in SUBSET S : T \in F
  <2> HIDE DEF F
  <2> QED BY <1>1, SubsetsFromEmpty
<1>3. S \in F /\ Img(S) \subseteq D
  BY <1>2
<1> QED BY <1>3

-----------------------------------------------------------------------------
(* The inductive invariant.  TypeOK is not inductive: a sale of an ETF     *)
(* leaves something of it only because nothing else moved it meanwhile.    *)

Busy == {"raise", "QQQ", "SPY", "execute"}

\* Between cycles nothing is selected, and a run has a finite number of plans.
Planless == /\ IsFiniteSet(plans)
            /\ pc \in {"idle", "investOnly"} => chosen = {} /\ plans = {}

\* An ETF that is not sold yet is worth what the cycle read, and no order of it is open.
Unsold(e) == acct.pos[e] = pos[e] /\ due[e] = 0
AsRead == /\ pc \in {"raise", "QQQ"} => Unsold("QQQ")
          /\ pc \in {"raise", "QQQ", "SPY"} => Unsold("SPY")

\* A run is on record once its cycle gets to the portfolio file.
OnRecord == pc = "sync" => ~isNew

Typed == TypeOK /\ Planless /\ AsRead /\ OnRecord

\* What an ETF brings is what is still needed, within the buffer, or all there is.
Enough(all) == /\ raised * 100 <= needed * 102
               /\ raised >= needed \/ raised = all
Fitting ==
    "broker" \notin faults =>
        /\ pc \in {"idle", "investOnly", "raise", "QQQ"} => raised = 0
        /\ pc = "SPY" => Enough(acct.pos["QQQ"])
        /\ pc = "execute" => Enough(ETFValue(acct))

\* Nothing is owed.  Between cycles the file says what there is to spend, and the run
\* keeps to it; the BUYs of a cycle are covered by cash and ETFs, and, when they are
\* placed, by cash.
Prompt == (\A x \in Assets : due[x] = 0) /\ (\A s \in Stocks : resting[s] = 0)
Reported == pc \in {"idle", "investOnly", "raise"} => file.budget = cash + ETFValue(Now)
Modest == isNew => Spent(run) <= file.budget
Covered ==
    /\ pc = "raise" => acct = Now /\ Required <= file.budget
    /\ pc \in {"QQQ", "SPY"} => /\ needed = Shortfall /\ cash = acct.cash + raised
                                /\ Required <= acct.cash + ETFValue(acct)
    /\ pc = "execute" => cash >= Required
Solvent == faults = {} => Prompt /\ Reported /\ Modest /\ Covered /\ cash >= 0

\* The plans of a cycle are of different stocks, and no exit is for more than is held;
\* the new names left and the stocks held, less those that will be sold off, fit the cap.
Held == {x \in Stocks : pos[x] > 0}
SoldOff == {p \in plans : ~p.buy /\ p.dollars = pos[p.ticker]}
NewLeft == {p \in plans : p.buy /\ pos[p.ticker] = 0}
Orderly == pc \in Busy =>
    \A p \in plans : /\ p.dollars > 0
                     /\ ~p.buy => p.dollars <= pos[p.ticker]
                     /\ \A q \in plans : p.ticker = q.ticker => p = q
Slots == pc \in Busy /\ NewLeft # {} =>
    Cardinality(Held) + Cardinality(NewLeft) <= MaxPositions + Cardinality(SoldOff)
Listed == pc \in {"idle", "investOnly"} =>
    /\ file.holdings = Held
    /\ isNew => \A i \in DOMAIN run : run[i].action = "NEW" <=> run[i].ticker \notin Held
Capped == faults = {} => Prompt /\ Orderly /\ Slots /\ Listed

-----------------------------------------------------------------------------
(* What the operators of the model return *)

LEMMA ETFsApart == /\ "QQQ" \in Assets /\ "SPY" \in Assets
                   /\ Stocks \subseteq Assets /\ "QQQ" \notin Stocks /\ "SPY" \notin Stocks
BY StocksAssumption DEF Assets, ETFs

LEMMA ETFValueIs ==
    ASSUME NEW a, a.pos \in [Assets -> Nat]
    PROVE  /\ ETFValue(a) = a.pos["QQQ"] + a.pos["SPY"]
           /\ ETFValue(a) \in Nat /\ a.pos["QQQ"] \in Nat /\ a.pos["SPY"] \in Nat
<1> DEFINE f == a.pos
<1>1. f["QQQ"] \in Nat /\ f["SPY"] \in Nat
  BY ETFsApart
<1>2. IsFiniteSet({"SPY"}) /\ IsFiniteSet(ETFs)
  BY FS_EmptySet, FS_AddElement DEF ETFs
<1> HIDE DEF f
<1>3. SumFunctionOnSet(f, ETFs) = f["QQQ"] + SumFunctionOnSet(f, {"SPY"})
  <2>1. \A x \in ETFs : f[x] \in Int
    BY <1>1 DEF ETFs
  <2>2. ETFs \ {"QQQ"} = {"SPY"} /\ "QQQ" \in ETFs
    BY DEF ETFs
  <2> QED BY <1>2, <2>1, <2>2, SumRemove
<1>4. SumFunctionOnSet(f, {"SPY"}) = f["SPY"] + SumFunctionOnSet(f, {})
  <2>1. \A x \in {"SPY"} : f[x] \in Int
    BY <1>1
  <2>2. {"SPY"} \ {"SPY"} = {}
    OBVIOUS
  <2> QED BY <1>2, <2>1, <2>2, SumRemove
<1>5. SumFunctionOnSet(f, {}) = 0
  BY SumEmpty
<1> QED BY <1>1, <1>3, <1>4, <1>5 DEF f, ETFValue

\* The image of a finite set is finite, and no larger.
LEMMA ImageSize ==
    ASSUME NEW f, NEW S, IsFiniteSet(S)
    PROVE  /\ IsFiniteSet({f[x] : x \in S})
           /\ Cardinality({f[x] : x \in S}) <= Cardinality(S)
<1> DEFINE T == {f[x] : x \in S}
           m == [x \in S |-> f[x]]
<1>1. m \in Surjection(S, T)
  BY DEF Surjection
<1> HIDE DEF m
<1> QED BY <1>1, FS_Surjection

LEMMA MinOf ==
    ASSUME NEW a \in Int, NEW b \in Int
    PROVE  Min({a, b}) \in {a, b} /\ Min({a, b}) <= a /\ Min({a, b}) <= b
<1>1. \E x \in {a, b} : \A y \in {a, b} : x <= y
  OBVIOUS
<1> QED BY <1>1 DEF Min

LEMMA MaxOf ==
    ASSUME NEW a \in Int, NEW b \in Int
    PROVE  Max({a, b}) \in {a, b} /\ Max({a, b}) >= a /\ Max({a, b}) >= b
<1>1. \E x \in {a, b} : \A y \in {a, b} : x >= y
  OBVIOUS
<1> QED BY <1>1 DEF Max

\* Two per cent more, in whole dollars.
LEMMA Buffer ==
    ASSUME NEW n \in Nat
    PROVE  /\ (n * 102) \div 100 \in Nat /\ n <= (n * 102) \div 100
           /\ ((n * 102) \div 100) * 100 <= n * 102
OBVIOUS

\* The dollars of the BUYs of some plans, and the plans of a selection.
Cost(P) == SumFunctionOnSet([p \in P |-> p.dollars], {p \in P : p.buy})

LEMMA CostIs ==
    ASSUME NEW P \in SUBSET Plan, IsFiniteSet(P)
    PROVE  /\ Cost(P) \in Nat
           /\ \A p \in P : Cost(P) = (IF p.buy THEN p.dollars ELSE 0) + Cost(P \ {p})
<1> DEFINE f(Q) == [p \in Q |-> p.dollars]
           B(Q) == {p \in Q : p.buy}
<1>1. \A Q \in SUBSET P : /\ IsFiniteSet(B(Q))
                          /\ \A p \in B(Q) : f(Q)[p] \in Nat /\ f(Q)[p] = f(P)[p]
  BY FS_Subset DEF Plan
<1>2. Cost(P) \in Nat
  <2>1. IsFiniteSet(B(P)) /\ \A p \in B(P) : f(P)[p] \in Nat
    BY <1>1
  <2> HIDE DEF f, B
  <2>2. SumFunctionOnSet(f(P), B(P)) \in Nat
    BY <2>1, SumNat
  <2> QED BY <2>2 DEF Cost, f, B
<1>3. ASSUME NEW p \in P
      PROVE  Cost(P) = (IF p.buy THEN p.dollars ELSE 0) + Cost(P \ {p})
  <2> DEFINE Q == P \ {p}
  <2>1. SumFunctionOnSet(f(Q), B(Q)) = SumFunctionOnSet(f(P), B(Q))
    <3>1. IsFiniteSet(B(Q)) /\ \A x \in B(Q) : f(Q)[x] = f(P)[x]
      BY <1>1
    <3> HIDE DEF f, B, Q
    <3> QED BY <3>1, SumSame
  <2>2. CASE p.buy
    <3>1. B(P) \ {p} = B(Q) /\ p \in B(P) /\ f(P)[p] = p.dollars
      BY <2>2
    <3>2. IsFiniteSet(B(P)) /\ \A x \in B(P) : f(P)[x] \in Nat
      BY <1>1
    <3> HIDE DEF f, B
    <3>3. SumFunctionOnSet(f(P), B(P)) = f(P)[p] + SumFunctionOnSet(f(P), B(P) \ {p})
      <4>1. \A x \in B(P) : f(P)[x] \in Int
        BY <3>2
      <4> QED BY <3>1, <3>2, <4>1, SumRemove
    <3> QED BY <2>1, <2>2, <3>1, <3>3 DEF Cost, f, B
  <2>3. CASE ~p.buy
    <3>1. B(P) = B(Q)
      BY <2>3
    <3>2. Cost(P) = Cost(Q)
      BY <2>1, <3>1 DEF Cost
    <3>3. Cost(Q) \in Nat
      BY <1>2, <3>2
    <3> QED BY <2>3, <3>2, <3>3
  <2> QED BY <2>2, <2>3
<1> QED BY <1>2, <1>3

\* The plans of a selection are of stocks, finitely many, and cost no more than the run
\* spends.
LEMMA PlansAre ==
    ASSUME NEW r \in RunSets, NEW sel \in SUBSET DOMAIN r,
           NEW a, a.pos \in [Assets -> Nat]
    PROVE  /\ Plans(r, sel, a) \subseteq Plan /\ IsFiniteSet(Plans(r, sel, a))
           /\ Spent(r) \in Nat /\ Cost(Plans(r, sel, a)) <= Spent(r)
<1> DEFINE P == Plans(r, sel, a)
<1>1. DOMAIN r = 1..Len(r) /\ IsFiniteSet(DOMAIN r) /\ IsFiniteSet(sel)
      /\ \A i \in DOMAIN r : r[i] \in Signal
  <2>1. r \in Seq(Signal)
    BY RunSetsAssumption
  <2>2. DOMAIN r = 1..Len(r) /\ Len(r) \in Nat
    BY <2>1
  <2>3. IsFiniteSet(1..Len(r))
    BY <2>2, FS_Interval
  <2>4. IsFiniteSet(sel)
    BY <2>2, <2>3, FS_Subset
  <2>5. \A i \in DOMAIN r : r[i] \in Signal
    BY <2>1
  <2> QED BY <2>2, <2>3, <2>4, <2>5
<1>2. ASSUME NEW i \in DOMAIN r
      PROVE  PlanOf(r[i], a) \in Plan
  <2>1. r[i] \in Signal /\ r[i].ticker \in Assets
    BY <1>1, ETFsApart DEF Signal
  <2>2. a.pos[r[i].ticker] \in Nat /\ r[i].dollars \in Nat /\ r[i].ticker \in Stocks
    BY <2>1 DEF Signal
  <2>3. Planned(r[i], a) \in Nat
    BY <2>2 DEF Planned
  <2>4. IsEntry(r[i]) \in BOOLEAN
    BY DEF IsEntry, IsExit
  <2> QED BY <2>2, <2>3, <2>4 DEF PlanOf, Plan
<1>3. P \subseteq Plan
  BY <1>2 DEF Plans
<1>4. IsFiniteSet(P)
  <2> DEFINE m == [i \in sel |-> PlanOf(r[i], a)]
  <2>1. IsFiniteSet({PlanOf(r[i], a) : i \in sel})
    <3>1. IsFiniteSet({m[i] : i \in sel})
      <4> HIDE DEF m
      <4> QED BY <1>1, ImageSize
    <3> QED BY <3>1
  <2> QED BY <2>1, FS_Subset DEF Plans
<1> DEFINE B == {p \in P : p.buy}
           f == [p \in P |-> p.dollars]
           g == [i \in DOMAIN r |-> IF IsEntry(r[i]) THEN r[i].dollars ELSE 0]
           h == [p \in B |-> CHOOSE i \in sel : p = PlanOf(r[i], a)]
<1>5. \A i \in DOMAIN r : g[i] \in Nat
  BY <1>1 DEF Signal
<1>6. Spent(r) \in Nat
  <2> HIDE DEF g
  <2>1. SumFunctionOnSet(g, DOMAIN r) \in Nat
    BY <1>1, <1>5, SumNat
  <2> QED BY <2>1 DEF Spent, g
<1>7. \A p \in B : h[p] \in sel /\ p = PlanOf(r[h[p]], a)
  BY DEF Plans
<1>8. \A p \in B : f[p] \in Int /\ h[p] \in DOMAIN r /\ f[p] <= g[h[p]]
  <2> SUFFICES ASSUME NEW p \in B
               PROVE  f[p] \in Int /\ h[p] \in DOMAIN r /\ f[p] <= g[h[p]]
    OBVIOUS
  <2>1. f[p] = p.dollars /\ p.dollars \in Nat
    BY <1>3 DEF Plan
  <2>2. h[p] \in DOMAIN r /\ p = PlanOf(r[h[p]], a)
    BY <1>7
  <2>3. IsEntry(r[h[p]]) /\ p.dollars = r[h[p]].dollars
    <3>1. p.buy = IsEntry(r[h[p]]) /\ p.dollars = Planned(r[h[p]], a)
      <4> HIDE DEF h
      <4> QED BY <2>2 DEF PlanOf
    <3>2. p.buy
      OBVIOUS
    <3> HIDE DEF h
    <3> QED BY <3>1, <3>2 DEF Planned
  <2> HIDE DEF h, f
  <2> QED BY <2>1, <2>2, <2>3
<1>9. \A p, q \in B : h[p] = h[q] => p = q
  BY <1>7
<1>10. IsFiniteSet(B)
  BY <1>4, FS_Subset
<1>11. SumFunctionOnSet(f, B) <= SumFunctionOnSet(g, DOMAIN r)
  <2> HIDE DEF B, f, g, h
  <2> QED BY <1>1, <1>5, <1>8, <1>9, <1>10, SumInto
<1> QED BY <1>3, <1>4, <1>6, <1>11 DEF Cost, Spent

\* What is sold of an ETF.
LEMMA SaleIs ==
    ASSUME TypeOK, NEW e \in ETFs, raised < needed
    PROVE  /\ acct.pos[e] \in Nat /\ Sale(e) \in Nat /\ Sale(e) <= acct.pos[e]
           /\ Sale(e) * 100 <= (needed - raised) * 102
           /\ Sale(e) = acct.pos[e] \/ Sale(e) >= needed - raised
<1>1. acct.pos[e] \in Nat /\ needed - raised \in Nat
  BY DEF TypeOK, Account, Assets
<1> DEFINE m == ((needed - raised) * 102) \div 100
           n == acct.pos[e]
<1>2. m \in Nat /\ needed - raised <= m /\ m * 100 <= (needed - raised) * 102
  BY <1>1, Buffer
<1>3. Sale(e) = Min({m, n})
  BY DEF Sale
<1>4. n \in Nat
  BY <1>1
<1> HIDE DEF m, n
<1>5. Min({m, n}) \in {m, n} /\ Min({m, n}) <= m /\ Min({m, n}) <= n
  <2>1. m \in Int /\ n \in Int
    BY <1>2, <1>4
  <2> QED BY <2>1, MinOf
<1>6. /\ Sale(e) \in Nat /\ Sale(e) <= n /\ Sale(e) * 100 <= (needed - raised) * 102
      /\ Sale(e) = n \/ Sale(e) >= needed - raised
  BY <1>1, <1>2, <1>3, <1>4, <1>5
<1> QED BY <1>4, <1>6 DEF n

\* An order changes no position but one, and leaves something of that.
LEMMA OrderMoves ==
    ASSUME TypeOK, NEW x \in Assets, NEW d \in Int,
           Order(x, d) \/ (pos[x] + d >= 0 /\ Market(x, d))
    PROVE  /\ cash' \in Int /\ pos' \in [Assets -> Nat] /\ due' \in [Assets -> Int]
           /\ resting' = resting
           /\ \A y \in Assets \ {x} : pos'[y] = pos[y] /\ due'[y] = due[y]
<1> USE DEF TypeOK
<1>1. CASE UNCHANGED brokerVars
  BY <1>1 DEF brokerVars
<1>2. CASE pos[x] + d >= 0 /\ Market(x, d)
  <2>1. pos[x] \in Nat /\ due[x] \in Int
    OBVIOUS
  <2>2. CASE cash' = cash - d /\ pos' = [pos EXCEPT ![x] = @ + d] /\ due' = due
    BY <1>2, <2>1, <2>2 DEF Market
  <2>3. CASE due' = [due EXCEPT ![x] = @ + d] /\ UNCHANGED <<cash, pos>>
    BY <1>2, <2>1, <2>3 DEF Market
  <2> QED BY <1>2, <2>2, <2>3 DEF Market
<1> QED BY <1>1, <1>2 DEF Order, Fails

-----------------------------------------------------------------------------
(* Type correctness *)

LEMMA TypedInit ==
    ASSUME Init PROVE Typed
<1> USE DEF Init, NoOne
<1>1. PICK a \in Accounts : cash = a.cash /\ pos = a.pos /\ file = Synced(a)
  OBVIOUS
<1>2. a.cash \in Nat /\ a.pos \in [Assets -> Nat]
  BY AccountsAssumption DEF Account
<1>3. file.holdings \subseteq Stocks /\ file.budget \in Int
  <2>1. ETFValue(a) \in Nat
    BY <1>2, ETFValueIs
  <2> QED BY <1>1, <1>2, <2>1 DEF Synced
<1>4. runs \in 0..MaxRuns
  BY LimitsAssumption
<1>5. acct \in Account /\ pos \in [Assets -> Nat] /\ cash \in Int
  BY <1>1, <1>2 DEF Account
<1>6. TypeOK
  <2>1. resting \in [Stocks -> Nat] /\ due \in [Assets -> Int]
    OBVIOUS
  <2>2. run \in RunSets \cup {<<>>} /\ chosen \subseteq DOMAIN run /\ plans \subseteq Plan
    OBVIOUS
  <2>3. faults \in FaultSets /\ monitor \in BOOLEAN /\ isNew \in BOOLEAN
        /\ pc = "idle" /\ needed \in Nat /\ raised \in Nat
    OBVIOUS
  <2> HIDE DEF Init, NoOne
  <2> QED BY <1>3, <1>4, <1>5, <2>1, <2>2, <2>3 DEF TypeOK
<1> QED BY <1>6, FS_EmptySet DEF Typed, Planless, AsRead, OnRecord

\* Selecting fixes what is planned; nothing is sold yet.
LEMMA TypedSelect ==
    ASSUME Typed, Select PROVE Typed'
<1> USE DEF Select, Typed, TypeOK
<1>1. Now.pos \in [Assets -> Nat] /\ Now \in Account
  BY DEF Now, Account
<1>2. run \in RunSets
  OBVIOUS
<1>3. chosen' \in SUBSET DOMAIN run
  OBVIOUS
<1>4. plans' \subseteq Plan /\ IsFiniteSet(plans')
  BY <1>1, <1>2, <1>3, PlansAre
<1>5. UNCHANGED <<faults, monitor, cash, pos, resting, due, run, runs, isNew, file, needed, raised>>
  BY DEF fixed, brokerVars, tdashVars
<1>6. TypeOK'
  BY <1>1, <1>3, <1>4, <1>5
<1>7. AsRead'
  BY <1>5, ETFsApart DEF AsRead, Unsold, AtRest, Now
<1>8. Planless' /\ OnRecord'
  BY <1>4 DEF Planless, OnRecord
<1> QED BY <1>6, <1>7, <1>8

LEMMA TypedRaise ==
    ASSUME Typed, Raise PROVE Typed'
<1> USE DEF Raise, Typed, TypeOK
<1>1. Required \in Nat
  BY CostIs DEF Planless, Required, Cost
<1>2. acct.cash \in Int
  BY DEF Account
<1>3. Shortfall \in Int
  BY <1>1, <1>2 DEF Shortfall
<1>4. UNCHANGED <<faults, monitor, cash, pos, resting, due, run, runs, isNew, file, acct, chosen, plans, raised>>
  BY DEF fixed, brokerVars, tdashVars
<1>5. needed' \in Nat /\ pc' \in {"QQQ", "execute"}
  BY <1>3
<1>6. TypeOK'
  BY <1>4, <1>5
<1> QED BY <1>4, <1>5, <1>6 DEF Planless, AsRead, Unsold, OnRecord

\* A sale touches one ETF, and the other only if it was sold before.
LEMMA TypedLiquidate ==
    ASSUME Typed, Liquidate PROVE Typed'
<1> USE DEF Typed, TypeOK
<1>1. ASSUME NEW e \in ETFs, NEW next \in {"SPY", "execute"}, LiquidateFrom(e, next),
             e = "SPY" => next = "execute"
      PROVE  Typed'
  <2>1. UNCHANGED <<faults, monitor, run, runs, isNew, file, acct, chosen, plans, needed>>
        /\ pc = e /\ pc' = next
    BY <1>1 DEF LiquidateFrom, Goes, fixed, tdashVars
  <2>2. /\ cash' \in Int /\ pos' \in [Assets -> Nat] /\ due' \in [Assets -> Int]
        /\ resting' = resting /\ raised' \in Nat
        /\ \A y \in Assets \ {e} : pos'[y] = pos[y] /\ due'[y] = due[y]
    <3>1. CASE UNCHANGED <<brokerVars, raised>>
      BY <3>1 DEF brokerVars
    <3>2. CASE raised < needed /\ acct.pos[e] > 0
               /\ Market(e, -Sale(e)) /\ raised' = raised + Sale(e)
      <4>1. Sale(e) \in Nat /\ Sale(e) <= acct.pos[e]
        BY <3>2, SaleIs
      <4>2. acct.pos[e] = pos[e] /\ pos[e] \in Nat /\ e \in Assets
        BY <2>1 DEF AsRead, Unsold, ETFs, Assets
      <4>3. pos[e] + (-Sale(e)) >= 0 /\ -Sale(e) \in Int
        BY <4>1, <4>2
      <4> QED BY <3>2, <4>1, <4>2, <4>3, OrderMoves
    <3> QED BY <1>1, <3>1, <3>2 DEF LiquidateFrom
  <2>3. TypeOK'
    BY <2>1, <2>2
  <2>4. AsRead'
    BY <1>1, <2>1, <2>2, ETFsApart DEF AsRead, Unsold, ETFs
  <2> QED BY <2>1, <2>3, <2>4 DEF Planless, OnRecord
<1> QED BY <1>1 DEF Liquidate, ETFs

LEMMA TypedExecute ==
    ASSUME Typed, NEW p \in plans, Execute(p) PROVE Typed'
<1>0. TypeOK /\ Planless /\ AsRead /\ OnRecord
  BY DEF Typed
<1>1. p.ticker \in Stocks /\ p.dollars \in Nat /\ p.ticker \in Assets
  BY <1>0, ETFsApart DEF Plan, TypeOK
<1>2. UNCHANGED <<faults, monitor, run, runs, isNew, file, pc, acct, chosen, needed, raised>>
      /\ plans' = plans \ {p} /\ pc = "execute"
  BY DEF Execute, fixed, tdashVars
<1>3. cash' \in Int /\ pos' \in [Assets -> Nat] /\ due' \in [Assets -> Int]
      /\ resting' \in [Stocks -> Nat]
  <2>1. CASE Order(p.ticker, p.dollars)
    <3>1. p.dollars \in Int
      BY <1>1
    <3>2. /\ cash' \in Int /\ pos' \in [Assets -> Nat] /\ due' \in [Assets -> Int]
          /\ resting' = resting
      BY <1>0, <1>1, <2>1, <3>1, OrderMoves
    <3> QED BY <1>0, <3>2 DEF TypeOK
  <2>2. CASE Order(p.ticker, -p.dollars)
    <3>1. -p.dollars \in Int
      BY <1>1
    <3>2. /\ cash' \in Int /\ pos' \in [Assets -> Nat] /\ due' \in [Assets -> Int]
          /\ resting' = resting
      BY <1>0, <1>1, <2>2, <3>1, OrderMoves
    <3> QED BY <1>0, <3>2 DEF TypeOK
  <2>3. CASE /\ resting' = [resting EXCEPT ![p.ticker] = @ + p.dollars]
             /\ UNCHANGED <<cash, pos, due>>
    <3>1. resting[p.ticker] + p.dollars \in Nat
      BY <1>0, <1>1 DEF TypeOK
    <3> QED BY <1>0, <1>1, <2>3, <3>1 DEF TypeOK
  <2> QED BY <2>1, <2>2, <2>3 DEF Execute
<1>4. IsFiniteSet(plans')
  BY <1>0, <1>2, FS_RemoveElement DEF Planless
<1>5. TypeOK'
  BY <1>0, <1>2, <1>3 DEF TypeOK
<1> QED BY <1>0, <1>2, <1>4, <1>5 DEF Typed, Planless, AsRead, OnRecord

LEMMA TypedInvest ==
    ASSUME Typed, Invest PROVE Typed'
<1>0. TypeOK /\ Planless /\ AsRead /\ OnRecord
  BY DEF Typed
<1>1. UNCHANGED <<faults, monitor, run, runs, file>>
  BY DEF Invest, fixed, tdashVars
<1>2. cash' \in Int /\ pos' \in [Assets -> Nat] /\ due' \in [Assets -> Int]
      /\ resting' = resting
  <2>1. CASE UNCHANGED brokerVars
    BY <1>0, <2>1 DEF brokerVars, TypeOK
  <2>2. ASSUME NEW e \in ETFs, Order(e, Excess)
        PROVE  cash' \in Int /\ pos' \in [Assets -> Nat] /\ due' \in [Assets -> Int]
               /\ resting' = resting
    <3>1. Excess \in Int /\ e \in Assets
      BY <1>0, LimitsAssumption DEF Excess, Assets, TypeOK
    <3> QED BY <1>0, <2>2, <3>1, OrderMoves
  <2> QED BY <2>1, <2>2 DEF Invest, Skips, Buys
<1>3. CASE Goes("invest", "sync") /\ isNew' = FALSE /\ UNCHANGED cycleVars
  <2>1. TypeOK'
    BY <1>0, <1>1, <1>2, <1>3 DEF Goes, cycleVars, TypeOK
  <2> QED BY <1>0, <1>3, <2>1 DEF Typed, Goes, cycleVars, Planless, AsRead, OnRecord
<1>4. CASE Goes("investOnly", "idle") /\ Done /\ UNCHANGED isNew
  <2>1. TypeOK'
    BY <1>0, <1>1, <1>2, <1>4 DEF Goes, Done, NoOne, Account, TypeOK
  <2> QED BY <1>0, <1>4, <2>1, FS_EmptySet DEF Typed, Goes, Done, Planless, AsRead, OnRecord
<1> QED BY <1>3, <1>4 DEF Invest

LEMMA TypedSync ==
    ASSUME Typed, Sync PROVE Typed'
<1> USE DEF Typed, TypeOK
<1>1. UNCHANGED <<faults, monitor, cash, pos, resting, due, run, runs, isNew>>
  BY DEF Sync, fixed, brokerVars, tdashVars
<1>2. file'.holdings \subseteq Stocks /\ file'.budget \in Int
  <2>1. CASE file' = file
    BY <2>1
  <2>2. CASE file' = Synced(Now)
    <3>1. ETFValue(Now) \in Nat
      BY ETFValueIs DEF Now
    <3> QED BY <2>2, <3>1 DEF Synced, Now
  <2> QED BY <2>1, <2>2 DEF Sync
<1>3. TypeOK'
  BY <1>1, <1>2 DEF Sync, Goes, Done, NoOne, Account
<1> QED BY <1>3, FS_EmptySet DEF Sync, Goes, Done, Planless, AsRead, OnRecord

LEMMA TypedEnv ==
    ASSUME Typed,
           \/ NothingToDo \/ Executed
           \/ \E r \in RunSets : Publish(r)
           \/ \E s \in Stocks : Fill(s) \/ LegFires(s)
           \/ \E x \in Assets : Settle(x)
    PROVE  Typed'
<1> USE DEF Typed, TypeOK
<1>1. CASE NothingToDo
  BY <1>1 DEF NothingToDo, AtRest, fixed, brokerVars, tdashVars, cycleVars, Planless, AsRead, OnRecord
<1>2. CASE Executed
  BY <1>2 DEF Executed, Goes, fixed, brokerVars, tdashVars, cycleVars, Planless, AsRead, OnRecord
<1>3. ASSUME NEW r \in RunSets, Publish(r) PROVE Typed'
  <2>1. runs' \in 0..MaxRuns
    BY <1>3, LimitsAssumption DEF Publish
  <2> QED BY <1>3, <2>1 DEF Publish, fixed, brokerVars, cycleVars, Planless, AsRead, OnRecord
<1>4. ASSUME NEW s \in Stocks, Fill(s) PROVE Typed'
  <2>1. UNCHANGED <<faults, monitor, due, run, runs, isNew, file, pc, acct, chosen, plans, needed, raised>>
    BY <1>4 DEF Fill, fixed, tdashVars, cycleVars
  <2>2. /\ cash' \in Int /\ pos' \in [Assets -> Nat] /\ resting' \in [Stocks -> Nat]
        /\ pos'["QQQ"] = pos["QQQ"] /\ pos'["SPY"] = pos["SPY"]
    BY <1>4, ETFsApart DEF Fill
  <2> QED BY <2>1, <2>2 DEF Planless, AsRead, Unsold, OnRecord
<1>5. ASSUME NEW s \in Stocks, LegFires(s) PROVE Typed'
  <2>1. UNCHANGED <<faults, monitor, resting, due, run, runs, isNew, file, pc, acct, chosen, plans, needed, raised>>
    BY <1>5 DEF LegFires, fixed, tdashVars, cycleVars
  <2>2. /\ cash' \in Int /\ pos' \in [Assets -> Nat]
        /\ pos'["QQQ"] = pos["QQQ"] /\ pos'["SPY"] = pos["SPY"]
    BY <1>5, ETFsApart DEF LegFires
  <2> QED BY <2>1, <2>2 DEF Planless, AsRead, Unsold, OnRecord
<1>6. ASSUME NEW x \in Assets, Settle(x) PROVE Typed'
  <2> DEFINE b == -pos[x]
             d == Max({due[x], b})
  <2>1. pos[x] \in Nat /\ due[x] \in Int /\ b \in Int
    OBVIOUS
  <2>2. d \in Int /\ d >= -pos[x]
    <3>1. Max({due[x], b}) \in {due[x], b} /\ Max({due[x], b}) >= b
      <4> HIDE DEF b
      <4> QED BY <2>1, MaxOf
    <3> QED BY <2>1, <3>1
  <2>3. /\ UNCHANGED <<faults, monitor, resting, run, runs, isNew, file, pc, acct, chosen, plans, needed, raised>>
        /\ due[x] # 0 /\ cash' = cash - d /\ pos' = [pos EXCEPT ![x] = @ + d]
        /\ due' = [due EXCEPT ![x] = 0]
    BY <1>6 DEF Settle, fixed, tdashVars, cycleVars
  <2> HIDE DEF d
  <2>4. /\ cash' \in Int /\ pos' \in [Assets -> Nat] /\ due' \in [Assets -> Int]
        /\ \A y \in Assets : due[y] = 0 => pos'[y] = pos[y] /\ due'[y] = 0
    BY <2>1, <2>2, <2>3
  <2>5. AsRead'
    BY <2>3, <2>4, ETFsApart DEF AsRead, Unsold
  <2> QED BY <2>3, <2>4, <2>5 DEF Planless, OnRecord
<1> QED BY <1>1, <1>2, <1>3, <1>4, <1>5, <1>6

LEMMA TypedStep ==
    ASSUME Typed, [Next]_vars PROVE Typed'
<1>1. CASE UNCHANGED vars
  BY <1>1 DEF vars, fixed, brokerVars, tdashVars, cycleVars, Typed, TypeOK, Planless, AsRead,
      Unsold, OnRecord
<1>2. CASE Next
  BY <1>2, TypedSelect, TypedRaise, TypedLiquidate, TypedExecute, TypedInvest, TypedSync, TypedEnv
     DEF Next, Cycle
<1> QED BY <1>1, <1>2

LEMMA AlwaysTyped == Spec => []Typed
<1>1. Typed /\ [Next]_vars => Typed'
  BY TypedStep
<1> QED BY TypedInit, <1>1, PTL DEF Spec

\* The types of the variables, whatever the stocks, runs, accounts, limits and faults: no
\* position is ever negative, above all, although the ETFs are sold by what the cycle read.
THEOREM CashTypes == Spec => []TypeOK
BY AlwaysTyped, PTL DEF Typed

-----------------------------------------------------------------------------
(* What is liquidated *)

\* A sale makes the cash raised enough, from the first ETF and then from both.
LEMMA FittingLiquidate ==
    ASSUME Typed, Fitting, Liquidate, "broker" \notin faults
    PROVE  Fitting'
<1>0. TypeOK /\ raised \in Nat /\ needed \in Nat
  BY DEF Typed, TypeOK
<1>1. /\ acct.pos["QQQ"] \in Nat /\ acct.pos["SPY"] \in Nat
      /\ ETFValue(acct) = acct.pos["QQQ"] + acct.pos["SPY"]
  BY <1>0, ETFValueIs DEF TypeOK, Account
<1>2. ASSUME NEW e \in ETFs, NEW next, LiquidateFrom(e, next)
      PROVE  /\ UNCHANGED <<faults, needed, acct>> /\ pc = e /\ pc' = next
             /\ \/ /\ raised >= needed \/ acct.pos[e] = 0
                   /\ raised' = raised
                \/ /\ raised < needed /\ raised' = raised + Sale(e)
                   /\ Sale(e) \in Nat
                   /\ Sale(e) * 100 <= (needed - raised) * 102
                   /\ Sale(e) = acct.pos[e] \/ Sale(e) >= needed - raised
  <2>1. raised < needed => /\ Sale(e) \in Nat
                           /\ Sale(e) * 100 <= (needed - raised) * 102
                           /\ Sale(e) = acct.pos[e] \/ Sale(e) >= needed - raised
    BY <1>0, SaleIs
  <2> QED BY <1>2, <2>1 DEF LiquidateFrom, Goes, fixed
<1>3. CASE LiquidateFrom("QQQ", "SPY")
  <2>1. raised = 0 /\ "QQQ" \in ETFs
    BY <1>3 DEF Fitting, LiquidateFrom, Goes, ETFs
  <2> DEFINE s == Sale("QQQ")
             q == acct.pos["QQQ"]
  <2>2. /\ UNCHANGED <<faults, needed, acct>> /\ pc' = "SPY"
        /\ \/ /\ raised >= needed \/ q = 0
              /\ raised' = raised
           \/ /\ raised' = raised + s /\ s \in Nat
              /\ s * 100 <= (needed - raised) * 102
              /\ s = q \/ s >= needed - raised
    BY <1>2, <1>3, <2>1
  <2> HIDE DEF s, q
  <2>3. /\ raised' * 100 <= needed * 102
        /\ raised' >= needed \/ raised' = q
    BY <1>0, <2>1, <2>2
  <2> QED BY <2>2, <2>3 DEF Fitting, Enough, q
<1>4. CASE LiquidateFrom("SPY", "execute")
  <2>1. Enough(acct.pos["QQQ"]) /\ "SPY" \in ETFs
    BY <1>4 DEF Fitting, LiquidateFrom, Goes, ETFs
  <2> DEFINE s == Sale("SPY")
             q == acct.pos["QQQ"]
             p == acct.pos["SPY"]
  <2>2. /\ UNCHANGED <<faults, needed, acct>> /\ pc' = "execute"
        /\ \/ /\ raised >= needed \/ p = 0
              /\ raised' = raised
           \/ /\ raised < needed /\ raised' = raised + s /\ s \in Nat
              /\ s * 100 <= (needed - raised) * 102
              /\ s = p \/ s >= needed - raised
    BY <1>2, <1>4, <2>1
  <2>3. q \in Nat /\ p \in Nat /\ raised * 100 <= needed * 102
        /\ (raised >= needed \/ raised = q)
    BY <1>1, <2>1 DEF Enough
  <2> HIDE DEF s, q, p
  <2>4. /\ raised' * 100 <= needed * 102
        /\ raised' >= needed \/ raised' = q + p
    BY <1>0, <2>2, <2>3
  <2>5. ETFValue(acct)' = q + p
    BY <1>1, <2>2 DEF q, p, ETFValue
  <2> QED BY <2>2, <2>4, <2>5 DEF Fitting, Enough
<1> QED BY <1>3, <1>4 DEF Liquidate

\* What a step that is no sale does to the cycle's own account of it.
LEMMA OtherSteps ==
    ASSUME [Next]_vars, ~Liquidate
    PROVE  /\ faults' = faults
           /\ \/ UNCHANGED <<pc, needed, raised, acct>>
              \/ pc = "idle" /\ pc' \in {"investOnly", "raise"} /\ UNCHANGED raised
              \/ Raise /\ UNCHANGED <<raised, acct>>
              \/ pc' \in {"invest", "sync"}
              \/ pc' = "idle" /\ raised' = 0
<1>1. CASE UNCHANGED vars
  BY <1>1 DEF vars, fixed, cycleVars
<1>2. CASE NothingToDo \/ Select
  BY <1>2 DEF NothingToDo, Select, AtRest, fixed, cycleVars
<1>3. CASE Raise
  BY <1>3 DEF Raise, fixed
<1>4. CASE (\E p \in plans : Execute(p)) \/ Executed
  BY <1>4 DEF Execute, Executed, Goes, fixed
<1>5. CASE Invest \/ Sync
  BY <1>5 DEF Invest, Sync, Goes, Done, fixed
<1>6. CASE \/ \E r \in RunSets : Publish(r)
           \/ \E s \in Stocks : Fill(s) \/ LegFires(s)
           \/ \E x \in Assets : Settle(x)
  BY <1>6 DEF Publish, Fill, LegFires, Settle, fixed, cycleVars
<1> QED BY <1>1, <1>2, <1>3, <1>4, <1>5, <1>6 DEF Next, Cycle

LEMMA FittingStep ==
    ASSUME Typed, Fitting, [Next]_vars PROVE Fitting'
<1> SUFFICES ASSUME "broker" \notin faults' PROVE Fitting'
  BY DEF Fitting
<1>1. CASE Liquidate
  <2>1. faults' = faults
    BY <1>1 DEF Liquidate, LiquidateFrom, fixed
  <2> QED BY <1>1, <2>1, FittingLiquidate
<1>2. CASE ~Liquidate
  <2>1. faults' = faults /\ "broker" \notin faults
    BY <1>2, OtherSteps
  <2>2. CASE UNCHANGED <<pc, needed, raised, acct>>
    BY <2>1, <2>2 DEF Fitting, Enough, ETFValue
  <2>3. CASE pc = "idle" /\ pc' \in {"investOnly", "raise"} /\ UNCHANGED raised
    BY <2>1, <2>3 DEF Fitting
  <2>4. CASE Raise /\ UNCHANGED <<raised, acct>>
    <3>1. raised' = 0 /\ (pc' = "QQQ" \/ (pc' = "execute" /\ needed' = 0))
      BY <2>1, <2>4 DEF Raise, Fitting
    <3> QED BY <3>1 DEF Fitting, Enough
  <2>5. CASE pc' \in {"invest", "sync"} \/ (pc' = "idle" /\ raised' = 0)
    BY <2>5 DEF Fitting
  <2> QED BY <1>2, <2>2, <2>3, <2>4, <2>5, OtherSteps
<1> QED BY <1>1, <1>2

LEMMA AlwaysFitting == Spec => []Fitting
<1>1. Init => Fitting
  BY DEF Init, Fitting
<1>2. Typed /\ Fitting /\ [Next]_vars => Fitting'
  BY FittingStep
<1> QED BY AlwaysTyped, <1>1, <1>2, PTL DEF Spec

\* For any account and any plans, what is liquidated covers the shortfall and no more than
\* two per cent beyond it, or both ETFs are sold out (_liquidate_etf_for_cash).
THEOREM LiquidationSized == Spec => []LiquidationFits
<1>1. Fitting => LiquidationFits
  BY DEF Fitting, LiquidationFits, Enough
<1> QED BY AlwaysFitting, <1>1, PTL

-----------------------------------------------------------------------------
(* Money, when every order is filled at once *)

LEMMA PromptOrder ==
    ASSUME TypeOK, faults = {}, NEW x \in Assets, NEW d \in Int,
           Order(x, d) \/ (pos[x] + d >= 0 /\ Market(x, d))
    PROVE  /\ UNCHANGED <<resting, due>>
           /\ \/ pos[x] + d < 0 /\ UNCHANGED <<cash, pos>>
              \/ /\ pos[x] + d >= 0 /\ cash' = cash - d
                 /\ pos' = [pos EXCEPT ![x] = @ + d]
BY DEF Order, Fails, Market, brokerVars

\* The broker has nothing to fill, and TDash and run_cycle are alone.
LEMMA PromptSteps ==
    ASSUME Typed, Prompt, faults = {}, [Next]_vars
    PROVE  Prompt' /\ (UNCHANGED vars \/ Cycle \/ \E r \in RunSets : Publish(r))
<1>0. TypeOK
  BY DEF Typed
<1>1. CASE UNCHANGED vars
  BY <1>1 DEF vars, brokerVars, Prompt
<1>2. CASE NothingToDo \/ Select \/ Raise \/ Executed \/ Sync
  BY <1>2 DEF NothingToDo, Select, Raise, Executed, Sync, brokerVars, Prompt, Cycle
<1>3. CASE Liquidate
  <2>1. UNCHANGED <<resting, due>>
    BY <1>3 DEF Liquidate, LiquidateFrom, Market, brokerVars
  <2> QED BY <1>3, <2>1 DEF Prompt, Cycle
<1>4. ASSUME NEW p \in plans, Execute(p) PROVE Prompt' /\ Cycle
  <2>1. UNCHANGED <<resting, due>>
    BY <1>4 DEF Execute, Order, Fails, Market, brokerVars
  <2> QED BY <1>4, <2>1 DEF Prompt, Cycle
<1>5. CASE Invest
  <2>1. UNCHANGED <<resting, due>>
    BY <1>5 DEF Invest, Skips, Buys, Order, Fails, Market, brokerVars
  <2> QED BY <1>5, <2>1 DEF Prompt, Cycle
<1>6. CASE \E r \in RunSets : Publish(r)
  BY <1>6 DEF Publish, brokerVars, Prompt
<1>7. CASE (\E s \in Stocks : Fill(s) \/ LegFires(s)) \/ (\E x \in Assets : Settle(x))
  <2>1. ASSUME NEW s \in Stocks, Fill(s) PROVE FALSE
    BY <2>1 DEF Fill, Prompt
  <2>2. ASSUME NEW s \in Stocks, LegFires(s) PROVE FALSE
    BY <2>2 DEF LegFires
  <2>3. ASSUME NEW x \in Assets, Settle(x) PROVE FALSE
    BY <2>3 DEF Settle, Prompt
  <2> QED BY <1>7, <2>1, <2>2, <2>3
<1> QED BY <1>1, <1>2, <1>3, <1>4, <1>5, <1>6, <1>7 DEF Next, Cycle

LEMMA SolventInit == ASSUME Init PROVE Solvent
<1>1. PICK a \in Accounts : cash = a.cash /\ pos = a.pos /\ file = Synced(a)
  BY DEF Init
<1>2. a.cash \in Nat /\ a.pos \in [Assets -> Nat]
  BY AccountsAssumption DEF Account
<1>3. Now.pos \in [Assets -> Nat] /\ Now.pos = a.pos
  BY <1>1, <1>2 DEF Now
<1>4. ETFValue(Now) = ETFValue(a)
  BY <1>3 DEF ETFValue
<1>5. Prompt /\ ~isNew /\ pc = "idle"
  BY DEF Init, Prompt
<1> QED BY <1>1, <1>2, <1>4, <1>5 DEF Solvent, Reported, Modest, Covered, Synced

\* Selecting keeps to what the file says, which is what there is.
LEMMA SolventSelect ==
    ASSUME Typed, Solvent, faults = {}, Select
    PROVE  Reported' /\ Modest' /\ Covered' /\ cash' >= 0
<1>1. Reported /\ Modest /\ cash >= 0
  BY DEF Solvent
<1>2. /\ UNCHANGED <<cash, pos, run, isNew, file>>
      /\ pc = "idle" /\ pc' = "raise" /\ isNew /\ acct' = Now
      /\ chosen' \in SUBSET DOMAIN run /\ plans' = Plans(run, chosen', Now)
  BY DEF Select, AtRest, fixed, brokerVars, tdashVars
<1>3. run # <<>> /\ run \in RunSets /\ Now.pos \in [Assets -> Nat]
  BY DEF Select, Typed, TypeOK, Now
<1>4. /\ Cost(plans') <= Spent(run) /\ Spent(run) \in Nat
      /\ plans' \in SUBSET Plan /\ IsFiniteSet(plans')
  BY <1>2, <1>3, PlansAre
<1>5. Cost(plans') \in Nat
  BY <1>4, CostIs
<1>6. Required' = Cost(plans')
  BY DEF Required, Cost
<1>7. file.budget \in Int /\ Spent(run) <= file.budget
  BY <1>1, <1>2 DEF Modest, Typed, TypeOK
<1>8. Required' <= file'.budget
  BY <1>2, <1>4, <1>5, <1>6, <1>7
<1>9. acct' = Now' /\ ETFValue(Now)' = ETFValue(Now)
  BY <1>2 DEF Now, ETFValue
<1> QED BY <1>1, <1>2, <1>8, <1>9 DEF Reported, Modest, Covered

\* The shortfall is asked for when the cash does not cover the BUYs.
LEMMA SolventRaise ==
    ASSUME Typed, Fitting, Solvent, faults = {}, Raise
    PROVE  Reported' /\ Modest' /\ Covered' /\ cash' >= 0
<1>1. Reported /\ Modest /\ Covered /\ cash >= 0
  BY DEF Solvent
<1>2. /\ UNCHANGED <<cash, pos, run, isNew, file, acct, plans, raised>>
      /\ pc = "raise"
      /\ IF Shortfall > 0 THEN needed' = Shortfall /\ pc' = "QQQ"
                          ELSE needed' = 0 /\ pc' = "execute"
  BY DEF Raise, fixed, brokerVars, tdashVars
<1>3. Required \in Nat
  BY CostIs DEF Typed, TypeOK, Planless, Required, Cost
<1>4. acct = Now /\ acct.cash = cash /\ cash \in Int /\ raised = 0
  BY <1>1, <1>2 DEF Covered, Fitting, Now, Typed, TypeOK
<1>5. UNCHANGED <<Required, Shortfall, ETFValue(acct)>>
  BY <1>2 DEF Required, Shortfall, ETFValue
<1>6. Required <= acct.cash + ETFValue(acct)
  BY <1>1, <1>2, <1>4 DEF Covered, Reported
<1>7. ASSUME ~(Shortfall > 0) PROVE cash >= Required
  <2>1. (Required * 102) \div 100 \in Nat /\ Required <= (Required * 102) \div 100
    BY <1>3, Buffer
  <2> DEFINE m == (Required * 102) \div 100
  <2>2. m - cash <= 0 /\ m \in Nat
    BY <1>4, <1>7, <2>1 DEF Shortfall
  <2>3. Required <= m
    BY <2>1
  <2> HIDE DEF m
  <2> QED BY <1>3, <1>4, <2>2, <2>3
<1>8. Covered'
  BY <1>2, <1>4, <1>5, <1>6, <1>7 DEF Covered
<1> QED BY <1>1, <1>2, <1>8 DEF Reported, Modest

\* What the ETFs bring is cash, and in the end enough of it.
LEMMA SolventLiquidate ==
    ASSUME Typed, Fitting, Solvent, faults = {}, Liquidate
    PROVE  Reported' /\ Modest' /\ Covered' /\ cash' >= 0
<1>0. TypeOK
  BY DEF Typed
<1>1. Modest /\ Covered /\ cash >= 0 /\ cash \in Int /\ raised \in Nat /\ needed \in Nat
      /\ acct.cash \in Int
  BY <1>0 DEF Solvent, TypeOK, Account
<1>2. UNCHANGED <<run, isNew, file, acct, plans, needed>>
      /\ pc \in {"QQQ", "SPY"} /\ pc' \in {"SPY", "execute"}
  BY DEF Liquidate, LiquidateFrom, Goes, fixed, tdashVars
<1>3. \E s \in Nat : cash' = cash + s /\ raised' = raised + s
  <2>1. ASSUME NEW e \in ETFs, NEW next, LiquidateFrom(e, next)
        PROVE  \E s \in Nat : cash' = cash + s /\ raised' = raised + s
    <3>1. CASE UNCHANGED <<brokerVars, raised>>
      BY <1>1, <3>1 DEF brokerVars
    <3>2. CASE raised < needed /\ Market(e, -Sale(e)) /\ raised' = raised + Sale(e)
      <4>1. Sale(e) \in Nat
        BY <1>0, <3>2, SaleIs
      <4>2. cash' = cash - (-Sale(e))
        BY <3>2 DEF Market
      <4>3. cash' = cash + Sale(e)
        BY <1>1, <4>1, <4>2
      <4> QED BY <3>2, <4>1, <4>3
    <3> QED BY <2>1, <3>1, <3>2 DEF LiquidateFrom
  <2> QED BY <2>1 DEF Liquidate, ETFs
<1>4. Required \in Nat
  BY <1>0, CostIs DEF Typed, TypeOK, Planless, Required, Cost
<1>5. /\ needed = Shortfall /\ cash = acct.cash + raised
      /\ Required <= acct.cash + ETFValue(acct)
  BY <1>1, <1>2 DEF Covered
<1>6. UNCHANGED <<Required, Shortfall, ETFValue(acct)>>
  BY <1>2 DEF Required, Shortfall, ETFValue
<1>7. cash' = acct.cash + raised' /\ cash' >= 0
  BY <1>1, <1>3, <1>5
<1>8. ASSUME pc' = "execute" PROVE cash' >= Required
  <2>1. Fitting' /\ "broker" \notin faults'
    BY FittingLiquidate DEF Liquidate, LiquidateFrom, fixed
  <2>2. Enough(ETFValue(acct))'
    BY <1>8, <2>1 DEF Fitting
  <2>3. raised' >= needed \/ raised' = ETFValue(acct)
    BY <1>2, <1>6, <2>2 DEF Enough
  <2> DEFINE m == (Required * 102) \div 100
  <2>4. m \in Nat /\ Required <= m
    BY <1>4, Buffer
  <2>5. needed = m - acct.cash
    BY <1>5 DEF Shortfall
  <2> HIDE DEF m
  <2>6. raised' \in Nat
    BY <1>1, <1>3
  <2>7. CASE raised' >= needed
    BY <1>1, <1>4, <1>7, <2>4, <2>5, <2>6, <2>7
  <2>8. CASE raised' = ETFValue(acct)
    BY <1>5, <1>7, <2>8
  <2> QED BY <2>3, <2>7, <2>8
<1>9. Covered'
  BY <1>2, <1>5, <1>6, <1>7, <1>8 DEF Covered
<1> QED BY <1>1, <1>2, <1>7, <1>9 DEF Reported, Modest

\* A plan that is executed leaves enough for those that are not.
LEMMA SolventExecute ==
    ASSUME Typed, Solvent, faults = {}, NEW p \in plans, Execute(p)
    PROVE  Reported' /\ Modest' /\ Covered' /\ cash' >= 0
<1>0. TypeOK
  BY DEF Typed
<1>1. Modest /\ Covered /\ cash \in Int
  BY <1>0 DEF Solvent, TypeOK
<1>2. UNCHANGED <<run, isNew, file, pc>> /\ pc = "execute" /\ plans' = plans \ {p}
  BY DEF Execute, fixed, tdashVars
<1>3. p.dollars \in Nat /\ p.ticker \in Assets /\ p.buy \in BOOLEAN
  BY <1>0, ETFsApart DEF TypeOK, Plan
<1>4. /\ Cost(plans) \in Nat /\ Cost(plans') \in Nat
      /\ Cost(plans) = (IF p.buy THEN p.dollars ELSE 0) + Cost(plans')
  <2>1. plans \in SUBSET Plan /\ IsFiniteSet(plans)
    BY <1>0 DEF Typed, TypeOK, Planless
  <2>2. plans' \in SUBSET Plan /\ IsFiniteSet(plans')
    BY <1>2, <2>1, FS_RemoveElement
  <2> QED BY <1>2, <2>1, <2>2, CostIs
<1>5. Required = Cost(plans) /\ Required' = Cost(plans')
  BY DEF Required, Cost
<1>6. cash >= Required
  BY <1>1, <1>2 DEF Covered
<1>7. cash' >= Required'
  <2>1. CASE p.buy
    <3>1. Order(p.ticker, p.dollars)
      BY <2>1 DEF Execute
    <3>2. cash' = cash \/ cash' = cash - p.dollars
      <4>1. p.dollars \in Int
        BY <1>3
      <4> QED BY <1>0, <1>3, <3>1, <4>1, PromptOrder
    <3> QED BY <1>1, <1>3, <1>4, <1>5, <1>6, <2>1, <3>2
  <2>2. CASE ~p.buy
    <3>1. Order(p.ticker, -p.dollars)
      BY <2>2 DEF Execute
    <3>2. cash' = cash \/ cash' = cash - (-p.dollars)
      <4>1. -p.dollars \in Int
        BY <1>3
      <4> QED BY <1>0, <1>3, <3>1, <4>1, PromptOrder
    <3> QED BY <1>1, <1>3, <1>4, <1>5, <1>6, <2>2, <3>2
  <2> QED BY <2>1, <2>2
<1>8. cash' >= 0
  <2>1. cash' \in Int
    BY TypedExecute DEF Typed, TypeOK
  <2> QED BY <1>4, <1>5, <1>7, <2>1
<1> QED BY <1>1, <1>2, <1>7, <1>8 DEF Reported, Modest, Covered

\* What is invested is what exceeds the threshold, and is still there to be sold.
LEMMA SolventInvest ==
    ASSUME Typed, Solvent, faults = {}, Invest
    PROVE  Reported' /\ Modest' /\ Covered' /\ cash' >= 0
<1>0. TypeOK
  BY DEF Typed
<1>1. Reported /\ Modest /\ cash >= 0 /\ cash \in Int /\ Threshold \in Nat
  BY <1>0, LimitsAssumption DEF Solvent, TypeOK
<1>2. UNCHANGED <<run, file>>
      /\ \/ pc' = "sync" /\ isNew' = FALSE
         \/ pc = "investOnly" /\ pc' = "idle" /\ isNew' = isNew
  BY DEF Invest, Goes, tdashVars
<1>3. cash' >= 0 /\ cash' + ETFValue(Now)' = cash + ETFValue(Now)
  <2>1. CASE UNCHANGED brokerVars
    BY <1>1, <2>1 DEF brokerVars, ETFValue, Now
  <2>2. ASSUME NEW e \in ETFs, Order(e, Excess), Excess > 0
        PROVE  cash' >= 0 /\ cash' + ETFValue(Now)' = cash + ETFValue(Now)
    <3>1. Excess \in Int /\ e \in Assets /\ Excess = cash - Threshold
      BY <1>1 DEF Excess, Assets
    <3>2. \/ UNCHANGED <<cash, pos>>
          \/ cash' = cash - Excess /\ pos' = [pos EXCEPT ![e] = @ + Excess]
      BY <1>0, <2>2, <3>1, PromptOrder
    <3>3. pos \in [Assets -> Nat] /\ pos' \in [Assets -> Nat]
      BY <1>0, TypedInvest DEF Typed, TypeOK
    <3>4. /\ ETFValue(Now) = pos["QQQ"] + pos["SPY"]
          /\ ETFValue(Now)' = pos'["QQQ"] + pos'["SPY"]
      <4>1. Now.pos = pos /\ Now'.pos = pos'
        BY DEF Now
      <4>2. ETFValue(Now)' = ETFValue(Now')
        BY DEF ETFValue
      <4> QED BY <3>3, <4>1, <4>2, ETFValueIs
    <3>5. CASE UNCHANGED <<cash, pos>>
      BY <1>1, <3>4, <3>5
    <3>6. CASE cash' = cash - Excess /\ pos' = [pos EXCEPT ![e] = @ + Excess]
      <4>1. pos["QQQ"] \in Nat /\ pos["SPY"] \in Nat
        BY <3>3, ETFsApart
      <4>2. CASE e = "QQQ"
        <5>1. pos'["QQQ"] = pos["QQQ"] + Excess /\ pos'["SPY"] = pos["SPY"]
          BY <3>3, <3>6, <4>2, ETFsApart
        <5> QED BY <1>1, <3>1, <3>4, <3>6, <4>1, <5>1
      <4>3. CASE e = "SPY"
        <5>1. pos'["SPY"] = pos["SPY"] + Excess /\ pos'["QQQ"] = pos["QQQ"]
          BY <3>3, <3>6, <4>3, ETFsApart
        <5> QED BY <1>1, <3>1, <3>4, <3>6, <4>1, <5>1
      <4> QED BY <4>2, <4>3 DEF ETFs
    <3> QED BY <3>2, <3>5, <3>6
  <2> QED BY <2>1, <2>2 DEF Invest, Skips, Buys
<1>4. Modest' /\ Covered'
  BY <1>1, <1>2 DEF Modest, Covered
<1>5. Reported'
  <2>1. CASE pc' = "sync"
    BY <2>1 DEF Reported
  <2>2. CASE pc = "investOnly" /\ file' = file
    BY <1>1, <1>3, <2>2 DEF Reported
  <2> QED BY <1>2, <2>1, <2>2
<1> QED BY <1>3, <1>4, <1>5

LEMMA SolventStep ==
    ASSUME Typed, Fitting, Solvent, [Next]_vars PROVE Solvent'
<1>1. faults' = faults
  <2>1. CASE Liquidate
    BY <2>1 DEF Liquidate, LiquidateFrom, fixed
  <2> QED BY <2>1, OtherSteps
<1> SUFFICES ASSUME faults = {} PROVE Solvent'
  BY <1>1 DEF Solvent
<1>2. Prompt /\ Reported /\ Modest /\ Covered /\ cash >= 0
  BY DEF Solvent
<1>3. Prompt' /\ (UNCHANGED vars \/ Cycle \/ \E r \in RunSets : Publish(r))
  BY <1>2, PromptSteps
<1> SUFFICES Reported' /\ Modest' /\ Covered' /\ cash' >= 0
  BY <1>3 DEF Solvent
<1>4. CASE UNCHANGED vars
  BY <1>2, <1>4 DEF vars, fixed, brokerVars, tdashVars, cycleVars, Reported, Modest, Covered,
      Required, Shortfall, ETFValue, Now
<1>5. CASE NothingToDo
  BY <1>2, <1>5 DEF NothingToDo, AtRest, fixed, brokerVars, tdashVars, cycleVars, Reported, Modest,
      Covered, ETFValue, Now
<1>6. CASE Executed
  BY <1>2, <1>6 DEF Executed, Goes, fixed, brokerVars, tdashVars, cycleVars, Reported, Modest,
      Covered
<1>7. CASE Sync
  <2>1. file' = Synced(Now) /\ UNCHANGED <<cash, pos, run, isNew>> /\ pc = "sync" /\ pc' = "idle"
    BY <1>7 DEF Sync, Goes, brokerVars, tdashVars
  <2>2. ~isNew'
    BY <2>1 DEF Typed, OnRecord
  <2>3. file'.budget = cash + ETFValue(Now) /\ ETFValue(Now)' = ETFValue(Now)
    BY <2>1 DEF Synced, Now, ETFValue
  <2> QED BY <1>2, <2>1, <2>2, <2>3 DEF Reported, Modest, Covered
<1>8. ASSUME NEW r \in RunSets, Publish(r)
      PROVE  Reported' /\ Modest' /\ Covered' /\ cash' >= 0
  BY <1>2, <1>8 DEF Publish, brokerVars, cycleVars, Reported, Modest, Covered, ETFValue, Now
<1> QED BY <1>3, <1>4, <1>5, <1>6, <1>7, <1>8, SolventSelect, SolventRaise, SolventLiquidate,
        SolventExecute, SolventInvest DEF Cycle

LEMMA AlwaysSolvent == Spec => []Solvent
<1>1. Typed /\ Fitting /\ Solvent /\ [Next]_vars => Solvent'
  BY SolventStep
<1> QED BY AlwaysTyped, AlwaysFitting, SolventInit, <1>1, PTL DEF Spec

\* For any accounts, and any runs within the budget of the portfolio file: the account is
\* never overdrawn, as long as orders are filled when they are placed.
THEOREM NeverOverdrawn == Spec => []NoOverdraft
<1>1. Solvent => NoOverdraft
  BY DEF Solvent, NoOverdraft
<1> QED BY AlwaysSolvent, <1>1, PTL

-----------------------------------------------------------------------------
(* The selection *)

\* A run is a finite sequence of signals.
LEMMA RunIs ==
    ASSUME NEW r \in RunSets
    PROVE  /\ DOMAIN r \in SUBSET Nat /\ IsFiniteSet(DOMAIN r)
           /\ \A i \in DOMAIN r : r[i] \in Signal /\ r[i].composite \in Nat
<1>1. r \in Seq(Signal)
  BY RunSetsAssumption
<1>2. DOMAIN r = 1..Len(r) /\ Len(r) \in Nat
  BY <1>1
<1>3. IsFiniteSet(1..Len(r))
  BY <1>2, FS_Interval
<1>4. \A i \in DOMAIN r : r[i] \in Signal
  BY <1>1
<1> QED BY <1>2, <1>3, <1>4 DEF Signal

\* Its indices are in a total order, by composite and then by place.
LEMMA BeforeOrders ==
    ASSUME NEW r \in RunSets, NEW i \in DOMAIN r, NEW j \in DOMAIN r, NEW k \in DOMAIN r
    PROVE  /\ Before(r, i, j) /\ Before(r, j, k) => Before(r, i, k)
           /\ i # j => Before(r, i, j) \/ Before(r, j, i)
           /\ ~Before(r, i, i)
           /\ r[i].composite > r[j].composite => Before(r, i, j)
BY RunIs DEF Before

\* The NEW names that came before an index are no more than all of them.
LEMMA NewsCount ==
    ASSUME NEW r \in RunSets, NEW sel \in SUBSET DOMAIN r,
           NEW U, NEW V, V \subseteq News(r, sel), U \subseteq V
    PROVE  /\ IsFiniteSet(V) /\ Cardinality(U) \in Nat /\ Cardinality(V) \in Nat
           /\ Cardinality(U) <= Cardinality(V)
<1>1. IsFiniteSet(DOMAIN r) /\ V \subseteq DOMAIN r
  BY RunIs DEF News
<1>2. IsFiniteSet(V)
  BY <1>1, FS_Subset
<1> QED BY <1>2, FS_Subset, FS_CardinalityType

LEMMA CountsAre ==
    ASSUME NEW r \in RunSets, NEW a
    PROVE  /\ IsFiniteSet(Assets)
           /\ Cardinality({x \in Assets : a.pos[x] > 0}) \in Nat
           /\ Cardinality({i \in DOMAIN r : r[i].action = "SELL"}) \in Nat
           /\ EffectiveCount(r, a) \in Int
<1>1. IsFiniteSet(Assets)
  <2>1. IsFiniteSet(ETFs)
    <3>1. ETFs = {"QQQ"} \cup {"SPY"}
      BY DEF ETFs
    <3>2. IsFiniteSet({"QQQ"}) /\ IsFiniteSet({"SPY"})
      BY FS_Singleton
    <3> QED BY <3>1, <3>2, FS_Union
  <2> QED BY <2>1, StocksAssumption, FS_Union DEF Assets
<1>2. Cardinality({x \in Assets : a.pos[x] > 0}) \in Nat
  BY <1>1, FS_Subset, FS_CardinalityType
<1>3. Cardinality({i \in DOMAIN r : r[i].action = "SELL"}) \in Nat
  BY RunIs, FS_Subset, FS_CardinalityType
<1> QED BY <1>1, <1>2, <1>3 DEF EffectiveCount

\* If there is room after some NEW names, there is after fewer of them.
LEMMA RoomForFewer ==
    ASSUME NEW r \in RunSets, NEW a, NEW m \in Nat, NEW n \in Nat, m <= n, Room(r, a, n)
    PROVE  Room(r, a, m)
<1>1. EffectiveCount(r, a) \in Int /\ MaxPositions \in Nat /\ MaxNew \in Nat
  BY CountsAre, LimitsAssumption
<1> QED BY <1>1 DEF Room

\* What a selection passes over it has to: the loop of _select_signals never leaves out an
\* entry that is not refused for one that is worth less.
LEMMA SelectionBest ==
    ASSUME NEW r \in RunSets, NEW a, NEW sel, Selection(r, a, sel),
           NEW i \in Actionable(r) \ sel, IsEntry(r[i]), ~Refused(r[i])
    PROVE  /\ r[i].action = "NEW"
           /\ ~Room(r, a, Cardinality(News(r, sel)))
           /\ \A c \in News(r, sel) : r[c].composite >= r[i].composite
<1> DEFINE Ahead(j) == {k \in News(r, sel) : Before(r, k, j)}
<1>1. sel \in SUBSET DOMAIN r /\ i \in DOMAIN r
  BY DEF Selection, Actionable
<1>2. ~Takes(r, a, sel, i)
  BY DEF Selection
<1>3. r[i].action = "NEW" /\ ~Room(r, a, Cardinality(Ahead(i)))
  BY <1>2 DEF Takes
<1>4. ~Room(r, a, Cardinality(News(r, sel)))
  <2>1. /\ Cardinality(Ahead(i)) \in Nat /\ Cardinality(News(r, sel)) \in Nat
        /\ Cardinality(Ahead(i)) <= Cardinality(News(r, sel))
    <3>1. Ahead(i) \subseteq News(r, sel)
      OBVIOUS
    <3> HIDE DEF Ahead
    <3> QED BY <1>1, <3>1, NewsCount
  <2> QED BY <1>3, <2>1, RoomForFewer
<1>5. ASSUME NEW c \in News(r, sel), ~(r[c].composite >= r[i].composite)
      PROVE  FALSE
  <2>1. c \in sel /\ c \in DOMAIN r /\ r[c].action = "NEW"
    BY <1>1 DEF News
  <2>2. Room(r, a, Cardinality(Ahead(c)))
    <3>1. Takes(r, a, sel, c) /\ ~IsExit(r[c])
      BY <2>1 DEF Selection, IsExit
    <3> QED BY <2>1, <3>1 DEF Takes
  <2>3. Before(r, i, c)
    <3>1. r[c].composite \in Nat /\ r[i].composite \in Nat
      BY <1>1, <2>1, RunIs
    <3>2. r[i].composite > r[c].composite
      BY <1>5, <3>1
    <3> QED BY <1>1, <2>1, <3>2, BeforeOrders
  <2>4. Ahead(i) \subseteq Ahead(c)
    <3> SUFFICES ASSUME NEW k \in News(r, sel), Before(r, k, i) PROVE Before(r, k, c)
      OBVIOUS
    <3>1. k \in DOMAIN r
      BY <1>1 DEF News
    <3> QED BY <1>1, <2>1, <2>3, <3>1, BeforeOrders
  <2>5. /\ Cardinality(Ahead(i)) \in Nat /\ Cardinality(Ahead(c)) \in Nat
        /\ Cardinality(Ahead(i)) <= Cardinality(Ahead(c))
    <3>1. Ahead(c) \subseteq News(r, sel)
      OBVIOUS
    <3> HIDE DEF Ahead
    <3> QED BY <1>1, <2>4, <3>1, NewsCount
  <2> QED BY <1>3, <2>2, <2>5, RoomForFewer
<1> QED BY <1>3, <1>4, <1>5

\* For any run, account and caps, the selection of a cycle is the best one.
THEOREM SelectsBest == Spec => BestSelected
<1> DEFINE Best == pc = "idle" /\ pc' = "raise" =>
        \A i \in Actionable(run) \ chosen' :
            IsEntry(run[i]) /\ ~Refused(run[i]) =>
                /\ run[i].action = "NEW"
                /\ ~Room(run, Now, Cardinality(News(run, chosen')))
                /\ \A c \in News(run, chosen') : run[c].composite >= run[i].composite
<1>1. Typed /\ [Next]_vars => Best
  <2> SUFFICES ASSUME Typed, [Next]_vars, pc = "idle", pc' = "raise" PROVE Best
    OBVIOUS
  <2>1. Select
    <3>1. pc' # pc
      OBVIOUS
    <3>2. Next
      BY <3>1 DEF vars
    <3>3. ~NothingToDo /\ ~Raise /\ ~Liquidate /\ ~Executed /\ ~Invest /\ ~Sync
      BY DEF NothingToDo, Raise, Liquidate, LiquidateFrom, Executed, Invest, Sync, Goes
    <3>4. ~(\E p \in plans : Execute(p)) /\ ~(\E r \in RunSets : Publish(r))
      BY <3>1 DEF Execute, Publish
    <3>5. ~(\E s \in Stocks : Fill(s) \/ LegFires(s)) /\ ~(\E x \in Assets : Settle(x))
      BY <3>1 DEF Fill, LegFires, Settle
    <3> QED BY <3>2, <3>3, <3>4, <3>5 DEF Next, Cycle
  <2>2. Selection(run, Now, chosen') /\ chosen' # {} /\ chosen' \in SUBSET DOMAIN run
    BY <2>1 DEF Select
  <2>3. run \in RunSets
    BY <2>2 DEF Typed, TypeOK
  <2> QED BY <2>2, <2>3, SelectionBest
<1>2. Typed /\ [Next]_vars => [Best]_vars
  BY <1>1
<1> HIDE DEF Best
<1>3. Spec => [][Best]_vars
  BY AlwaysTyped, <1>2, PTL DEF Spec
<1> QED BY <1>3 DEF BestSelected, Best

-----------------------------------------------------------------------------
(* The cap on positions *)

\* Of the NEW names of a selection one comes last.
LEMMA LastNew ==
    ASSUME NEW r \in RunSets, NEW S \in SUBSET DOMAIN r, S # {}
    PROVE  \E c \in S : \A k \in S \ {c} : Before(r, k, c)
<1> DEFINE Last(T, c) == c \in T /\ \A k \in T \ {c} : Before(r, k, c)
           F == {T \in SUBSET S : T = {} \/ \E c \in T : Last(T, c)}
<1>1. ASSUME NEW T \in SUBSET S, \A x \in T : T \ {x} \in F PROVE T \in F
  <2> SUFFICES ASSUME NEW x \in T PROVE \E c \in T : Last(T, c)
    OBVIOUS
  <2>1. T \ {x} \in F
    BY <1>1
  <2>2. CASE T \ {x} = {}
    BY <2>2
  <2>3. CASE T \ {x} # {}
    <3>1. PICK c \in T \ {x} : Last(T \ {x}, c)
      BY <2>1, <2>3
    <3>2. c \in DOMAIN r /\ x \in DOMAIN r /\ c # x /\ T \subseteq DOMAIN r
      OBVIOUS
    <3>3. CASE Before(r, x, c)
      BY <3>1, <3>3
    <3>4. CASE Before(r, c, x)
      <4>1. \A k \in T \ {x} : k # c => Before(r, k, c)
        BY <3>1
      <4>2. \A k \in T \ {x} : Before(r, k, x)
        BY <3>2, <3>4, <4>1, BeforeOrders
      <4> QED BY <4>2
    <3> QED BY <3>2, <3>3, <3>4, BeforeOrders
  <2> QED BY <2>2, <2>3
<1>2. IsFiniteSet(S)
  BY RunIs, FS_Subset
<1>3. \A T \in SUBSET S : T \in F
  <2> HIDE DEF F
  <2> QED BY <1>1, <1>2, SubsetsFromEmpty
<1>4. S \in F
  BY <1>3
<1> QED BY <1>4

\* The NEW names of a selection fit the cap, with the slots that the SELLs free.
LEMMA NewsFit ==
    ASSUME NEW r \in RunSets, NEW a, NEW sel, Selection(r, a, sel), News(r, sel) # {}
    PROVE  EffectiveCount(r, a) + Cardinality(News(r, sel)) <= MaxPositions
<1> DEFINE N == News(r, sel)
<1>1. sel \in SUBSET DOMAIN r /\ N \in SUBSET DOMAIN r
  BY DEF Selection, Actionable, News
<1>2. PICK c \in N : \A k \in N \ {c} : Before(r, k, c)
  BY <1>1, LastNew
<1>3. {j \in N : Before(r, j, c)} = N \ {c}
  BY <1>1, <1>2, BeforeOrders
<1>4. Room(r, a, Cardinality(N \ {c}))
  <2>1. c \in sel /\ c \in DOMAIN r /\ r[c].action = "NEW"
    BY <1>1 DEF News
  <2>2. Takes(r, a, sel, c) /\ ~IsExit(r[c])
    BY <2>1 DEF Selection, IsExit
  <2> QED BY <1>3, <2>1, <2>2 DEF Takes
<1>5. Cardinality(N) \in Nat /\ Cardinality(N \ {c}) = Cardinality(N) - 1
  <2>1. IsFiniteSet(N)
    BY <1>1, RunIs, FS_Subset
  <2> QED BY <2>1, FS_RemoveElement, FS_CardinalityType
<1>6. EffectiveCount(r, a) \in Int /\ MaxPositions \in Nat
  BY CountsAre, LimitsAssumption
<1> QED BY <1>4, <1>5, <1>6 DEF Room

\* The sets that are counted are finite.
LEMMA Counted ==
    ASSUME Typed
    PROVE  /\ IsFiniteSet(Held) /\ IsFiniteSet(NewLeft) /\ IsFiniteSet(SoldOff)
           /\ Cardinality(Held) \in Nat /\ Cardinality(NewLeft) \in Nat
           /\ Cardinality(SoldOff) \in Nat /\ MaxPositions \in Nat
<1>1. IsFiniteSet(Held)
  BY StocksAssumption, FS_Subset DEF Held
<1>2. IsFiniteSet(NewLeft) /\ IsFiniteSet(SoldOff)
  BY FS_Subset DEF Typed, Planless, NewLeft, SoldOff
<1> QED BY <1>1, <1>2, FS_CardinalityType, LimitsAssumption

\* When the steps of a cycle leave the stocks and the plans alone, nothing is counted anew.
LEMMA SameSlots ==
    ASSUME \A x \in Stocks : pos'[x] = pos[x], plans' = plans, plans \subseteq Plan
    PROVE  Held' = Held /\ NewLeft' = NewLeft /\ SoldOff' = SoldOff
<1>1. \A p \in plans : p.ticker \in Stocks
  BY DEF Plan
<1> QED BY <1>1 DEF Held, NewLeft, SoldOff

\* A selection: every SELL is of a stock that is held, and gets a plan that sells it off,
\* and every plan for a new name is for a NEW one.
LEMMA CapSelect ==
    ASSUME Typed, Listed, Select
    PROVE  Orderly' /\ Slots'
<1>1. /\ UNCHANGED <<cash, pos, run, isNew, file>>
      /\ pc = "idle" /\ pc' = "raise" /\ isNew
      /\ chosen' \in SUBSET DOMAIN run /\ Selection(run, Now, chosen')
      /\ plans' = Plans(run, chosen', Now)
  BY DEF Select, AtRest, fixed, brokerVars, tdashVars
<1>2. run \in RunSets /\ pos \in [Assets -> Nat] /\ Now.pos = pos
  BY DEF Select, Typed, TypeOK, Now
<1>3. \A i \in DOMAIN run : run[i].action = "NEW" <=> run[i].ticker \notin Held
  BY <1>1 DEF Listed
<1>4. \A i, j \in DOMAIN run : run[i].ticker = run[j].ticker => i = j
  BY <1>2, RunSetsAssumption
<1>5. ASSUME NEW p \in plans'
      PROVE  /\ p.dollars > 0 /\ p.ticker \in Stocks
             /\ \E i \in chosen' : p = PlanOf(run[i], Now)
  <2>1. plans' \subseteq Plan
    BY <1>1, <1>2, PlansAre
  <2> QED BY <1>1, <2>1 DEF Plans, Plan
<1>6. \A i \in DOMAIN run : run[i].ticker \in Stocks /\ pos[run[i].ticker] \in Nat
                            /\ run[i].dollars \in Nat
  BY <1>2, RunIs, ETFsApart DEF Signal
<1>7. Orderly'
  <2>1. ASSUME NEW p \in plans', NEW q \in plans', p.ticker = q.ticker PROVE p = q
    <3>1. PICK i \in chosen' : p = PlanOf(run[i], Now)
      BY <1>5
    <3>2. PICK j \in chosen' : q = PlanOf(run[j], Now)
      BY <1>5
    <3>3. run[i].ticker = run[j].ticker
      BY <2>1, <3>1, <3>2 DEF PlanOf
    <3> QED BY <1>1, <1>4, <3>1, <3>2, <3>3
  <2>2. ASSUME NEW p \in plans', ~p.buy PROVE p.dollars <= pos[p.ticker]
    <3>1. PICK i \in chosen' : p = PlanOf(run[i], Now)
      BY <1>5
    <3>2. p.buy = IsEntry(run[i]) /\ p.dollars = Planned(run[i], Now)
          /\ p.ticker = run[i].ticker
      BY <3>1 DEF PlanOf
    <3> QED BY <1>1, <1>2, <1>6, <2>2, <3>2 DEF Planned
  <2> QED BY <1>1, <1>5, <2>1, <2>2 DEF Orderly
<1> DEFINE Sells == {i \in DOMAIN run : run[i].action = "SELL"}
           N == News(run, chosen')
<1>8. IsFiniteSet(SoldOff') /\ IsFiniteSet(NewLeft')
  <2>1. IsFiniteSet(plans')
    BY <1>1, <1>2, PlansAre
  <2> QED BY <2>1, FS_Subset DEF SoldOff, NewLeft
<1>9. Cardinality(Sells) <= Cardinality(SoldOff')
  <2> DEFINE f == [i \in Sells |-> PlanOf(run[i], Now)]
  <2>1. ASSUME NEW i \in Sells
        PROVE  PlanOf(run[i], Now) \in SoldOff' /\ PlanOf(run[i], Now).ticker = run[i].ticker
    <3>1. i \in chosen'
      BY <1>1 DEF Selection, Actionable, Takes, IsExit
    <3> DEFINE p == PlanOf(run[i], Now)
    <3>2. /\ p.ticker = run[i].ticker /\ p.buy = IsEntry(run[i])
          /\ p.dollars = Planned(run[i], Now)
      BY DEF PlanOf
    <3>3. ~IsEntry(run[i]) /\ Planned(run[i], Now) = pos[run[i].ticker]
      BY <1>2 DEF Planned, IsEntry, IsExit
    <3>4. pos[run[i].ticker] > 0
      <4>1. run[i].ticker \in Held
        BY <1>3
      <4> QED BY <4>1 DEF Held
    <3>5. p \in plans'
      BY <1>1, <3>1, <3>2, <3>3, <3>4 DEF Plans
    <3> QED BY <1>1, <3>2, <3>3, <3>5 DEF SoldOff
  <2>2. f \in Injection(Sells, SoldOff')
    <3>1. \A i, j \in Sells : f[i] = f[j] => i = j
      BY <1>4, <2>1
    <3>2. f \in [Sells -> SoldOff']
      BY <2>1
    <3> HIDE DEF f
    <3> QED BY <3>1, <3>2 DEF Injection, IsInjective
  <2> HIDE DEF f
  <2> QED BY <1>8, <2>2, FS_Injection
<1>10. Cardinality(NewLeft') <= Cardinality(N)
  <2> DEFINE h == [p \in NewLeft' |-> CHOOSE i \in chosen' : p = PlanOf(run[i], Now)]
  <2>1. ASSUME NEW p \in NewLeft'
        PROVE  h[p] \in N /\ p = PlanOf(run[h[p]], Now)
    <3>1. p \in plans' /\ p.buy /\ pos[p.ticker] = 0
      BY <1>1 DEF NewLeft
    <3>2. h[p] \in chosen' /\ p = PlanOf(run[h[p]], Now)
      BY <1>5, <3>1
    <3> HIDE DEF h
    <3>3. run[h[p]].ticker = p.ticker
      BY <3>2 DEF PlanOf
    <3>4. run[h[p]].ticker \notin Held
      BY <3>1, <3>3 DEF Held
    <3>5. run[h[p]].action = "NEW"
      BY <1>1, <1>3, <3>2, <3>4
    <3> QED BY <3>2, <3>5 DEF News
  <2>2. h \in Injection(NewLeft', N)
    <3>1. \A p, q \in NewLeft' : h[p] = h[q] => p = q
      BY <2>1
    <3>2. h \in [NewLeft' -> N]
      BY <2>1
    <3> HIDE DEF h
    <3> QED BY <3>1, <3>2 DEF Injection, IsInjective
  <2>3. IsFiniteSet(N)
    BY <1>1, <1>2, RunIs, FS_Subset DEF News
  <2> HIDE DEF h
  <2> QED BY <2>2, <2>3, FS_Injection
<1>11. /\ Cardinality(Held') \in Nat /\ Cardinality(NewLeft') \in Nat
       /\ Cardinality(SoldOff') \in Nat /\ Cardinality(N) \in Nat /\ MaxPositions \in Nat
       /\ Cardinality(Sells) \in Nat
       /\ EffectiveCount(run, Now) = Cardinality({x \in Assets : pos[x] > 0}) - Cardinality(Sells)
       /\ Cardinality({x \in Assets : pos[x] > 0}) \in Nat
       /\ Cardinality(Held') <= Cardinality({x \in Assets : pos[x] > 0})
  <2>1. /\ Cardinality({x \in Assets : pos[x] > 0}) \in Nat /\ Cardinality(Sells) \in Nat
        /\ IsFiniteSet({x \in Assets : pos[x] > 0})
    BY <1>2, CountsAre, FS_Subset
  <2>2. Held' \subseteq {x \in Assets : pos[x] > 0}
    BY <1>1, ETFsApart DEF Held
  <2>3. Cardinality(Held') \in Nat
        /\ Cardinality(Held') <= Cardinality({x \in Assets : pos[x] > 0})
    BY <2>1, <2>2, FS_Subset, FS_CardinalityType
  <2>4. IsFiniteSet(N)
    BY <1>1, <1>2, RunIs, FS_Subset DEF News
  <2> QED BY <1>2, <1>8, <2>1, <2>3, <2>4, FS_CardinalityType, LimitsAssumption
          DEF EffectiveCount
<1>12. ASSUME NewLeft' # {}
       PROVE  Cardinality(Held') + Cardinality(NewLeft') <= MaxPositions + Cardinality(SoldOff')
  <2>1. N # {}
    <3>1. Cardinality(NewLeft') # 0
      BY <1>8, <1>12, FS_EmptySet
    <3>2. Cardinality(N) # 0
      BY <1>10, <1>11, <3>1
    <3> QED BY <3>2, FS_EmptySet
  <2>2. EffectiveCount(run, Now) + Cardinality(N) <= MaxPositions
    BY <1>1, <1>2, <2>1, NewsFit
  <2> HIDE DEF N, Sells
  <2> QED BY <1>9, <1>10, <1>11, <2>2
<1> QED BY <1>7, <1>12 DEF Slots

\* What executing a plan does to the stocks held and to what is left to do.
LEMMA ExecuteMoves ==
    ASSUME Typed, Orderly, faults = {}, NEW p \in plans, Execute(p)
    PROVE  /\ UNCHANGED <<run, isNew, file, pc>> /\ pc = "execute" /\ plans' = plans \ {p}
           /\ \A q \in plans' : pos'[q.ticker] = pos[q.ticker]
           /\ p.buy => SoldOff = {}
           /\ NewLeft' = NewLeft \ {p} /\ SoldOff' = SoldOff \ {p}
           /\ Held' = IF p \in SoldOff THEN Held \ {p.ticker} ELSE Held \cup {p.ticker}
           /\ p.ticker \notin Held <=> p \in NewLeft
<1>0. TypeOK /\ pos \in [Assets -> Nat]
  BY DEF Typed, TypeOK
<1>1. UNCHANGED <<run, isNew, file, pc>> /\ pc = "execute" /\ plans' = plans \ {p}
  BY DEF Execute, fixed, tdashVars
<1> DEFINE t == p.ticker
           d == IF p.buy THEN p.dollars ELSE -p.dollars
<1>2. /\ t \in Stocks /\ t \in Assets /\ p.dollars \in Nat /\ p.dollars > 0 /\ p.buy \in BOOLEAN
      /\ ~p.buy => p.dollars <= pos[t]
      /\ \A q \in plans' : q.ticker \in Stocks /\ q.ticker \in Assets /\ q.ticker # t
  BY <1>0, <1>1, ETFsApart DEF TypeOK, Plan, Orderly, Busy
<1>3. d \in Int /\ pos[t] \in Nat /\ pos[t] + d >= 0
  BY <1>0, <1>2
<1>4. Order(t, d)
  BY <1>2 DEF Execute
<1>5. pos' = [pos EXCEPT ![t] = @ + d]
  <2> HIDE DEF d, t
  <2> QED BY <1>0, <1>2, <1>3, <1>4, PromptOrder
<1>6. pos'[t] = pos[t] + d /\ \A x \in Assets : x # t => pos'[x] = pos[x]
  BY <1>0, <1>2, <1>5
<1>7. \A q \in plans' : pos'[q.ticker] = pos[q.ticker]
  BY <1>2, <1>6
<1>8. p.buy => SoldOff = {}
  BY DEF Execute, SoldOff
<1>9. NewLeft' = NewLeft \ {p} /\ SoldOff' = SoldOff \ {p}
  BY <1>1, <1>7 DEF NewLeft, SoldOff
<1>10. p.ticker \notin Held <=> p \in NewLeft
  BY <1>2, <1>3 DEF Held, NewLeft
<1>11. Held' = IF p \in SoldOff THEN Held \ {t} ELSE Held \cup {t}
  <2>1. \A x \in Stocks : x # t => (x \in Held' <=> x \in Held)
    BY <1>6, ETFsApart DEF Held
  <2>2. t \in Held' <=> p \notin SoldOff
    BY <1>2, <1>3, <1>6 DEF Held, SoldOff
  <2>3. Held \subseteq Stocks /\ Held' \subseteq Stocks
    BY DEF Held
  <2> QED BY <1>2, <2>1, <2>2, <2>3
<1> QED BY <1>1, <1>7, <1>8, <1>9, <1>10, <1>11

LEMMA CapExecute ==
    ASSUME Typed, Orderly, Slots, faults = {}, NEW p \in plans, Execute(p)
    PROVE  /\ Orderly' /\ Slots'
           /\ Cardinality(Held') <= Cardinality(Held) \/ Cardinality(Held') <= MaxPositions
<1>1. /\ pc' = "execute" /\ pc = "execute" /\ plans' = plans \ {p}
      /\ \A q \in plans' : pos'[q.ticker] = pos[q.ticker]
      /\ p.buy => SoldOff = {}
      /\ NewLeft' = NewLeft \ {p} /\ SoldOff' = SoldOff \ {p}
      /\ Held' = IF p \in SoldOff THEN Held \ {p.ticker} ELSE Held \cup {p.ticker}
      /\ p.ticker \notin Held <=> p \in NewLeft
  BY ExecuteMoves
<1>2. Orderly'
  BY <1>1 DEF Orderly, Busy
<1>3. /\ IsFiniteSet(Held) /\ IsFiniteSet(NewLeft) /\ IsFiniteSet(SoldOff)
      /\ Cardinality(Held) \in Nat /\ Cardinality(NewLeft) \in Nat
      /\ Cardinality(SoldOff) \in Nat /\ MaxPositions \in Nat
  BY Counted
<1>4. NewLeft # {} => Cardinality(Held) + Cardinality(NewLeft) <= MaxPositions + Cardinality(SoldOff)
  BY <1>1 DEF Slots, Busy
<1>5. CASE p \in SoldOff
  <2>1. p.ticker \in Held /\ p \notin NewLeft
    BY <1>1, <1>5 DEF SoldOff, NewLeft
  <2>2. /\ Cardinality(Held') = Cardinality(Held) - 1
        /\ Cardinality(SoldOff') = Cardinality(SoldOff) - 1
        /\ NewLeft' = NewLeft
    <3>1. Held' = Held \ {p.ticker} /\ SoldOff' = SoldOff \ {p} /\ NewLeft' = NewLeft
      BY <1>1, <1>5, <2>1
    <3>2. Cardinality(Held \ {p.ticker}) = Cardinality(Held) - 1
      BY <1>3, <2>1, FS_RemoveElement
    <3>3. Cardinality(SoldOff \ {p}) = Cardinality(SoldOff) - 1
      BY <1>3, <1>5, FS_RemoveElement
    <3> QED BY <3>1, <3>2, <3>3
  <2> QED BY <1>2, <1>3, <1>4, <2>2 DEF Slots
<1>6. CASE p \in NewLeft
  <2>1. SoldOff = {} /\ SoldOff' = {} /\ p \notin SoldOff
    BY <1>1, <1>6 DEF NewLeft
  <2>2. /\ Cardinality(Held') = Cardinality(Held) + 1
        /\ Cardinality(NewLeft') = Cardinality(NewLeft) - 1
        /\ Cardinality(SoldOff) = 0 /\ Cardinality(SoldOff') = 0
    BY <1>1, <1>3, <1>6, <2>1, FS_AddElement, FS_RemoveElement, FS_EmptySet
  <2>3. Cardinality(NewLeft') \in Nat
    BY <1>1, <1>3, FS_RemoveElement, FS_CardinalityType
  <2>4. Cardinality(Held) + Cardinality(NewLeft) <= MaxPositions + Cardinality(SoldOff)
    BY <1>4, <1>6
  <2> QED BY <1>2, <1>3, <2>2, <2>3, <2>4 DEF Slots
<1>7. CASE p \notin SoldOff /\ p \notin NewLeft
  <2>1. Held' = Held /\ NewLeft' = NewLeft /\ SoldOff' = SoldOff
    BY <1>1, <1>7
  <2> QED BY <1>2, <1>3, <1>4, <2>1 DEF Slots
<1> QED BY <1>5, <1>6, <1>7

\* Any other step leaves the stocks alone, when every order is filled at once.
LEMMA StocksLeft ==
    ASSUME Typed, Prompt, faults = {}, [Next]_vars, \A p \in plans : ~Execute(p)
    PROVE  \A x \in Stocks : pos'[x] = pos[x]
<1>0. TypeOK
  BY DEF Typed
<1>1. CASE UNCHANGED vars \/ NothingToDo \/ Select \/ Raise \/ Executed \/ Sync
           \/ \E r \in RunSets : Publish(r)
  BY <1>1 DEF vars, NothingToDo, Select, Raise, Executed, Sync, Publish, brokerVars
<1>2. CASE Liquidate
  <2>1. ASSUME NEW e \in ETFs, NEW next, LiquidateFrom(e, next)
        PROVE  \A x \in Stocks : pos'[x] = pos[x]
    <3>1. CASE UNCHANGED brokerVars
      BY <3>1 DEF brokerVars
    <3>2. CASE Market(e, -Sale(e))
      <4>1. pos' = [pos EXCEPT ![e] = @ + (-Sale(e))]
        BY <3>2 DEF Market
      <4> QED BY <1>0, <4>1, ETFsApart DEF TypeOK, ETFs
    <3> QED BY <2>1, <3>1, <3>2 DEF LiquidateFrom
  <2> QED BY <1>2, <2>1 DEF Liquidate, ETFs
<1>3. CASE Invest
  <2>1. CASE UNCHANGED brokerVars
    BY <2>1 DEF brokerVars
  <2>2. ASSUME NEW e \in ETFs, Order(e, Excess) PROVE \A x \in Stocks : pos'[x] = pos[x]
    <3>1. UNCHANGED pos \/ pos' = [pos EXCEPT ![e] = @ + Excess]
      BY <2>2 DEF Order, Fails, Market, brokerVars
    <3> QED BY <1>0, <2>2, <3>1, ETFsApart DEF TypeOK, ETFs
  <2> QED BY <1>3, <2>1, <2>2 DEF Invest, Skips, Buys
<1> QED BY <1>1, <1>2, <1>3, PromptSteps DEF Cycle

LEMMA CapStep ==
    ASSUME Typed, Prompt, Orderly, Slots, Listed, faults = {}, [Next]_vars
    PROVE  /\ Orderly' /\ Slots' /\ Listed'
           /\ Cardinality(Held') <= Cardinality(Held) \/ Cardinality(Held') <= MaxPositions
<1>1. CASE \E p \in plans : Execute(p)
  <2>1. pc' = "execute"
    BY <1>1 DEF Execute
  <2> QED BY <1>1, <2>1, CapExecute DEF Listed
<1>2. CASE \A p \in plans : ~Execute(p)
  <2>1. \A x \in Stocks : pos'[x] = pos[x]
    BY <1>2, StocksLeft
  <2>2. Held' = Held
    BY <2>1 DEF Held
  <2>3. Cardinality(Held) \in Nat
    BY Counted
  <2>4. ASSUME plans' = plans, pc' \in Busy => pc \in Busy
        PROVE  Orderly' /\ Slots'
    <3>1. NewLeft' = NewLeft /\ SoldOff' = SoldOff /\ \A p \in plans : p.ticker \in Stocks
      BY <2>1, <2>4, SameSlots DEF Typed, TypeOK, Plan
    <3>2. Orderly'
      BY <2>1, <2>4, <3>1 DEF Orderly
    <3> QED BY <2>2, <2>4, <3>1, <3>2 DEF Slots
  <2>5. CASE UNCHANGED vars
    BY <2>2, <2>3, <2>4, <2>5 DEF vars, tdashVars, cycleVars, Listed
  <2>6. CASE NothingToDo
    BY <2>2, <2>3, <2>4, <2>6 DEF NothingToDo, AtRest, tdashVars, cycleVars, Busy, Listed
  <2>7. CASE Select
    BY <2>2, <2>3, <2>7, CapSelect DEF Select, Listed
  <2>8. CASE Raise
    BY <2>2, <2>3, <2>4, <2>8 DEF Raise, Busy, Listed
  <2>9. CASE Liquidate
    BY <2>2, <2>3, <2>4, <2>9 DEF Liquidate, LiquidateFrom, Goes, Busy, Listed
  <2>10. CASE Executed
    BY <2>2, <2>3, <2>4, <2>10 DEF Executed, Goes, cycleVars, Busy, Listed
  <2>11. CASE Invest
    <3>1. UNCHANGED <<run, file>>
          /\ \/ pc' = "sync"
             \/ pc = "investOnly" /\ pc' = "idle" /\ isNew' = isNew
      BY <2>11 DEF Invest, Goes, tdashVars
    <3> QED BY <2>2, <2>3, <3>1 DEF Orderly, Slots, Listed, Busy
  <2>12. CASE Sync
    <3>1. pc = "sync" /\ pc' = "idle" /\ file' = Synced(Now) /\ isNew' = isNew
      BY <2>12 DEF Sync, Goes
    <3>2. ~isNew' /\ file'.holdings = Held
      BY <3>1 DEF Typed, OnRecord, Synced, Now, Held
    <3> QED BY <2>2, <2>3, <3>1, <3>2 DEF Orderly, Slots, Listed, Busy
  <2>13. ASSUME NEW r \in RunSets, Publish(r)
         PROVE  /\ Orderly' /\ Slots' /\ Listed'
                /\ Cardinality(Held') <= Cardinality(Held)
    <3>1. /\ pc = "idle" /\ pc' = "idle" /\ file' = file /\ run' = r
          /\ \A i \in DOMAIN r : r[i].action = "NEW" <=> r[i].ticker \notin file.holdings
      BY <2>13 DEF Publish
    <3>2. file.holdings = Held
      BY <3>1 DEF Listed
    <3> QED BY <2>2, <2>3, <3>1, <3>2 DEF Orderly, Slots, Listed, Busy
  <2> QED BY <1>2, <2>5, <2>6, <2>7, <2>8, <2>9, <2>10, <2>11, <2>12, <2>13, PromptSteps
          DEF Cycle
<1> QED BY <1>1, <1>2

LEMMA CappedInit == ASSUME Init PROVE Capped
<1>1. PICK a \in Accounts : pos = a.pos /\ file = Synced(a)
  BY DEF Init
<1> QED BY <1>1 DEF Init, Capped, Prompt, Orderly, Slots, Listed, Busy, Synced, Held

LEMMA CappedStep ==
    ASSUME Typed, Capped, [Next]_vars
    PROVE  /\ Capped'
           /\ faults = {} => \/ Cardinality(Held') <= Cardinality(Held)
                             \/ Cardinality(Held') <= MaxPositions
<1>1. faults' = faults
  <2>1. CASE Liquidate
    BY <2>1 DEF Liquidate, LiquidateFrom, fixed
  <2> QED BY <2>1, OtherSteps
<1>2. CASE faults = {}
  <2>1. Prompt /\ Orderly /\ Slots /\ Listed
    BY <1>2 DEF Capped
  <2> QED BY <1>2, <2>1, CapStep, PromptSteps DEF Capped
<1>3. CASE faults # {}
  BY <1>1, <1>3 DEF Capped
<1> QED BY <1>2, <1>3

\* For any accounts, limits and runs that go by the portfolio file: no step takes the number
\* of stocks held above max_positions, as long as orders are filled when they are placed.
THEOREM CapHolds == Spec => CapKept
<1> DEFINE Step == faults = {} => Names' <= Names \/ Names' <= MaxPositions
<1>1. Typed /\ Capped /\ [Next]_vars => Capped'
  BY CappedStep
<1>2. Typed /\ Capped /\ [Next]_vars => [Step]_vars
  BY CappedStep DEF Names, Held
<1> HIDE DEF Step
<1>3. Spec => [][Step]_vars
  BY AlwaysTyped, CappedInit, <1>1, <1>2, PTL DEF Spec
<1> QED BY <1>3 DEF CapKept, Step

-----------------------------------------------------------------------------
(* There is one selection *)

\* What is taken of an index depends on the indices before it only.
LEMMA TakesByEarlier ==
    ASSUME NEW r \in RunSets, NEW a, NEW s \in SUBSET DOMAIN r, NEW t \in SUBSET DOMAIN r,
           NEW c \in DOMAIN r, s \ {c} = t \ {c},
           NEW i \in DOMAIN r, i = c \/ Before(r, i, c)
    PROVE  Takes(r, a, s, i) <=> Takes(r, a, t, i)
<1>1. ~Before(r, c, i)
  <2>1. Before(r, i, c) /\ Before(r, c, i) => Before(r, i, i)
    BY BeforeOrders
  <2> QED BY <2>1, BeforeOrders
<1>2. {j \in News(r, s) : Before(r, j, i)} = {j \in News(r, t) : Before(r, j, i)}
  BY <1>1 DEF News
<1> QED BY <1>2 DEF Takes

\* Of any run and account there is one selection and no other: the definition by what a
\* selection takes says what the loop of _select_signals computes.
THEOREM SelectionIsOne ==
    ASSUME NEW r \in RunSets, NEW a
    PROVE  \E sel \in SUBSET DOMAIN r :
              /\ Selection(r, a, sel)
              /\ \A other : Selection(r, a, other) => other = sel
<1> DEFINE Of(T, s) == s = {i \in T : Takes(r, a, s, i)}
           F == {T \in SUBSET Actionable(r) :
                    \E s \in SUBSET T : Of(T, s) /\ \A t : Of(T, t) => t = s}
<1>1. Actionable(r) \in SUBSET DOMAIN r
  BY DEF Actionable
<1>2. ASSUME NEW T \in SUBSET Actionable(r), \A x \in T : T \ {x} \in F PROVE T \in F
  <2>1. CASE T = {}
    BY <2>1
  <2>2. CASE T # {}
    <3>1. PICK c \in T : \A k \in T \ {c} : Before(r, k, c)
      BY <1>1, <2>2, LastNew
    <3>2. PICK s0 \in SUBSET (T \ {c}) :
             Of(T \ {c}, s0) /\ \A t : Of(T \ {c}, t) => t = s0
      BY <1>2
    <3>3. ASSUME NEW s \in SUBSET T, NEW t \in SUBSET T, s \ {c} = t \ {c}, NEW i \in T
          PROVE  Takes(r, a, s, i) <=> Takes(r, a, t, i)
      <4>1. i = c \/ Before(r, i, c)
        BY <3>1
      <4>2. s \in SUBSET DOMAIN r /\ t \in SUBSET DOMAIN r /\ c \in DOMAIN r /\ i \in DOMAIN r
        BY <1>1
      <4> QED BY <3>3, <4>1, <4>2, TakesByEarlier
    <3> DEFINE s1 == {i \in T : Takes(r, a, s0, i)}
    <3>4. s1 \ {c} = s0 /\ s0 \ {c} = s0
      BY <3>2
    <3>5. Of(T, s1)
      <4>1. \A i \in T : Takes(r, a, s1, i) <=> Takes(r, a, s0, i)
        <5>1. s1 \in SUBSET T /\ s0 \in SUBSET T
          OBVIOUS
        <5> HIDE DEF s1
        <5> QED BY <3>3, <3>4, <5>1
      <4> QED BY <4>1
    <3>6. ASSUME NEW t, Of(T, t) PROVE t = s1
      <4>1. t \in SUBSET T /\ t \ {c} \in SUBSET T
        BY <3>6
      <4>2. \A i \in T : Takes(r, a, t, i) <=> Takes(r, a, t \ {c}, i)
        BY <3>3, <4>1
      <4>3. Of(T \ {c}, t \ {c})
        <5>1. t = {i \in T : Takes(r, a, t \ {c}, i)}
          BY <3>6, <4>2
        <5> QED BY <5>1
      <4>4. t \ {c} = s0
        BY <3>2, <4>3
      <4> QED BY <3>6, <4>2, <4>4
    <3>7. s1 \in SUBSET T
      OBVIOUS
    <3> HIDE DEF s1, Of
    <3> QED BY <3>5, <3>6, <3>7
  <2> QED BY <2>1, <2>2
<1>3. IsFiniteSet(Actionable(r))
  BY <1>1, RunIs, FS_Subset
<1>4. \A T \in SUBSET Actionable(r) : T \in F
  <2> HIDE DEF F
  <2> QED BY <1>2, <1>3, SubsetsFromEmpty
<1>5. Actionable(r) \in F
  BY <1>4
<1>6. \A s : Of(Actionable(r), s) <=> Selection(r, a, s)
  BY DEF Selection
<1> HIDE DEF Of
<1> QED BY <1>1, <1>5, <1>6

===============================================================================
