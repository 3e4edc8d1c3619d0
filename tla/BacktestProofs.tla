--------------------------- MODULE BacktestProofs ---------------------------
(***************************************************************************)
(* The properties of Backtest.tla, for any history, any cached prices, any *)
(* weights of the timeframes and any lengths of the averages.              *)
(*                                                                         *)
(* Most of it is about CreateTradePlan: that what it folds, sums, sorts    *)
(* and divides are numbers at all, that its entry is near the market and   *)
(* its stop and target on either side of it.  The folds of the community   *)
(* modules are recursive functions; induction is stated of sets of         *)
(* numbers, which the provers can instantiate, and proved from the library *)
(* theorem that every set of numbers has a least one.                      *)
(*                                                                         *)
(* The invariant says of the plan of the day that it is sound, and of the  *)
(* open position that it was bought on a sound plan, or on one without a   *)
(* price, after the last trade was closed.                                 *)
(***************************************************************************)
EXTENDS Backtest, FiniteSetTheorems, WellFoundedInduction, TLAPS

\* What PlansAreSound says of a plan, and what its fields are.
Sound(q, market) ==
  \/ q = NoPlan
  \/ /\ 0 < q.entry - q.sl /\ q.entry - q.sl <= q.tp - q.entry
     /\ 100 * Distance(q.entry, market) <= 5 * market
     /\ q.kind # "atr" => 100 * (q.entry - q.sl) >= q.entry

Priced(q) == q.entry \in Nat /\ q.tp \in Nat /\ q.sl \in Int

\* What SafePlansAreLive says of a plan.
SafeIsLive(p) ==
  p.status = "safe" /\ p.plan # NoPlan =>
    p.plan.sl < p.market /\ 4 * (p.market - p.plan.sl) >= p.plan.entry - p.plan.sl

MadePlan(p) == Priced(p.plan) /\ Sound(p.plan, p.market) /\ SafeIsLive(p)

TermsType == [buy : Nat, tp : Nat, sl : Int]
Holding == [day : Nat, terms : TermsType]
Trade == [from : Nat, to : Nat, entry : Nat, exit : Nat, reason : Reasons, profit : Int, held : Nat]

\* The strengthening the theorems rest on, in four parts: where in the history the run
\* is, the plan of the day, what is held, and what was closed before.
Days ==
  /\ day \in 0 .. MaxDays
  /\ today \in [market : Nat, live : LivePrices]

\* At most one plan, and CreateTradePlan made it.
PlanOfTheDay == \E p : plan \in {{}, {p}} /\ (plan = {p} => MadePlan(p))

\* The stop is left out, for it may be raised beyond the target.
Bought(terms) == terms.tp > terms.buy \/ terms = [buy |-> 0, tp |-> 0, sl |-> 0]

\* At most one position, bought on terms a plan could have had, no later than today and
\* after everything that was closed.  That the target is above the entry is what makes
\* a target hit a gain.
OpenPosition ==
  \/ position = <<>>
  \/ \E h \in Holding :
       /\ position = <<h>>
       /\ h.day \in 1 .. day /\ Bought(h.terms)
       /\ trades # <<>> => h.day > trades[Len(trades)].to

\* Trades last at least a day and do not overlap.
Log ==
  /\ trades \in Seq(Trade)
  /\ \A i \in 1 .. Len(trades) :
       /\ trades[i].from < trades[i].to /\ trades[i].to <= day
       /\ trades[i].held = trades[i].to - trades[i].from
       /\ i > 1 => trades[i].from > trades[i - 1].to

IInv == Days /\ PlanOfTheDay /\ OpenPosition /\ Log
------------------------------------------------------------------------------
\* Induction.

Less == {ss \in Nat \X Nat : ss[1] < ss[2]}

\* The order induction goes down along.
LEMMA LessIsWellFounded == IsWellFoundedOn(Less, Nat)
BY NatLessThanWellFounded DEF OpToRel, Less

\* What holds of 0, and of n + 1 whenever it holds of n, holds of every number; stated
\* of the set it holds of.
LEMMA Induction ==
  ASSUME NEW N, 0 \in N, \A n \in Nat : n \in N => n + 1 \in N
  PROVE  Nat \subseteq N
<1> DEFINE T == Nat \ N
<1> SUFFICES ASSUME T # {} PROVE FALSE
  OBVIOUS
<1>1. PICK t \in T : \A u \in T : <<u, t>> \notin Less
  <2> HIDE DEF T
  <2> T \subseteq Nat
    BY DEF T
  <2> QED BY LessIsWellFounded, WFMin
<1>2. t - 1 \in Nat /\ t - 1 < t
  OBVIOUS
<1>3. <<t - 1, t>> \in Less
  BY <1>2 DEF Less
<1>4. t - 1 \in N
  BY <1>1, <1>2, <1>3
<1> QED
  BY <1>2, <1>4

\* How a fold picks the next element, and what it makes of it.
Picks(pick, D) == \A s \in SUBSET D : s # {} => pick[s] \in s
Steps(step, D, V) == \A x \in D, v \in V : step[<<x, v>>] \in V
\* A recursive function on an interval, as SequencesExt defines its folds.
IsRecursion(f, a, b, base, step) ==
  f = [i \in a .. b |-> IF i = a THEN base ELSE step[<<i, f[i - 1]>>]]

\* There is one, and its values are where its steps lead.
LEMMA RecursionExists ==
  ASSUME NEW a \in Int, NEW b \in Int, a <= b, NEW V, NEW base \in V,
         NEW step, Steps(step, a .. b, V)
  PROVE  \E f \in [a .. b -> V] : IsRecursion(f, a, b, base, step)
<1> DEFINE Good(k, f) == f = [i \in a .. a + k |-> IF i = a THEN base ELSE step[<<i, f[i - 1]>>]]
           N == {k \in Nat : a + k <= b => \E f \in [a .. a + k -> V] : Good(k, f)}
<1>1. 0 \in N
  <2> DEFINE f == [i \in a .. a + 0 |-> base]
  <2> f \in [a .. a + 0 -> V] /\ Good(0, f)
    OBVIOUS
  <2> QED OBVIOUS
<1>2. ASSUME NEW k \in Nat, k \in N PROVE k + 1 \in N
  <2>0. SUFFICES ASSUME a + (k + 1) <= b PROVE \E f \in [a .. a + (k + 1) -> V] : Good(k + 1, f)
    OBVIOUS
  <2>1. PICK f \in [a .. a + k -> V] : Good(k, f)
    BY <1>2, <2>0
  <2> DEFINE g == [i \in a .. a + (k + 1) |-> IF i = a THEN base ELSE step[<<i, f[i - 1]>>]]
  <2>2. g \in [a .. a + (k + 1) -> V]
    <3>1. ASSUME NEW i \in a .. a + (k + 1), i # a PROVE step[<<i, f[i - 1]>>] \in V
      <4> i \in a .. b /\ i - 1 \in a .. a + k
        BY <2>0, <3>1
      <4> QED BY DEF Steps
    <3> QED BY <3>1
  <2>3. \A i \in a .. a + k : g[i] = f[i]
    BY <2>1
  <2>4. Good(k + 1, g)
    <3>1. ASSUME NEW i \in a .. a + (k + 1), i # a PROVE f[i - 1] = g[i - 1]
      <4> i - 1 \in a .. a + k
        BY <3>1
      <4> HIDE DEF g
      <4> QED BY <2>3
    <3> QED BY <3>1
  <2> HIDE DEF g, Good
  <2> QED BY <2>2, <2>4
<1>3. b - a \in N /\ b - a \in Nat /\ a + (b - a) = b
  <2> b - a \in Nat
    OBVIOUS
  <2> HIDE DEF N
  <2> QED BY <1>1, <1>2, Induction
<1>4. PICK f \in [a .. a + (b - a) -> V] : Good(b - a, f)
  BY <1>3
<1>5. f \in [a .. b -> V] /\ IsRecursion(f, a, b, base, step)
  BY <1>3, <1>4 DEF IsRecursion
<1> QED BY <1>5

\* Induction along an interval.
LEMMA IntervalInduction ==
  ASSUME NEW a \in Int, NEW b \in Int, NEW G,
         a \in G, \A i \in a .. b : i # a /\ i - 1 \in G => i \in G
  PROVE  a .. b \subseteq G
<1> DEFINE N == {k \in Nat : a + k <= b => a + k \in G}
<1>1. 0 \in N
  OBVIOUS
<1>2. ASSUME NEW k \in Nat, k \in N PROVE k + 1 \in N
  <2> SUFFICES ASSUME a + (k + 1) <= b PROVE a + (k + 1) \in G
    OBVIOUS
  <2> a + k \in G
    BY <1>2
  <2> a + (k + 1) \in a .. b /\ a + (k + 1) # a /\ (a + (k + 1)) - 1 = a + k
    OBVIOUS
  <2> QED OBVIOUS
<1>3. Nat \subseteq N
  <2> HIDE DEF N
  <2> QED BY <1>1, <1>2, Induction
<1>4. \A i \in a .. b : i - a \in Nat /\ a + (i - a) = i /\ i <= b
  OBVIOUS
<1> QED BY <1>3, <1>4

\* A fold over a finite set, one picked element after the other.
IsFold(g, D, base, pick, step) ==
  g = [s \in SUBSET D |-> IF s = {} THEN base ELSE step[<<pick[s], g[s \ {pick[s]}]>>]]

\* There is one, and its values are where its steps lead.
LEMMA FoldExists ==
  ASSUME NEW D, IsFiniteSet(D), NEW V, NEW base \in V,
         NEW pick, NEW step, Picks(pick, D), Steps(step, D, V)
  PROVE  \E g \in [SUBSET D -> V] : IsFold(g, D, base, pick, step)
<1> DEFINE Up(k) == {s \in SUBSET D : Cardinality(s) <= k}
           Good(k, g) == g = [s \in Up(k) |-> IF s = {} THEN base
                                              ELSE step[<<pick[s], g[s \ {pick[s]}]>>]]
           N == {k \in Nat : \E g \in [Up(k) -> V] : Good(k, g)}
<1>0. \A s \in SUBSET D : /\ IsFiniteSet(s) /\ Cardinality(s) \in Nat
                          /\ Cardinality(s) <= Cardinality(D)
  BY FS_Subset, FS_CardinalityType
<1>1. 0 \in N
  <2> DEFINE g == [s \in Up(0) |-> base]
  <2>1. \A s \in Up(0) : s = {}
    BY <1>0, FS_EmptySet
  <2>2. g \in [Up(0) -> V] /\ Good(0, g)
    BY <2>1
  <2> HIDE DEF Good, g, Up
  <2> QED BY <2>2
<1>2. ASSUME NEW k \in Nat, k \in N PROVE k + 1 \in N
  <2>1. PICK g \in [Up(k) -> V] : Good(k, g)
    BY <1>2
  <2> DEFINE h == [s \in Up(k + 1) |-> IF s = {} THEN base
                                       ELSE step[<<pick[s], g[s \ {pick[s]}]>>]]
  <2>2. ASSUME NEW s \in Up(k + 1), s # {}
        PROVE  s \ {pick[s]} \in Up(k) /\ pick[s] \in D
    <3>1. s \in SUBSET D /\ IsFiniteSet(s) /\ pick[s] \in s
      BY <1>0, <2>2 DEF Picks
    <3>2. Cardinality(s \ {pick[s]}) = Cardinality(s) - 1
      <4> HIDE DEF Up, Good, h
      <4> QED BY <3>1, FS_RemoveElement
    <3> QED BY <3>1, <3>2, <1>0, <2>2
  <2>3. h \in [Up(k + 1) -> V]
    <3> SUFFICES ASSUME NEW s \in Up(k + 1), s # {} PROVE step[<<pick[s], g[s \ {pick[s]}]>>] \in V
      OBVIOUS
    <3> HIDE DEF Up, Good
    <3> QED BY <2>2 DEF Steps
  <2>4. \A s \in Up(k) : h[s] = g[s]
    <3> \A s \in Up(k) : s \in Up(k + 1)
      BY <1>0
    <3> HIDE DEF Up
    <3> QED BY <2>1
  <2>5. Good(k + 1, h)
    <3>1. ASSUME NEW s \in Up(k + 1), s # {} PROVE g[s \ {pick[s]}] = h[s \ {pick[s]}]
      <4> HIDE DEF h, Up, Good
      <4> QED BY <2>2, <2>4, <3>1
    <3> HIDE DEF Up
    <3> QED BY <3>1
  <2>6. k + 1 \in Nat
    OBVIOUS
  <2> HIDE DEF h, Good, Up
  <2> QED BY <2>3, <2>5, <2>6
<1>3. Cardinality(D) \in N
  <2> Cardinality(D) \in Nat
    BY FS_CardinalityType
  <2> HIDE DEF N
  <2> QED BY <1>1, <1>2, Induction
<1>4. Up(Cardinality(D)) = SUBSET D
  BY <1>0
<1> HIDE DEF Up
<1> QED BY <1>3, <1>4 DEF IsFold

\* Induction over the subsets of a finite set, by taking one element away.
LEMMA SubsetInduction ==
  ASSUME NEW D, IsFiniteSet(D), NEW G, {} \in G,
         \A s \in SUBSET D : s # {} => \E x \in s : s \ {x} \in G => s \in G
  PROVE  D \in G
<1> DEFINE N == {k \in Nat : \A s \in SUBSET D : Cardinality(s) = k => s \in G}
<1>0. \A s \in SUBSET D : /\ IsFiniteSet(s) /\ Cardinality(s) \in Nat
                          /\ Cardinality(s) = 0 <=> s = {}
  BY FS_Subset, FS_CardinalityType, FS_EmptySet
<1>1. 0 \in N
  BY <1>0
<1>2. ASSUME NEW k \in Nat, k \in N PROVE k + 1 \in N
  <2>1. ASSUME NEW s \in SUBSET D, Cardinality(s) = k + 1 PROVE s \in G
    <3>1. s # {}
      BY <1>0, <2>1
    <3>2. PICK x \in s : s \ {x} \in G => s \in G
      BY <3>1
    <3>3. Cardinality(s \ {x}) = k
      <4> Cardinality(s \ {x}) = Cardinality(s) - 1
        BY <1>0, <3>2, FS_RemoveElement
      <4> QED BY <2>1
    <3> QED BY <1>2, <3>2, <3>3
  <2> QED BY <2>1
<1>3. Nat \subseteq N
  <2> HIDE DEF N
  <2> QED BY <1>1, <1>2, Induction
<1> QED BY <1>0, <1>3

\* Of finitely many integers one is the greatest.
LEMMA GreatestExists ==
  ASSUME NEW T, IsFiniteSet(T), T # {}, NEW f, \A x \in T : f[x] \in Int
  PROVE  \E x \in T : \A y \in T : f[y] <= f[x]
<1> DEFINE N == {k \in Nat : \A s \in SUBSET T : s # {} /\ Cardinality(s) = k
                                  => \E x \in s : \A y \in s : f[y] <= f[x]}
<1>0. \A s \in SUBSET T : /\ IsFiniteSet(s) /\ Cardinality(s) \in Nat
                          /\ Cardinality(s) = 0 <=> s = {}
  BY FS_Subset, FS_CardinalityType, FS_EmptySet
<1>1. 0 \in N
  BY <1>0
<1>2. ASSUME NEW k \in Nat, k \in N PROVE k + 1 \in N
  <2>1. ASSUME NEW s \in SUBSET T, s # {}, Cardinality(s) = k + 1
        PROVE  \E x \in s : \A y \in s : f[y] <= f[x]
    <3>1. PICK z \in s : TRUE
      BY <2>1
    <3>2. Cardinality(s \ {z}) = k
      <4> Cardinality(s \ {z}) = Cardinality(s) - 1
        BY <1>0, <3>1, FS_RemoveElement
      <4> QED BY <2>1
    <3>3. CASE s \ {z} = {}
      <4> \A y \in s : y = z
        BY <3>3
      <4> QED BY <3>1
    <3>4. CASE s \ {z} # {}
      <4>1. PICK x \in s \ {z} : \A y \in s \ {z} : f[y] <= f[x]
        <5> s \ {z} \in SUBSET T
          OBVIOUS
        <5> QED BY <3>2, <3>4, <1>2
      <4>2. f[x] \in Int /\ f[z] \in Int
        OBVIOUS
      <4>3. CASE f[z] <= f[x]
        BY <4>1, <4>3
      <4>4. CASE ~(f[z] <= f[x])
        <5> \A y \in s \ {z} : f[y] \in Int /\ f[y] <= f[z]
          BY <4>1, <4>2, <4>4
        <5> QED BY <4>2
      <4> QED BY <4>3, <4>4
    <3> QED BY <3>3, <3>4
  <2> QED BY <2>1
<1>3. Nat \subseteq N
  <2> HIDE DEF N
  <2> QED BY <1>1, <1>2, Induction
<1> QED BY <1>0, <1>3
------------------------------------------------------------------------------
\* Operators of the community modules.

\* The greatest and the least element of a finite set of integers.
LEMMA MaxIsGreatest ==
  ASSUME NEW S \in SUBSET Int, IsFiniteSet(S), S # {}
  PROVE  Max(S) \in S /\ \A x \in S : x <= Max(S)
<1> DEFINE f == [x \in S |-> x]
<1>1. \E x \in S : \A y \in S : f[y] <= f[x]
  <2> \A x \in S : f[x] \in Int
    OBVIOUS
  <2> HIDE DEF f
  <2> QED BY GreatestExists
<1> QED BY <1>1 DEF Max

LEMMA MinIsLeast ==
  ASSUME NEW S \in SUBSET Int, IsFiniteSet(S), S # {}
  PROVE  Min(S) \in S /\ \A x \in S : Min(S) <= x
<1> DEFINE f == [x \in S |-> -x]
<1>1. \E x \in S : \A y \in S : f[y] <= f[x]
  <2> \A x \in S : f[x] \in Int
    OBVIOUS
  <2> HIDE DEF f
  <2> QED BY GreatestExists
<1>2. PICK x \in S : \A y \in S : f[y] <= f[x]
  BY <1>1
<1>3. \A y \in S : x <= y
  BY <1>2
<1> QED BY <1>3 DEF Min

ClosedUnderPlus(V) == \A x, y \in V : x + y \in V

\* Sums stay where addition does.
LEMMA SumHasType ==
  ASSUME NEW V, 0 \in V, ClosedUnderPlus(V), NEW D, IsFiniteSet(D), NEW fun \in [D -> V]
  PROVE  SumFunction(fun) \in V
<1> DEFINE pick == [s \in SUBSET D |-> CHOOSE x \in s : TRUE]
           step == [p \in D \X V |-> fun[p[1]] + p[2]]
           IsSum(g) == g = [s \in SUBSET D |-> IF s = {} THEN 0
                                               ELSE step[<<pick[s], g[s \ {pick[s]}]>>]]
           it == CHOOSE g : g = [s \in SUBSET D |-> IF s = {} THEN 0
                          ELSE fun[CHOOSE x \in s : TRUE] + g[s \ {CHOOSE x \in s : TRUE}]]
<1>1. SumFunction(fun) = it[D]
  BY DEF SumFunction, SumFunctionOnSet, FoldFunctionOnSet, MapThenFoldSet
<1>2. \A s \in SUBSET D : s # {} => pick[s] \in s
  OBVIOUS
<1>3. \A x \in D, v \in V : step[<<x, v>>] \in V
  BY DEF ClosedUnderPlus
<1>5. PICK g \in [SUBSET D -> V] : IsSum(g)
  <2> HIDE DEF pick, step, it, IsSum
  <2> \E g \in [SUBSET D -> V] : IsFold(g, D, 0, pick, step)
    <3> Picks(pick, D) /\ Steps(step, D, V)
      BY <1>2, <1>3 DEF Picks, Steps
    <3> QED BY FoldExists
  <2> QED BY DEF IsFold, IsSum
<1>6. g = [s \in SUBSET D |-> IF s = {} THEN 0
                     ELSE fun[CHOOSE x \in s : TRUE] + g[s \ {CHOOSE x \in s : TRUE}]]
  <2>1. ASSUME NEW s \in SUBSET D, s # {}
        PROVE  step[<<pick[s], g[s \ {pick[s]}]>>] =
                   fun[CHOOSE x \in s : TRUE] + g[s \ {CHOOSE x \in s : TRUE}]
    <3> pick[s] = (CHOOSE x \in s : TRUE) /\ pick[s] \in D /\ g[s \ {pick[s]}] \in V
      BY <2>1
    <3> HIDE DEF pick
    <3> QED OBVIOUS
  <2> QED BY <1>5, <2>1
<1>7. it = [s \in SUBSET D |-> IF s = {} THEN 0
                     ELSE fun[CHOOSE x \in s : TRUE] + it[s \ {CHOOSE x \in s : TRUE}]]
  BY <1>6
<1>8. it[D] \in V
  <2> DEFINE G == {s \in SUBSET D : it[s] \in V}
  <2> HIDE DEF it
  <2>1. {} \in G
    BY <1>7
  <2>2. \A s \in SUBSET D : s # {} => \E x \in s : s \ {x} \in G => s \in G
    <3> SUFFICES ASSUME NEW s \in SUBSET D, s # {}, s \ {pick[s]} \in G
                 PROVE  s \in G
      BY <1>2
    <3> it[s \ {pick[s]}] \in V /\ pick[s] \in D
      BY <1>2
    <3> it[s] = fun[pick[s]] + it[s \ {pick[s]}]
      BY <1>7
    <3> HIDE DEF pick
    <3> fun[pick[s]] \in V
      OBVIOUS
    <3> QED BY DEF ClosedUnderPlus
  <2> HIDE DEF G
  <2>3. D \in G
    BY <2>1, <2>2, SubsetInduction
  <2> QED BY <2>3 DEF G
<1> QED BY <1>1, <1>8

LEMMA SumIsNat ==
  ASSUME NEW D, IsFiniteSet(D), NEW fun \in [D -> Nat]
  PROVE  SumFunction(fun) \in Nat
<1> ClosedUnderPlus(Nat)
  BY DEF ClosedUnderPlus
<1> QED BY SumHasType
LEMMA SumIsInt ==
  ASSUME NEW D, IsFiniteSet(D), NEW fun \in [D -> Int]
  PROVE  SumFunction(fun) \in Int
<1> ClosedUnderPlus(Int)
  BY DEF ClosedUnderPlus
<1> QED BY SumHasType

\* What is flattened is a sequence of the elements of the sequences.
LEMMA FlattenHasType ==
  ASSUME NEW T, NEW seqs \in Seq(Seq(T))
  PROVE  FlattenSeq(seqs) \in Seq(T)
<1> DEFINE n == Len(seqs)
           it == CHOOSE f : f = [i \in 1 .. n |-> IF i = 1 THEN seqs[i] ELSE f[i - 1] \o seqs[i]]
           step == [p \in (1 .. n) \X Seq(T) |-> p[2] \o seqs[p[1]]]
<1>1. CASE n = 0
  BY <1>1 DEF FlattenSeq
<1>2. CASE n # 0
  <2>0. n \in Nat /\ 1 <= n /\ \A i \in 1 .. n : seqs[i] \in Seq(T)
    BY <1>2
  <2>1. FlattenSeq(seqs) = it[n]
    BY <1>2 DEF FlattenSeq
  <2> HIDE DEF n
  <2>2. Steps(step, 1 .. n, Seq(T))
    BY <2>0 DEF Steps
  <2> DEFINE V == Seq(T)
             first == seqs[1]
  <2>a. first \in V
    BY <2>0
  <2>b. PICK f \in [1 .. n -> V] : IsRecursion(f, 1, n, first, step)
    <3> HIDE DEF step, V, first, it
    <3> QED BY <2>0, <2>2, <2>a, RecursionExists DEF V
  <2>3. f = [i \in 1 .. n |-> IF i = 1 THEN seqs[i] ELSE f[i - 1] \o seqs[i]]
    <3>1. ASSUME NEW i \in 1 .. n, i # 1 PROVE step[<<i, f[i - 1]>>] = f[i - 1] \o seqs[i]
      <4> i - 1 \in 1 .. n
        BY <2>0, <3>1
      <4> QED BY <2>0, <3>1
    <3> HIDE DEF step
    <3> QED BY <2>b, <3>1 DEF IsRecursion
  <2>4. it = [i \in 1 .. n |-> IF i = 1 THEN seqs[i] ELSE it[i - 1] \o seqs[i]]
    BY <2>3
  <2>5. 1 .. n \subseteq {i \in 1 .. n : it[i] \in Seq(T)}
    <3> DEFINE G == {i \in 1 .. n : it[i] \in Seq(T)}
    <3> HIDE DEF it
    <3>1. 1 \in G
      BY <2>0, <2>4
    <3>2. ASSUME NEW i \in 1 .. n, i # 1, i - 1 \in G PROVE i \in G
      <4>1. it[i - 1] \in Seq(T) /\ seqs[i] \in Seq(T)
        BY <2>0, <3>2
      <4>2. it[i - 1] \o seqs[i] \in Seq(T)
        BY <4>1
      <4>3. it[i] = it[i - 1] \o seqs[i]
        BY <2>4, <3>2
      <4> HIDE DEF step, V
      <4> QED BY <4>2, <4>3
    <3>3. 1 \in Int /\ n \in Int
      BY <2>0
    <3> HIDE DEF G
    <3>4. 1 .. n \subseteq G
      BY <3>1, <3>2, <3>3, IntervalInduction
    <3> QED BY <3>4 DEF G
  <2>6. n \in 1 .. n
    BY <2>0
  <2> QED BY <2>1, <2>5, <2>6
<1> QED BY <1>1, <1>2
------------------------------------------------------------------------------
\* What is read off candles and levels.

\* Rounded divisions.
LEMMA DivIsNat ==
  ASSUME NEW a \in Nat, NEW b \in Nat, b > 0
  PROVE  a \div b \in Nat
OBVIOUS

LEMMA DivIsInt ==
  ASSUME NEW a \in Int, NEW b \in Nat, b > 0
  PROVE  a \div b \in Int
OBVIOUS

\* Sequences are functions and the other way round.
LEMMA SeqIsFunction ==
  ASSUME NEW T, NEW s \in Seq(T)
  PROVE  s \in [1 .. Len(s) -> T]
OBVIOUS

LEMMA FunctionIsSeq ==
  ASSUME NEW T, NEW n \in Nat, NEW f \in [1 .. n -> T]
  PROVE  f \in Seq(T)
<1> f = [i \in 1 .. n |-> f[i]]
  OBVIOUS
<1> QED OBVIOUS

\* The clamps of the scores.
LEMMA MinOfTwo ==
  \A a, b \in Int : /\ Min({a, b}) = IF a <= b THEN a ELSE b
                    /\ Max({a, b}) = IF a <= b THEN b ELSE a
<1> SUFFICES ASSUME NEW a \in Int, NEW b \in Int
             PROVE  /\ Min({a, b}) = IF a <= b THEN a ELSE b
                    /\ Max({a, b}) = IF a <= b THEN b ELSE a
  OBVIOUS
<1>1. CASE a <= b
  <2> \A x \in {a, b} : a <= x /\ x <= b
    BY <1>1
  <2> QED BY <1>1 DEF Min, Max
<1>2. CASE ~(a <= b)
  <2> \A x \in {a, b} : b <= x /\ x <= a
    BY <1>2
  <2> QED BY <1>2 DEF Min, Max
<1> QED BY <1>1, <1>2

LEMMA MaxOfThree ==
  ASSUME NEW a \in Int, NEW b \in Int, NEW c \in Int
  PROVE  Max({a, b, c}) \in {a, b, c} /\ Max({a, b, c}) >= b
<1> \E x \in {a, b, c} : \A y \in {a, b, c} : x >= y
  OBVIOUS
<1> QED BY DEF Max

LEMMA DistanceIsNat == \A a, b \in Int : Distance(a, b) \in Nat
BY DEF Distance

\* A candle counted from the last one.
LEMMA BackIsCandle ==
  ASSUME NEW candles \in Seq(StoredCandle), NEW n \in Nat, n < Len(candles)
  PROVE  Back(candles, n) \in StoredCandle
<1> Len(candles) - n \in 1 .. Len(candles)
  OBVIOUS
<1> QED BY DEF Back

\* The range of a candle, gaps included, is not negative.
LEMMA TrueRangeIsNat ==
  ASSUME NEW candles \in Seq(StoredCandle), NEW i \in 1 .. Len(candles) - 1
  PROVE  TrueRange(candles[i + 1], candles[i]) \in Nat
<1>1. candles[i] \in StoredCandle /\ candles[i + 1] \in StoredCandle
  <2> i \in 1 .. Len(candles) /\ i + 1 \in 1 .. Len(candles)
    OBVIOUS
  <2> QED OBVIOUS
<1> SUFFICES ASSUME NEW c \in StoredCandle, NEW d \in StoredCandle PROVE TrueRange(d, c) \in Nat
  BY <1>1
<1>a. c.close \in Int /\ d.high \in Int /\ d.low \in Int
  BY DEF StoredCandle, Price
<1>b. d.high - d.low \in Int
  BY <1>a
<1>2. Distance(d.high, c.close) \in Nat /\ Distance(d.low, c.close) \in Nat
  BY <1>a, DistanceIsNat
<1>3. \A a \in Int, b, e \in Nat : Max({a, b, e}) \in Nat
  BY MaxOfThree
<1> QED BY <1>b, <1>2, <1>3 DEF TrueRange

\* Wilder's smoothing of natural numbers is one.
LEMMA ATRIsNat ==
  ASSUME NEW candles \in Seq(StoredCandle)
  PROVE  calculateATR(candles) \in Nat
<1> DEFINE range == [i \in 1 .. Len(candles) - 1 |-> TrueRange(candles[i + 1], candles[i])]
           base == SumFunction(SubSeq(range, 1, Period)) \div Period
           seq == SubSeq(range, Period + 1, Len(range))
           D == DOMAIN seq
           it == CHOOSE g : g = [s \in SUBSET D |-> IF s = {} THEN base
                              ELSE (g[s \ {Max(s)}] * (Period - 1) + seq[Max(s)]) \div Period]
<1>0. Period \in Nat /\ Period > 0
  BY LevelsAssumption
<1>1. CASE Len(candles) <= Period
  BY <1>1 DEF calculateATR
<1>2. CASE Len(candles) > Period
  <2>1. calculateATR(candles) = it[D]
    <3> Len(candles) \in Nat
      OBVIOUS
    <3> ~(Len(candles) <= Period)
      BY <1>0, <1>2
    <3> QED BY DEF calculateATR, FoldLeft, MapThenFoldSet
  <2>2. range \in Seq(Nat) /\ Len(range) = Len(candles) - 1 /\ Len(range) \in Nat
    <3>1. \A i \in 1 .. Len(candles) - 1 : TrueRange(candles[i + 1], candles[i]) \in Nat
      BY TrueRangeIsNat
    <3>2. Len(candles) - 1 \in Nat
      BY <1>0, <1>2
    <3> QED BY <3>1, <3>2
  <2> HIDE DEF range
  <2>3. base \in Nat
    <3>0. Period <= Len(range)
      BY <1>0, <1>2, <2>2
    <3>a. SubSeq(range, 1, Period) \in Seq(Nat)
      BY <1>0, <2>2, <3>0
    <3>b. Len(SubSeq(range, 1, Period)) = Period
      BY <1>0, <2>2, <3>0
    <3>1. SubSeq(range, 1, Period) \in [1 .. Period -> Nat]
      BY <3>a, <3>b, SeqIsFunction
    <3>2. IsFiniteSet(1 .. Period)
      BY <1>0, FS_Interval
    <3>3. SumFunction(SubSeq(range, 1, Period)) \in Nat
      BY <3>1, <3>2, SumIsNat
    <3> QED BY <1>0, <3>3
  <2> HIDE DEF base
  <2>4. seq \in Seq(Nat) /\ D = 1 .. Len(seq) /\ Len(seq) \in Nat
    BY <1>0, <2>2
  <2>5. IsFiniteSet(D) /\ D \in SUBSET Int /\ \A i \in D : seq[i] \in Nat
    <3> HIDE DEF seq, it
    <3>1. IsFiniteSet(1 .. Len(seq))
      BY <2>4, FS_Interval
    <3>2. \A i \in 1 .. Len(seq) : seq[i] \in Nat
      BY <2>4
    <3> HIDE DEF D
    <3> QED BY <2>4, <3>1, <3>2
  <2> HIDE DEF seq, D
  <2>6. \A s \in SUBSET D : s # {} => Max(s) \in s
    BY <2>5, MaxIsGreatest, FS_Subset
  <2> DEFINE pick == [s \in SUBSET D |-> Max(s)]
             step == [p \in D \X Nat |-> (p[2] * (Period - 1) + seq[p[1]]) \div Period]
  <2>7. \A x \in D, v \in Nat : /\ step[<<x, v>>] \in Nat
                              /\ step[<<x, v>>] = (v * (Period - 1) + seq[x]) \div Period
    <3> SUFFICES ASSUME NEW x \in D, NEW v \in Nat
                 PROVE  (v * (Period - 1) + seq[x]) \div Period \in Nat
      OBVIOUS
    <3>1. v * (Period - 1) \in Nat
      <4> Period - 1 \in Nat
        BY <1>0
      <4> QED OBVIOUS
    <3>2. v * (Period - 1) + seq[x] \in Nat
      <4> seq[x] \in Nat /\ \A a, b \in Nat : a + b \in Nat
        BY <2>5
      <4> QED BY <3>1
    <3> QED BY <1>0, <3>2, DivIsNat
  <2>8. PICK g \in [SUBSET D -> Nat] : IsFold(g, D, base, pick, step)
    <3>1. Picks(pick, D) /\ Steps(step, D, Nat)
      BY <2>6, <2>7 DEF Picks, Steps
    <3> HIDE DEF pick, step
    <3> QED BY <2>3, <2>5, <3>1, FoldExists
  <2>9. g = [s \in SUBSET D |-> IF s = {} THEN base
                              ELSE (g[s \ {Max(s)}] * (Period - 1) + seq[Max(s)]) \div Period]
    <3>1. ASSUME NEW s \in SUBSET D, s # {}
          PROVE  step[<<pick[s], g[s \ {pick[s]}]>>] =
                   (g[s \ {Max(s)}] * (Period - 1) + seq[Max(s)]) \div Period
      <4> pick[s] = Max(s) /\ pick[s] \in D /\ g[s \ {pick[s]}] \in Nat
        BY <2>6, <3>1
      <4> HIDE DEF pick, step
      <4> QED BY <2>7
    <3> HIDE DEF pick, step
    <3> QED BY <2>8, <3>1 DEF IsFold
  <2>10. it = [s \in SUBSET D |-> IF s = {} THEN base
                              ELSE (it[s \ {Max(s)}] * (Period - 1) + seq[Max(s)]) \div Period]
    BY <2>9
  <2>11. it[D] \in Nat
    <3> DEFINE G == {s \in SUBSET D : it[s] \in Nat}
    <3> HIDE DEF it, step
    <3>1. {} \in G
      BY <2>3, <2>10
    <3>2. ASSUME NEW s \in SUBSET D, s # {} PROVE \E x \in s : s \ {x} \in G => s \in G
      <4>1. Max(s) \in s
        BY <2>6, <3>2
      <4> SUFFICES ASSUME s \ {Max(s)} \in G PROVE s \in G
        BY <4>1
      <4>2. it[s \ {Max(s)}] \in Nat /\ Max(s) \in D
        BY <4>1
      <4>3. step[<<Max(s), it[s \ {Max(s)}]>>] \in Nat
        BY <2>7, <4>2
      <4>4. it[s] = step[<<Max(s), it[s \ {Max(s)}]>>]
        BY <2>7, <2>10, <3>2, <4>2
      <4> QED BY <4>3, <4>4
    <3> HIDE DEF G
    <3>3. D \in G
      BY <2>5, <3>1, <3>2, SubsetInduction
    <3> QED BY <3>3 DEF G
  <2> QED BY <2>1, <2>11
<1>3. Len(candles) \in Nat
  OBVIOUS
<1> QED BY <1>0, <1>1, <1>2, <1>3

\* No close is 0, so that its changes are numbers.
LEMMA VolatilityIsInt ==
  ASSUME NEW candles \in Seq(StoredCandle)
  PROVE  Volatility(candles) \in Int
<1> DEFINE Change(i) == (Distance(Back(candles, i - 1).close, Back(candles, i).close) * 100000)
                          \div Back(candles, i).close
           changes == [i \in 1 .. Recent - 1 |-> Change(i)]
<1>1. CASE Len(candles) < Recent
  BY <1>1 DEF Volatility
<1>2. CASE ~(Len(candles) < Recent)
  <2>0. Recent \in Nat /\ Recent - 1 \in Nat /\ 2 * (Recent - 1) \in Nat /\ 2 * (Recent - 1) > 0
    BY LevelsAssumption
  <2>1. ASSUME NEW i \in 1 .. Recent - 1 PROVE Change(i) \in Int
    <3>1. i - 1 \in Nat /\ i \in Nat /\ i - 1 < Len(candles) /\ i < Len(candles)
      BY <1>2, <2>0, <2>1
    <3>2. Back(candles, i - 1) \in StoredCandle /\ Back(candles, i) \in StoredCandle
      BY <3>1, BackIsCandle
    <3>3. ASSUME NEW c \in StoredCandle, NEW d \in StoredCandle
          PROVE (Distance(c.close, d.close) * 100000) \div d.close \in Int
      <4>1. c.close \in Int /\ d.close \in Int /\ d.close \in Nat /\ d.close > 0
        BY DEF StoredCandle, Price
      <4>2. Distance(c.close, d.close) \in Nat
        BY <4>1, DistanceIsNat
      <4>3. Distance(c.close, d.close) * 100000 \in Nat
        BY <4>2
      <4> QED BY <4>1, <4>3, DivIsInt
    <3> QED BY <3>2, <3>3
  <2>2. changes \in [1 .. Recent - 1 -> Int]
    BY <2>1
  <2>3. SumFunction(changes) \in Int
    <3> IsFiniteSet(1 .. Recent - 1)
      BY <2>0, FS_Interval
    <3> HIDE DEF changes
    <3> QED BY <2>2, SumIsInt
  <2>4. SumFunction(changes) \div (2 * (Recent - 1)) \in Int
    <3> HIDE DEF changes
    <3> QED BY <2>0, <2>3, DivIsInt
  <2>5. Min({1000, SumFunction(changes) \div (2 * (Recent - 1))}) \in Int
    <3> DEFINE x == SumFunction(changes) \div (2 * (Recent - 1))
    <3> HIDE DEF x
    <3>1. x \in Int /\ 1000 \in Int
      BY <2>4 DEF x
    <3>2. Min({1000, x}) = IF 1000 <= x THEN 1000 ELSE x
      BY <3>1, MinOfTwo
    <3> QED BY <3>1, <3>2 DEF x
  <2> QED BY <1>2, <2>5 DEF Volatility
<1> QED BY <1>1, <1>2

\* What a level and a price bucket are.
Level == [price : Int, touches : Nat]
Bucket == [price : Int, count : Nat]

LEMMA FilteredIsFinite ==
  ASSUME NEW n \in Nat, NEW T \in SUBSET (1 .. n)
  PROVE  IsFiniteSet(T) /\ Cardinality(T) \in Nat
<1>1. IsFiniteSet(1 .. n)
  BY FS_Interval
<1>2. IsFiniteSet(T)
  BY <1>1, FS_Subset
<1> QED BY <1>2, FS_CardinalityType

\* Candles are counted.
LEMMA TouchesIsNat ==
  ASSUME NEW candles \in Seq(StoredCandle), NEW price, NEW isSupport
  PROVE  countTouches(candles, price, isSupport) \in Nat
<1> DEFINE T == {i \in DOMAIN candles :
    IF isSupport
    THEN 1000 * candles[i].low <= 1005 * price /\ 1000 * candles[i].high >= 995 * price
    ELSE 1000 * candles[i].high >= 1005 * price /\ 1000 * candles[i].low <= 995 * price}
<1>1. T \in SUBSET (1 .. Len(candles)) /\ Len(candles) \in Nat
  OBVIOUS
<1> HIDE DEF T
<1>2. Cardinality(T) \in Nat
  BY <1>1, FilteredIsFinite
<1> QED BY <1>2 DEF T, countTouches

\* The pivots of a timeframe, with how often they were touched.
LEMMA PivotsAreLevels ==
  ASSUME NEW a \in StockAnalysis, NEW isSupport \in BOOLEAN
  PROVE  buildPivots(a.ta, a.candles, isSupport) \in Seq(Level)
<1> DEFINE prices == IF isSupport THEN a.ta.classicS \o a.ta.fibonacciS
                     ELSE a.ta.classicR \o a.ta.fibonacciR
<1>1. /\ a.ta.classicS \in Seq(Int) /\ a.ta.fibonacciS \in Seq(Int)
      /\ a.ta.classicR \in Seq(Int) /\ a.ta.fibonacciR \in Seq(Int)
  <2>1. a.ta \in TechnicalAnalysis
    BY DEF StockAnalysis
  <2>2. ASSUME NEW f \in [1 .. 3 -> Int] PROVE f \in Seq(Int)
    <3> 3 \in Nat
      OBVIOUS
    <3> QED BY FunctionIsSeq, Zenon
  <2>3. ASSUME NEW ta \in TechnicalAnalysis
        PROVE  /\ ta.classicS \in [1 .. 3 -> Int] /\ ta.fibonacciS \in [1 .. 3 -> Int]
               /\ ta.classicR \in [1 .. 3 -> Int] /\ ta.fibonacciR \in [1 .. 3 -> Int]
    BY DEF TechnicalAnalysis
  <2> QED BY <2>1, <2>2, <2>3
<1>2. prices \in Seq(Int)
  BY <1>1
<1>3. a.candles \in Seq(StoredCandle)
  BY DEF StockAnalysis
<1> HIDE DEF prices
<1>4. \A i \in DOMAIN prices : /\ prices[i] \in Int
                               /\ countTouches(a.candles, prices[i], isSupport) \in Nat
  BY <1>2, <1>3, TouchesIsNat
<1>5. [i \in DOMAIN prices |-> [price |-> prices[i],
                                touches |-> countTouches(a.candles, prices[i], isSupport)]] \in Seq(Level)
  <2> \A i \in DOMAIN prices : [price |-> prices[i],
                                touches |-> countTouches(a.candles, prices[i], isSupport)] \in Level
    BY <1>4 DEF Level
  <2> QED BY <1>2
<1> QED BY <1>5 DEF prices, buildPivots

LEMMA WeightsAreSane ==
  \A t \in DOMAIN Weight : Weight[t] \in Int
BY WeightAssumption

\* What is found of a timeframe is one of the analyses.
LEMMA FoundIsAnalysis ==
  ASSUME NEW s \in Seq(StockAnalysis), NEW timeframe, OfTimeframe(s, timeframe) # <<>>
  PROVE  /\ OfTimeframe(s, timeframe)[1] \in StockAnalysis
         /\ DOMAIN OfTimeframe(s, timeframe) = {1}
<1> DEFINE found == {i \in DOMAIN s : s[i].timeframe = timeframe}
<1>1. found # {} /\ OfTimeframe(s, timeframe) = <<s[Max(found)]>>
  BY DEF OfTimeframe
<1>2. found \in SUBSET (1 .. Len(s)) /\ Len(s) \in Nat
  OBVIOUS
<1> HIDE DEF found
<1>3. Max(found) \in found
  <2>1. IsFiniteSet(found)
    BY <1>2, FilteredIsFinite
  <2>2. found \in SUBSET Int
    BY <1>2
  <2> QED BY <1>1, <2>1, <2>2, MaxIsGreatest
<1>4. s[Max(found)] \in StockAnalysis
  <2> Max(found) \in 1 .. Len(s)
    BY <1>2, <1>3
  <2> QED OBVIOUS
<1> QED BY <1>1, <1>4

\* The levels of all timeframes.
LEMMA LevelsAreLevels ==
  ASSUME NEW s \in Seq(StockAnalysis)
  PROVE  Supports(s) \in Seq(Level) /\ Resistances(s) \in Seq(Level)
<1> DEFINE pivots(isSupport) == [i \in DOMAIN s |-> buildPivots(s[i].ta, s[i].candles, isSupport)]
<1>1. ASSUME NEW isSupport \in BOOLEAN PROVE FlattenSeq(pivots(isSupport)) \in Seq(Level)
  <2>1. \A i \in 1 .. Len(s) : buildPivots(s[i].ta, s[i].candles, isSupport) \in Seq(Level)
    BY PivotsAreLevels
  <2>2. Len(s) \in Nat /\ DOMAIN s = 1 .. Len(s)
    OBVIOUS
  <2>3. pivots(isSupport) \in [1 .. Len(s) -> Seq(Level)]
    BY <2>1, <2>2
  <2> HIDE DEF pivots
  <2>4. pivots(isSupport) \in Seq(Seq(Level))
    BY <2>2, <2>3, FunctionIsSeq
  <2> QED BY <2>4, FlattenHasType
<1> QED BY <1>1 DEF Supports, Resistances

LEMMA AveragesAreInt ==
  ASSUME NEW ta \in TechnicalAnalysis
  PROVE  ta.ema10 \in Int /\ ta.ema20 \in Int /\ ta.ema50 \in Int
BY DEF TechnicalAnalysis

\* The averages of the main timeframes.
Average == [ema10 : Int, ema20 : Int, ema50 : Int]

LEMMA EmaDataIsAverages ==
  ASSUME NEW s \in Seq(StockAnalysis)
  PROVE  EmaData(s) \in Seq(Average)
<1> DEFINE Averages(a) == IF a.timeframe \notin IsMain THEN <<>>
                          ELSE <<[ema10 |-> a.ta.ema10, ema20 |-> a.ta.ema20, ema50 |-> a.ta.ema50]>>
           of == [i \in DOMAIN s |-> Averages(s[i])]
<1>1. ASSUME NEW a \in StockAnalysis PROVE Averages(a) \in Seq(Average)
  <2> a.ta \in TechnicalAnalysis
    BY DEF StockAnalysis
  <2> a.ta.ema10 \in Int /\ a.ta.ema20 \in Int /\ a.ta.ema50 \in Int
    BY AveragesAreInt
  <2> [ema10 |-> a.ta.ema10, ema20 |-> a.ta.ema20, ema50 |-> a.ta.ema50] \in Average
    BY DEF Average
  <2> QED OBVIOUS
<1>2. Len(s) \in Nat /\ DOMAIN s = 1 .. Len(s) /\ \A i \in 1 .. Len(s) : s[i] \in StockAnalysis
  OBVIOUS
<1>3. EmaData(s) = FlattenSeq(of)
  BY DEF EmaData
<1>4. of \in [1 .. Len(s) -> Seq(Average)]
  BY <1>1, <1>2
<1> HIDE DEF of
<1>5. of \in Seq(Seq(Average))
  BY <1>2, <1>4, FunctionIsSeq
<1> QED BY <1>3, <1>5, FlattenHasType

\* Buckets are at least 10 wide, so that a close has one.
LEMMA BucketsAreBuckets ==
  ASSUME NEW candles \in Seq(StoredCandle)
  PROVE  IsFiniteSet(ClosePriceBuckets(candles)) /\ ClosePriceBuckets(candles) \subseteq Bucket
<1> DEFINE ranges == [i \in DOMAIN candles |-> candles[i].high - candles[i].low]
           size == Max({SumFunction(ranges) \div (3 * Len(candles)), 10})
           Of(i) == ((2 * candles[i].close + size) \div (2 * size)) * size
           B == {Of(i) : i \in DOMAIN candles}
           C == {[price |-> b, count |-> Cardinality({i \in DOMAIN candles : Of(i) = b})] : b \in B}
           f == [i \in DOMAIN candles |-> Of(i)]
           g == [b \in B |-> [price |-> b, count |-> Cardinality({i \in DOMAIN candles : Of(i) = b})]]
<1>1. ClosePriceBuckets(candles) = C
  BY DEF ClosePriceBuckets
<1>2. Len(candles) \in Nat /\ DOMAIN candles = 1 .. Len(candles) /\ IsFiniteSet(DOMAIN candles)
  BY FS_Interval
<1>3. IsFiniteSet(B)
  <2> f \in Surjection(DOMAIN candles, B)
    <3> HIDE DEF Of
    <3> QED BY DEF Surjection
  <2> HIDE DEF f, B
  <2> QED BY <1>2, FS_Surjection
<1>4. IsFiniteSet(C)
  <2> g \in Surjection(B, C)
    <3> HIDE DEF B, Of
    <3> QED BY DEF Surjection
  <2> HIDE DEF g, B, C
  <2> QED BY <1>3, FS_Surjection
<1>5. ASSUME NEW i \in DOMAIN candles PROVE Of(i) \in Int
  <2>1. candles[i] \in StoredCandle /\ Len(candles) > 0
    BY <1>2
  <2>2. candles[i].close \in Nat
    <3> \A c \in StoredCandle : c.close \in Nat
      BY DEF StoredCandle, Price
    <3> QED BY <2>1
  <2>3. ranges \in [DOMAIN candles -> Int]
    <3> \A c \in StoredCandle : c.high - c.low \in Int
      BY DEF StoredCandle, Price
    <3> \A j \in DOMAIN candles : candles[j] \in StoredCandle
      OBVIOUS
    <3> QED OBVIOUS
  <2> HIDE DEF ranges
  <2>4. SumFunction(ranges) \in Int
    BY <1>2, <2>3, SumIsInt
  <2>5. SumFunction(ranges) \div (3 * Len(candles)) \in Int
    BY <1>2, <2>1, <2>4, DivIsInt
  <2>6. size \in Nat /\ size >= 10
    <3> DEFINE x == SumFunction(ranges) \div (3 * Len(candles))
    <3> HIDE DEF x
    <3>1. x \in Int /\ 10 \in Int
      BY <2>5 DEF x
    <3>2. Max({x, 10}) = IF x <= 10 THEN 10 ELSE x
      BY <3>1, MinOfTwo
    <3>3. size = Max({x, 10})
      BY DEF x
    <3> HIDE DEF size
    <3> QED BY <3>1, <3>2, <3>3
  <2> HIDE DEF size
  <2>7. (2 * candles[i].close + size) \div (2 * size) \in Nat
    <3>1. 2 * candles[i].close + size \in Nat /\ 2 * size \in Nat /\ 2 * size > 0
      BY <2>2, <2>6
    <3> QED BY <3>1, DivIsNat
  <2> QED BY <2>6, <2>7
<1>6. ASSUME NEW b \in B
      PROVE  [price |-> b, count |-> Cardinality({i \in DOMAIN candles : Of(i) = b})] \in Bucket
  <2>1. b \in Int
    <3> HIDE DEF Of
    <3> QED BY <1>5
  <2> DEFINE T == {i \in DOMAIN candles : Of(i) = b}
  <2>2. T \in SUBSET (1 .. Len(candles))
    <3> HIDE DEF Of
    <3> QED BY <1>2
  <2> HIDE DEF T
  <2>3. Cardinality(T) \in Nat
    BY <1>2, <2>2, FilteredIsFinite
  <2> QED BY <2>1, <2>3 DEF T, Bucket
<1> HIDE DEF Of, B
<1> QED BY <1>1, <1>4, <1>6

\* A finite set listed in some order.
LEMMA ListIsSeq ==
  ASSUME NEW T, NEW S \in SUBSET T, IsFiniteSet(S)
  PROVE  SetToSeq(S) \in Seq(T)
<1>1. Cardinality(S) \in Nat /\ ExistsBijection(1 .. Cardinality(S), S)
  BY FS_CardinalityType
<1>2. PICK f \in [1 .. Cardinality(S) -> S] : IsInjective(f)
  BY <1>1 DEF ExistsBijection, Bijection, Injection, IsInjective
<1>3. SetToSeq(S) \in [1 .. Cardinality(S) -> S]
  BY <1>2 DEF SetToSeq
<1>4. SetToSeq(S) \in [1 .. Cardinality(S) -> T]
  BY <1>3
<1> QED BY <1>1, <1>4, FunctionIsSeq

\* The buckets of all timeframes.
LEMMA BucketsHaveType ==
  ASSUME NEW s \in Seq(StockAnalysis)
  PROVE  Buckets(s) \in Seq(Bucket)
<1> DEFINE of == [i \in DOMAIN s |-> SetToSeq(ClosePriceBuckets(s[i].candles))]
<1>1. ASSUME NEW a \in StockAnalysis PROVE SetToSeq(ClosePriceBuckets(a.candles)) \in Seq(Bucket)
  <2> a.candles \in Seq(StoredCandle)
    BY DEF StockAnalysis
  <2> QED BY BucketsAreBuckets, ListIsSeq
<1>2. Len(s) \in Nat /\ DOMAIN s = 1 .. Len(s) /\ \A i \in 1 .. Len(s) : s[i] \in StockAnalysis
  OBVIOUS
<1>4. of \in [1 .. Len(s) -> Seq(Bucket)]
  BY <1>1, <1>2
<1> HIDE DEF of
<1>5. of \in Seq(Seq(Bucket))
  BY <1>2, <1>4, FunctionIsSeq
<1> QED BY <1>5, FlattenHasType DEF of, Buckets
------------------------------------------------------------------------------
\* The entry.

\* An entry within 5% of the market.
Near5(e, market) == e \in Nat /\ 100 * Distance(e, market) <= 5 * market

\* Whatever entry it is given, FinalEntryAdjustments returns one near the market.
LEMMA FinalEntryIsNear ==
  ASSUME NEW entry \in Int, NEW current \in Nat, NEW volatility \in Int, NEW volume \in Int
  PROVE  Near5(FinalEntryAdjustments(entry, current, volatility, volume), current)
<1> DEFINE percent == IF volatility > 700 THEN 3 ELSE 5
           kept == IF 100 * Distance(entry, current) <= percent * current THEN entry
                   ELSE IF entry < current THEN current - (percent * current) \div 100
                   ELSE current + (percent * current) \div 100
           careful == IF volume < 4 /\ kept < current THEN (kept + current) \div 2 ELSE kept
           final == IF careful <= 0 THEN current ELSE careful
<1>1. percent \in Nat /\ percent <= 5 /\ percent * current <= 5 * current
      /\ percent * current \in Nat
  OBVIOUS
<1>2. kept \in Int /\ 100 * Distance(kept, current) <= 5 * current
  <2> DEFINE q == percent * current
  <2>1. q \in Nat /\ q <= 5 * current /\ 100 * (q \div 100) <= q /\ q \div 100 \in Nat
    BY <1>1
  <2> HIDE DEF q, percent
  <2>2. kept = IF 100 * Distance(entry, current) <= q THEN entry
               ELSE IF entry < current THEN current - q \div 100 ELSE current + q \div 100
    BY DEF q
  <2> HIDE DEF kept
  <2> QED BY <2>1, <2>2 DEF Distance
<1> HIDE DEF kept, percent
<1>3. careful \in Int /\ 100 * Distance(careful, current) <= 5 * current
  BY <1>2 DEF Distance
<1> HIDE DEF careful
<1>4. final \in Nat /\ 100 * Distance(final, current) <= 5 * current
  BY <1>3 DEF Distance
<1>5. FinalEntryAdjustments(entry, current, volatility, volume) = final
  BY DEF FinalEntryAdjustments, kept, percent, careful
<1> HIDE DEF final
<1> QED BY <1>4, <1>5 DEF Near5

\* An option of a bullish entry.
Offer == [price : Int, score : Int]

\* The first of the greatest.
LEMMA LeastGreatest ==
  ASSUME NEW n \in Nat, n > 0, NEW score, \A i \in 1 .. n : score[i] \in Int
  PROVE  \E i \in 1 .. n : /\ \A j \in 1 .. n : score[j] <= score[i]
                           /\ \A j \in 1 .. i - 1 : score[j] < score[i]
<1> DEFINE G == {i \in 1 .. n : \A j \in 1 .. n : score[j] <= score[i]}
<1>1. IsFiniteSet(1 .. n)
  BY FS_Interval
<1>2. 1 .. n # {}
  <2> 1 \in 1 .. n
    OBVIOUS
  <2> QED OBVIOUS
<1>3. G # {}
  <2> \E i \in 1 .. n : \A j \in 1 .. n : score[j] <= score[i]
    BY <1>1, <1>2, GreatestExists
  <2> QED OBVIOUS
<1>4. G \in SUBSET (1 .. n) /\ G \in SUBSET Int
  OBVIOUS
<1>5. Min(G) \in G /\ \A x \in G : Min(G) <= x
  <2> HIDE DEF G
  <2> IsFiniteSet(G)
    BY <1>4, FilteredIsFinite
  <2> QED BY <1>3, <1>4, MinIsLeast
<1>6. PICK m \in G : \A x \in G : m <= x
  BY <1>5
<1>7. ASSUME NEW j \in 1 .. m - 1 PROVE score[j] < score[m]
  <2>1. j \in 1 .. n /\ ~(m <= j)
    <3> j \in Int /\ m \in Int /\ m <= n
      OBVIOUS
    <3> QED OBVIOUS
  <2>2. j \notin G
    <3> HIDE DEF G
    <3> QED BY <1>6, <2>1
  <2>3. PICK k \in 1 .. n : ~(score[k] <= score[j])
    BY <2>1, <2>2
  <2>4. score[k] \in Int /\ score[j] \in Int /\ score[m] \in Int /\ score[k] <= score[m]
    BY <2>1
  <2> QED BY <2>3, <2>4
<1> QED BY <1>6, <1>7

\* There is a best option, for there is one at all.
LEMMA BestIsOffer ==
  ASSUME NEW options \in Seq(Offer), options # <<>>, NEW volume, NEW bonus
  PROVE  BestEntry(options, volume, bonus).price \in Int
<1> DEFINE score == [i \in 1 .. Len(options) |-> options[i].score]
           IsBest(i) == /\ \A j \in DOMAIN options : options[j].score <= options[i].score
                        /\ \A j \in 1 .. i - 1 : options[j].score < options[i].score
           best == CHOOSE i \in DOMAIN options : IsBest(i)
<1>0. Len(options) \in Nat /\ Len(options) > 0 /\ DOMAIN options = 1 .. Len(options)
      /\ 1 \in 1 .. Len(options)
  OBVIOUS
<1>1. \A i \in 1 .. Len(options) : options[i].score \in Int /\ options[i].price \in Int
  <2> \A o \in Offer : o.score \in Int /\ o.price \in Int
    BY DEF Offer
  <2> QED OBVIOUS
<1>2. PICK i \in 1 .. Len(options) : /\ \A j \in 1 .. Len(options) : score[j] <= score[i]
                                     /\ \A j \in 1 .. i - 1 : score[j] < score[i]
  <2> \A j \in 1 .. Len(options) : score[j] \in Int
    BY <1>1
  <2> HIDE DEF score
  <2> QED BY <1>0, LeastGreatest
<1>3. IsBest(i)
  <2> \A j \in 1 .. i - 1 : j \in 1 .. Len(options)
    BY <1>0
  <2> QED BY <1>0, <1>2
<1>4. best \in 1 .. Len(options)
  <2> HIDE DEF IsBest
  <2> QED BY <1>0, <1>3
<1>5. BestEntry(options, volume, bonus)
        = IF (options[best].score * volume) \div 10 + bonus > 0 THEN options[best] ELSE options[1]
  BY DEF BestEntry
<1> HIDE DEF best
<1> QED BY <1>0, <1>1, <1>4, <1>5

LEMMA TypesOfProducts ==
  /\ \A a, b \in Int : a * b \in Int /\ a + b \in Int /\ a - b \in Int
  /\ \A a \in Int, b \in Nat : b > 0 => a \div b \in Int
OBVIOUS

\* The market itself is always an option; no score is divided by a market of 0.
LEMMA OptionsAreOffers ==
  ASSUME NEW current \in Nat, NEW supports \in Seq(Level), NEW emas \in Seq(Average),
         NEW atr \in Nat
  PROVE  /\ BullishEntryOptions(current, supports, emas, atr) \in Seq(Offer)
         /\ BullishEntryOptions(current, supports, emas, atr) # <<>>
<1> DEFINE Near(price, percent) == price < current /\ 100 * price > (100 - percent) * current
           Option(price, score) == <<[price |-> price, score |-> score]>>
           OfSupport(s) == IF Near(s.price, 5)
                           THEN Option(s.price, 2000 * s.touches + (5000 * s.price) \div current)
                           ELSE <<>>
           OfAverage(price) == IF price > 0 /\ Near(price, 3)
                               THEN Option(price, 6000 + (4000 * price) \div current) ELSE <<>>
           pullback == current - atr \div 2
           first == Option(current, 5000)
           second == [i \in DOMAIN supports |-> OfSupport(supports[i])]
           third == [i \in DOMAIN emas |-> OfAverage(emas[i].ema20) \o OfAverage(emas[i].ema50)]
           last == IF 100 * pullback > 97 * current THEN Option(pullback, 4000) ELSE <<>>
<1>0. \A p, s \in Int : Option(p, s) \in Seq(Offer) /\ Len(Option(p, s)) = 1
  BY DEF Offer
<1>1. BullishEntryOptions(current, supports, emas, atr)
        = first \o FlattenSeq(second) \o FlattenSeq(third) \o last
  BY DEF BullishEntryOptions
<1>2. <<>> \in Seq(Offer)
  OBVIOUS
<1>3. first \in Seq(Offer) /\ Len(first) = 1
  <2> HIDE DEF Option
  <2> QED BY <1>0
<1>4. last \in Seq(Offer)
  <2> pullback \in Int /\ 4000 \in Int
    OBVIOUS
  <2> HIDE DEF Option, pullback
  <2> QED BY <1>0, <1>2
<1>5. ASSUME NEW s \in Level PROVE OfSupport(s) \in Seq(Offer)
  <2>1. s.price \in Int /\ s.touches \in Nat
    BY DEF Level
  <2>2. CASE Near(s.price, 5)
    <3>1. current > 0
      BY <2>1, <2>2
    <3>2. 2000 * s.touches + (5000 * s.price) \div current \in Int
      BY <2>1, <3>1
    <3> DEFINE score == 2000 * s.touches + (5000 * s.price) \div current
    <3> HIDE DEF score
    <3>3. Option(s.price, score) \in Seq(Offer)
      <4> HIDE DEF Option
      <4> QED BY <1>0, <2>1, <3>2 DEF score
    <3> HIDE DEF Option, Near
    <3> QED BY <2>2, <3>3 DEF score
  <2>3. CASE ~Near(s.price, 5)
    <3> HIDE DEF Option, Near
    <3> QED BY <1>2, <2>3
  <2> QED BY <2>2, <2>3
<1>6. ASSUME NEW p \in Int PROVE OfAverage(p) \in Seq(Offer)
  <2>2. CASE p > 0 /\ Near(p, 3)
    <3>1. current > 0
      BY <2>2
    <3>2. 6000 + (4000 * p) \div current \in Int
      BY <3>1
    <3> DEFINE score == 6000 + (4000 * p) \div current
    <3> HIDE DEF score
    <3>3. Option(p, score) \in Seq(Offer)
      <4> HIDE DEF Option
      <4> QED BY <1>0, <3>2 DEF score
    <3> HIDE DEF Option, Near
    <3> QED BY <2>2, <3>3 DEF score
  <2>3. CASE ~(p > 0 /\ Near(p, 3))
    <3> HIDE DEF Option, Near
    <3> QED BY <1>2, <2>3
  <2> QED BY <2>2, <2>3
<1>7. FlattenSeq(second) \in Seq(Offer)
  <2>1. Len(supports) \in Nat /\ DOMAIN supports = 1 .. Len(supports)
        /\ \A i \in 1 .. Len(supports) : supports[i] \in Level
    OBVIOUS
  <2>2. second \in [1 .. Len(supports) -> Seq(Offer)]
    <3> HIDE DEF OfSupport
    <3> QED BY <1>5, <2>1
  <2> HIDE DEF second
  <2>3. second \in Seq(Seq(Offer))
    BY <2>1, <2>2, FunctionIsSeq
  <2> QED BY <2>3, FlattenHasType
<1>8. FlattenSeq(third) \in Seq(Offer)
  <2>1. Len(emas) \in Nat /\ DOMAIN emas = 1 .. Len(emas)
        /\ \A i \in 1 .. Len(emas) : emas[i].ema20 \in Int /\ emas[i].ema50 \in Int
    <3> \A e \in Average : e.ema20 \in Int /\ e.ema50 \in Int
      BY DEF Average
    <3> QED OBVIOUS
  <2>2. third \in [1 .. Len(emas) -> Seq(Offer)]
    <3> HIDE DEF OfAverage
    <3>1. \A a, b \in Seq(Offer) : a \o b \in Seq(Offer)
      OBVIOUS
    <3>2. ASSUME NEW i \in 1 .. Len(emas)
          PROVE  OfAverage(emas[i].ema20) \o OfAverage(emas[i].ema50) \in Seq(Offer)
      <4> OfAverage(emas[i].ema20) \in Seq(Offer) /\ OfAverage(emas[i].ema50) \in Seq(Offer)
        BY <1>6, <2>1
      <4> QED BY <3>1
    <3> QED BY <2>1, <3>2
  <2> HIDE DEF third
  <2>3. third \in Seq(Seq(Offer))
    BY <2>1, <2>2, FunctionIsSeq
  <2> QED BY <2>3, FlattenHasType
<1>9. ASSUME NEW a \in Seq(Offer), NEW b \in Seq(Offer), NEW c \in Seq(Offer),
             NEW d \in Seq(Offer), Len(a) = 1
      PROVE  a \o b \o c \o d \in Seq(Offer) /\ a \o b \o c \o d # <<>>
  <2> a \o b \o c \o d \in Seq(Offer) /\ Len(a \o b \o c \o d) = Len(a) + Len(b) + Len(c) + Len(d)
    OBVIOUS
  <2> QED BY <1>9
<1> HIDE DEF first, second, third, last
<1> QED BY <1>1, <1>3, <1>4, <1>7, <1>8, <1>9

\* The entries that FinalEntryAdjustments is given are numbers.
LEMMA BullishIsInt ==
  ASSUME NEW current \in Nat, NEW supports \in Seq(Level), NEW emas \in Seq(Average),
         NEW atr \in Nat,
         NEW ta, NEW candles \in Seq(StoredCandle)
  PROVE  BullishEntry(current, supports, emas, ta, candles, atr) \in Int
<1> DEFINE best == BestEntry(BullishEntryOptions(current, supports, emas, atr),
                             VolumeConfirmation(candles), Bonus(ta, candles))
           part == VolatilityAdjustment(atr, Volatility(candles))
           adjusted == best.price - (best.price * part) \div 100000
<1>1. best.price \in Int
  BY OptionsAreOffers, BestIsOffer
<1>2. part \in Int
  <2> DEFINE x == (atr * Volatility(candles)) \div 10000
  <2>1. x \in Int /\ 2000 \in Int
    <3> Volatility(candles) \in Int
      BY VolatilityIsInt
    <3> atr * Volatility(candles) \in Int
      OBVIOUS
    <3> QED BY DivIsInt
  <2> HIDE DEF x
  <2>2. Min({2000, x}) \in Int
    <3> Min({2000, x}) = IF 2000 <= x THEN 2000 ELSE x
      BY <2>1, MinOfTwo
    <3> QED BY <2>1
  <2> QED BY <2>2 DEF VolatilityAdjustment, x
<1>3. BullishEntry(current, supports, emas, ta, candles, atr)
        = IF 100 * (current - adjusted) <= 4 * current THEN adjusted ELSE (98 * current) \div 100
  BY DEF BullishEntry
<1> HIDE DEF best, part
<1>4. best.price * part \in Int
  BY <1>1, <1>2
<1>5. adjusted \in Int
  BY <1>1, <1>4
<1> HIDE DEF adjusted
<1> QED BY <1>3, <1>5

\* The prices of levels.
LEMMA LevelPrices ==
  ASSUME NEW levels \in Seq(Level)
  PROVE  /\ Len(levels) \in Nat /\ DOMAIN levels = 1 .. Len(levels)
         /\ \A i \in 1 .. Len(levels) : levels[i].price \in Int /\ levels[i].touches \in Nat
<1> \A l \in Level : l.price \in Int /\ l.touches \in Nat
  BY DEF Level
<1> QED OBVIOUS

LEMMA BearishIsInt ==
  ASSUME NEW current \in Nat, NEW resistances \in Seq(Level), NEW atr \in Nat, NEW trend \in Int
  PROVE  BearishEntry(current, resistances, atr, trend) \in Int
<1> DEFINE near == {i \in DOMAIN resistances :
                      resistances[i].price > current /\ 100 * resistances[i].price < 103 * current}
           below == current - (3 * atr) \div 10
           drop == Min({15, 2 * Absolute(trend)})
<1>1. BearishEntry(current, resistances, atr, trend)
        = IF near # {} THEN (998 * resistances[Min(near)].price) \div 1000
          ELSE IF below > 0 THEN below ELSE (current * (1000 - drop)) \div 1000
  BY DEF BearishEntry
<1>2. below \in Int
  OBVIOUS
<1>3. drop \in Int
  <2> DEFINE x == 2 * Absolute(trend)
  <2>1. x \in Int /\ 15 \in Int
    BY DistanceIsNat DEF Absolute
  <2> HIDE DEF x
  <2>2. Min({15, x}) = IF 15 <= x THEN 15 ELSE x
    BY <2>1, MinOfTwo
  <2> QED BY <2>1, <2>2 DEF x
<1>4. (current * (1000 - drop)) \div 1000 \in Int
  <2> HIDE DEF drop
  <2> 1000 - drop \in Int /\ current \in Int
    BY <1>3
  <2> current * (1000 - drop) \in Int
    BY TypesOfProducts
  <2> QED BY TypesOfProducts
<1>5. ASSUME near # {} PROVE (998 * resistances[Min(near)].price) \div 1000 \in Int
  <2>1. near \in SUBSET (1 .. Len(resistances)) /\ near \in SUBSET Int
    BY LevelPrices
  <2> HIDE DEF near
  <2>2. IsFiniteSet(near)
    BY <2>1, LevelPrices, FilteredIsFinite
  <2>3. Min(near) \in near
    BY <1>5, <2>1, <2>2, MinIsLeast
  <2>4. resistances[Min(near)].price \in Int
    BY <2>1, <2>3, LevelPrices
  <2> QED BY <2>4
<1> HIDE DEF near, below, drop
<1> QED BY <1>1, <1>2, <1>4, <1>5

LEMMA PricesAreFinite ==
  ASSUME NEW levels \in Seq(Level)
  PROVE  /\ IsFiniteSet({levels[i].price : i \in DOMAIN levels})
         /\ {levels[i].price : i \in DOMAIN levels} \in SUBSET Int
<1> DEFINE P == {levels[i].price : i \in DOMAIN levels}
           f == [i \in DOMAIN levels |-> levels[i].price]
<1>1. f \in Surjection(DOMAIN levels, P)
  BY DEF Surjection
<1>2. IsFiniteSet(DOMAIN levels)
  BY LevelPrices, FS_Interval
<1>3. P \in SUBSET Int
  BY LevelPrices
<1>4. IsFiniteSet(P)
  <2> HIDE DEF P, f
  <2> QED BY <1>1, <1>2, FS_Surjection
<1> QED BY <1>3, <1>4

LEMMA RangeIsInt ==
  ASSUME NEW current \in Nat, NEW supports \in Seq(Level), NEW resistances \in Seq(Level)
  PROVE  RangeBasedEntry(current, supports, resistances) \in Int
<1> DEFINE P == {supports[i].price : i \in DOMAIN supports}
           below == {p \in P : 0 < p /\ p < current}
           above == {p \in {resistances[i].price : i \in DOMAIN resistances} : p > current}
<1>1. RangeBasedEntry(current, supports, resistances)
        = IF below # {} /\ above # {} /\ current - Max(below) < Min(above) - current
          THEN (1005 * Max(below)) \div 1000 ELSE 0
  BY DEF RangeBasedEntry
<1>2. ASSUME below # {} PROVE Max(below) \in Int
  <2>1. IsFiniteSet(P) /\ P \in SUBSET Int
    BY PricesAreFinite
  <2>2. below \in SUBSET P
    OBVIOUS
  <2> HIDE DEF P, below
  <2>3. IsFiniteSet(below) /\ below \in SUBSET Int
    BY <2>1, <2>2, FS_Subset
  <2>4. Max(below) \in below
    BY <1>2, <2>3, MaxIsGreatest
  <2> QED BY <2>3, <2>4
<1>3. below # {} => (1005 * Max(below)) \div 1000 \in Int
  <2> HIDE DEF below
  <2> QED BY <1>2
<1> HIDE DEF below, above
<1> QED BY <1>1, <1>3

\* The trend's score.
LEMMA TrendIsInt ==
  ASSUME NEW ta \in TechnicalAnalysis, NEW candles \in Seq(StoredCandle)
  PROVE  EnhancedTrendScore(ta, candles) \in Int
<1>1. ta.summary \in Int /\ ta.ma \in Int /\ ta.osc \in Int
  <2>1. ta.summary \in -2 .. 2
    BY Zenon DEF TechnicalAnalysis
  <2>2. ta.ma \in Int
    BY DEF TechnicalAnalysis
  <2>3. ta.osc \in Int
    BY DEF TechnicalAnalysis
  <2>4. \A i \in -2 .. 2 : i \in Int
    OBVIOUS
  <2> QED BY <2>1, <2>2, <2>3, <2>4
<1>2. \A b \in BOOLEAN : Sign(b) \in Int
  BY DEF Sign
<1>3. 3 * ta.summary + 2 * ta.ma + ta.osc \in Int
  BY <1>1
<1>4. (IF ta.rsi > 70 THEN -2 ELSE IF ta.rsi < 30 THEN 1 ELSE 0) \in Int
  OBVIOUS
<1>5. calculateTrendScore(ta) \in Int
  <2> Sign(ta.macd > ta.signal) \in Int
    BY DEF Sign
  <2> QED BY <1>3, <1>4 DEF calculateTrendScore
<1>6. \A x, y, z \in Int : x + y + z \in Int
  OBVIOUS
<1> DEFINE range == IF Len(candles) < 3 THEN 0
       ELSE LET last == Back(candles, 0)
                prev == Back(candles, 1)
            IN  IF last.high > prev.high /\ last.low > prev.low THEN 1
                ELSE IF last.high < prev.high /\ last.low < prev.low THEN -1 ELSE 0
    volume == IF Len(candles) < 2 \/ Back(candles, 0).volume <= Back(candles, 1).volume THEN 0
       ELSE Sign(Back(candles, 0).close > Back(candles, 1).close)
<1>7. range \in Int /\ volume \in Int
  BY DEF Sign
<1>8. EnhancedTrendScore(ta, candles) = calculateTrendScore(ta) + range + volume
  BY DEF EnhancedTrendScore
<1> HIDE DEF range, volume
<1> QED BY <1>5, <1>6, <1>7, <1>8

LEMMA VolumeIsInt ==
  ASSUME NEW candles PROVE VolumeConfirmation(candles) \in Int
BY DEF VolumeConfirmation

\* calculateSmartEntry stays within 5% of the market, whatever it was made from.
LEMMA SmartEntryIsNear ==
  ASSUME NEW current \in Nat, NEW ta \in TechnicalAnalysis, NEW candles \in Seq(StoredCandle),
         NEW supports \in Seq(Level), NEW resistances \in Seq(Level), NEW emas \in Seq(Average)
  PROVE  Near5(calculateSmartEntry(current, ta, candles, supports, resistances, emas), current)
<1> DEFINE atr == calculateATR(candles)
           trend == EnhancedTrendScore(ta, candles)
           range == RangeBasedEntry(current, supports, resistances)
           entry == IF Absolute(trend) <= 2 /\ range > 0 THEN range
                    ELSE IF trend > 0 THEN BullishEntry(current, supports, emas, ta, candles, atr)
                    ELSE IF trend < 0 THEN BearishEntry(current, resistances, atr, trend)
                    ELSE current
<1>1. calculateSmartEntry(current, ta, candles, supports, resistances, emas)
        = IF candles = <<>> THEN current
          ELSE FinalEntryAdjustments(entry, current,
                                     Volatility(candles), VolumeConfirmation(candles))
  BY DEF calculateSmartEntry
<1>2. atr \in Nat /\ trend \in Int /\ range \in Int
  BY ATRIsNat, TrendIsInt, RangeIsInt
<1> HIDE DEF atr, trend, range
<1>3. BullishEntry(current, supports, emas, ta, candles, atr) \in Int
  BY <1>2, BullishIsInt
<1>4. BearishEntry(current, resistances, atr, trend) \in Int
  BY <1>2, BearishIsInt
<1>5. entry \in Int
  BY <1>2, <1>3, <1>4
<1> HIDE DEF entry
<1>6. Near5(FinalEntryAdjustments(entry, current,
                                 Volatility(candles), VolumeConfirmation(candles)), current)
  BY <1>5, VolatilityIsInt, VolumeIsInt, FinalEntryIsNear
<1>7. Near5(current, current)
  BY DEF Near5, Distance
<1> QED BY <1>1, <1>6, <1>7

\* The analyses of a day are typed, and so is the market price they tell.
LEMMA SnapshotIsSeq ==
  ASSUME NEW s \in Snapshots
  PROVE  s \in Seq(StockAnalysis) /\ s # <<>> /\ Last(s) \in StockAnalysis /\ Last(s).price \in Nat
<1>1. s \in Seq(StockAnalysis) /\ s # <<>>
  BY BacktestAssumption
<1>2. Len(s) \in 1 .. Len(s)
  BY <1>1
<1>3. Last(s) \in StockAnalysis
  BY <1>1, <1>2 DEF Last
<1>4. \A a \in StockAnalysis : a.price \in Nat
  BY DEF StockAnalysis
<1> QED BY <1>1, <1>3, <1>4

LEMMA MarketIsNat ==
  ASSUME NEW s \in Snapshots, NEW live \in LivePrices
  PROVE  /\ MarketPrice(s, live) \in Nat /\ live \in Nat
         /\ live = 0 => MarketPrice(s, live) = Last(s).price
         /\ live # 0 => MarketPrice(s, live) = live
BY SnapshotIsSeq, BacktestAssumption DEF MarketPrice

\* The analysis of the main timeframe.
Main(s) == MainData(s)[1]

LEMMA MainIsAnalysis ==
  ASSUME NEW s \in Snapshots, CanBeJudged(s)
  PROVE  /\ Main(s) \in StockAnalysis /\ Main(s).ta \in TechnicalAnalysis
         /\ Main(s).candles \in Seq(StoredCandle) /\ Main(s).candles # <<>>
<1>1. Main(s) \in StockAnalysis
  BY SnapshotIsSeq, FoundIsAnalysis DEF Main, MainData, CanBeJudged
<1> QED BY <1>1 DEF CanBeJudged, Main, StockAnalysis

\* The entry of every plan is near the market.
LEMMA EntryIsNear ==
  ASSUME NEW s \in Snapshots, NEW live \in LivePrices, CanBeJudged(s)
  PROVE  Near5(Entry(s, live), MarketPrice(s, live))
<1>1. Entry(s, live) = calculateSmartEntry(MarketPrice(s, live), Main(s).ta, Main(s).candles,
                          Supports(s), Resistances(s), EmaData(s))
  BY DEF Entry, Main
<1> QED BY <1>1, MarketIsNat, MainIsAnalysis, SnapshotIsSeq, LevelsAreLevels, EmaDataIsAverages,
           SmartEntryIsNear

\* A price that may become a stop or a target.
Source == [price : Int, score : Int]

LEMMA CandidatesAreSources ==
  ASSUME NEW sources \in Seq(Source), NEW by \in Int
  PROVE  FirstOfEach(Shifted(sources, by)) \subseteq Source
<1>1. ASSUME NEW s \in Source PROVE [s EXCEPT !.price = @ - by] \in Source
  BY DEF Source
<1>2. \A i \in DOMAIN Shifted(sources, by) : Shifted(sources, by)[i] \in Source
  BY <1>1 DEF Shifted
<1> HIDE DEF Shifted
<1> QED BY <1>2 DEF FirstOfEach

\* A stop is sought below the entry,
LEMMA StopsAreBelow ==
  ASSUME NEW entry, NEW supports \in Seq(Level), NEW emas \in Seq(Average), NEW by \in Int,
         NEW s \in SLCandidates(entry, supports, emas, by)
  PROVE  s \in Source /\ s.price < entry
<1> DEFINE own == [i \in DOMAIN supports |->
                     [price |-> supports[i].price, score |-> 10 * supports[i].touches]]
           averages == [i \in DOMAIN emas |->
                      <<[price |-> emas[i].ema10, score |-> 15],
                        [price |-> emas[i].ema20, score |-> 20],
                        [price |-> emas[i].ema50, score |-> 25]>>]
           sources == own \o FlattenSeq(averages)
<1>1. own \in Seq(Source)
  <2>1. \A i \in 1 .. Len(supports) :
          [price |-> supports[i].price, score |-> 10 * supports[i].touches] \in Source
    BY LevelPrices DEF Source
  <2>2. own \in [1 .. Len(supports) -> Source]
    BY <2>1, LevelPrices
  <2> HIDE DEF own
  <2> QED BY <2>2, LevelPrices, FunctionIsSeq
<1>2. FlattenSeq(averages) \in Seq(Source)
  <2>1. Len(emas) \in Nat /\ DOMAIN emas = 1 .. Len(emas)
        /\ \A i \in 1 .. Len(emas) : emas[i] \in Average
    OBVIOUS
  <2>2. ASSUME NEW e \in Average
        PROVE  <<[price |-> e.ema10, score |-> 15], [price |-> e.ema20, score |-> 20],
                 [price |-> e.ema50, score |-> 25]>> \in Seq(Source)
    <3>1. /\ [price |-> e.ema10, score |-> 15] \in Source
          /\ [price |-> e.ema20, score |-> 20] \in Source
          /\ [price |-> e.ema50, score |-> 25] \in Source
      BY DEF Average, Source
    <3>2. \A x, y, z \in Source : <<x, y, z>> \in Seq(Source)
      OBVIOUS
    <3> QED BY <3>1, <3>2
  <2>3. averages \in [1 .. Len(emas) -> Seq(Source)]
    BY <2>1, <2>2
  <2> HIDE DEF averages
  <2>4. averages \in Seq(Seq(Source))
    BY <2>1, <2>3, FunctionIsSeq
  <2> QED BY <2>4, FlattenHasType
<1>3. SLCandidates(entry, supports, emas, by)
        = {c \in FirstOfEach(Shifted(sources, by)) : c.price < entry}
  BY DEF SLCandidates
<1> HIDE DEF own, averages
<1>4. sources \in Seq(Source)
  BY <1>1, <1>2
<1> HIDE DEF sources
<1> QED BY <1>3, <1>4, CandidatesAreSources

\* and a target above it.
LEMMA TargetsAreAbove ==
  ASSUME NEW entry, NEW resistances \in Seq(Level), NEW buckets \in Seq(Bucket), NEW by \in Int,
         NEW s \in TPCandidates(entry, resistances, buckets, by)
  PROVE  s \in Source /\ s.price > entry
<1> DEFINE own == [i \in DOMAIN resistances |->
                     [price |-> resistances[i].price, score |-> 10 * resistances[i].touches]]
           others == [i \in DOMAIN buckets |->
                      [price |-> buckets[i].price, score |-> buckets[i].count]]
           sources == own \o others
<1>1. own \in Seq(Source)
  <2>1. \A i \in 1 .. Len(resistances) :
          [price |-> resistances[i].price, score |-> 10 * resistances[i].touches] \in Source
    BY LevelPrices DEF Source
  <2>2. own \in [1 .. Len(resistances) -> Source]
    BY <2>1, LevelPrices
  <2> HIDE DEF own
  <2> QED BY <2>2, LevelPrices, FunctionIsSeq
<1>2. others \in Seq(Source)
  <2>1. Len(buckets) \in Nat /\ DOMAIN buckets = 1 .. Len(buckets)
        /\ \A i \in 1 .. Len(buckets) : buckets[i] \in Bucket
    OBVIOUS
  <2>2. \A b \in Bucket : [price |-> b.price, score |-> b.count] \in Source
    BY DEF Bucket, Source
  <2>3. others \in [1 .. Len(buckets) -> Source]
    BY <2>1, <2>2
  <2> HIDE DEF others
  <2> QED BY <2>1, <2>3, FunctionIsSeq
<1>3. TPCandidates(entry, resistances, buckets, by)
        = {c \in FirstOfEach(Shifted(sources, by)) : c.price > entry}
  BY DEF TPCandidates
<1> HIDE DEF own, others
<1>4. sources \in Seq(Source)
  BY <1>1, <1>2
<1> HIDE DEF sources
<1> QED BY <1>3, <1>4, CandidatesAreSources
------------------------------------------------------------------------------
\* The plans.

\* A plan from levels: Fits is what makes it sound.
LEMMA BestAreSound ==
  ASSUME NEW market \in Nat, NEW entry, Near5(entry, market), NEW sls, NEW tps,
         \A s \in sls : s.price \in Int /\ s.price < entry,
         \A t \in tps : t.price \in Int /\ t.price > entry,
         NEW kind \in {"primary", "secondary"}, NEW quality,
         NEW p \in BestPlans(entry, sls, tps, kind, quality)
  PROVE  Priced(p) /\ Sound(p, market)
<1>1. PICK pair \in sls \X tps :
        /\ Fits(entry, pair[1], pair[2], Config[kind])
        /\ p = [entry |-> entry, sl |-> pair[1].price, tp |-> pair[2].price, kind |-> kind,
                score |-> Score(entry, pair[1], pair[2], quality, Config[kind])]
  BY Zenon DEF BestPlans
<1>2. entry \in Nat /\ 100 * Distance(entry, market) <= 5 * market
  BY DEF Near5
<1>3. /\ pair[1].price \in Int /\ pair[1].price < entry
      /\ pair[2].price \in Int /\ pair[2].price > entry
  OBVIOUS
<1>4. Config[kind].minSL \in 1 .. 2
  BY DEF Config
<1>5. /\ 100 * (entry - pair[1].price) >= Config[kind].minSL * entry
      /\ pair[2].price - entry >= entry - pair[1].price
  BY <1>1, <1>2, <1>3 DEF Fits, TargetRiskReward
<1>6. 100 * (entry - pair[1].price) >= entry
  <2> DEFINE m == Config[kind].minSL
  <2> HIDE DEF m
  <2>1. m \in 1 .. 2 /\ 100 * (entry - pair[1].price) >= m * entry
    BY <1>4, <1>5 DEF m
  <2>2. m = 1 \/ m = 2
    BY <2>1
  <2> QED BY <1>2, <1>3, <2>1, <2>2
<1>7. p.entry = entry /\ p.sl = pair[1].price /\ p.tp = pair[2].price
  BY <1>1
<1> QED BY <1>2, <1>3, <1>5, <1>6, <1>7 DEF Priced, Sound

\* A stop is 1.25 to 2.25 ATRs away,
LEMMA MultiplierBounds ==
  ASSUME NEW ta PROVE ATRMultiplierForSL(ta) \in {1250, 1625, 1875, 2250}
BY DEF ATRMultiplierForSL

\* and a target 3, so that a plan by distance is worth its risk.
LEMMA ATRPlanIsSound ==
  ASSUME NEW market \in Nat, NEW entry, Near5(entry, market), NEW atr \in Nat,
         NEW multiplier \in {1250, 1625, 1875, 2250}
  PROVE  /\ Priced(ATRBasedPlan(entry, atr, multiplier))
         /\ Sound(ATRBasedPlan(entry, atr, multiplier), market)
<1>1. CASE atr = 0
  BY <1>1 DEF ATRBasedPlan, Priced, Sound, NoPlan
<1>2. CASE atr # 0
  <2> DEFINE risk == (multiplier * atr) \div 1000
  <2>1. risk \in Nat /\ risk > 0 /\ risk <= 3 * atr
    <3>1. CASE multiplier = 1250 BY <1>2, <3>1
    <3>2. CASE multiplier = 1625 BY <1>2, <3>2
    <3>3. CASE multiplier = 1875 BY <1>2, <3>3
    <3>4. CASE multiplier = 2250 BY <1>2, <3>4
    <3> QED BY <3>1, <3>2, <3>3, <3>4
  <2>2. entry \in Nat /\ 100 * Distance(entry, market) <= 5 * market
    BY DEF Near5
  <2>3. ATRBasedPlan(entry, atr, multiplier)
          = [entry |-> entry, sl |-> entry - risk, tp |-> entry + 3 * atr,
             kind |-> "atr", score |-> 500]
    BY <1>2 DEF ATRBasedPlan
  <2> HIDE DEF risk
  <2> QED BY <2>1, <2>2, <2>3 DEF Priced, Sound
<1> QED BY <1>1, <1>2

\* Every plan calculatePlans may return is sound.
LEMMA PlansForAreSound ==
  ASSUME NEW s \in Snapshots, NEW live \in LivePrices, CanBeJudged(s), NEW p \in PlansFor(s, live)
  PROVE  Priced(p) /\ Sound(p, MarketPrice(s, live))
<1> DEFINE entry == Entry(s, live)
           market == MarketPrice(s, live)
           atr == calculateATR(Main(s).candles)
           multiplier == ATRMultiplierForSL(Main(s).ta)
           sls == SLCandidates(entry, Supports(s), EmaData(s), (atr * multiplier) \div 1000)
           tps == TPCandidates(entry, Resistances(s), Buckets(s), atr \div 10)
           quality == EntryQuality(entry, Main(s).ta)
           ideal == IdealPlans(entry, sls, tps, quality)
<1>1. p \in IF ideal # {} THEN ideal ELSE {ATRBasedPlan(entry, atr, multiplier)}
  BY DEF PlansFor, calculatePlans, Main
<1>2. market \in Nat /\ Near5(entry, market)
  BY MarketIsNat, EntryIsNear
<1>3. atr \in Nat
  BY MainIsAnalysis, ATRIsNat
<1>4. multiplier \in {1250, 1625, 1875, 2250}
  BY MultiplierBounds
<1>5. (atr * multiplier) \div 1000 \in Int /\ atr \div 10 \in Int
  <2> HIDE DEF atr, multiplier
  <2> multiplier \in Nat
    BY <1>4
  <2> atr * multiplier \in Int
    BY <1>3, TypesOfProducts
  <2> QED BY <1>3
<1>6. /\ \A c \in sls : c.price \in Int /\ c.price < entry
      /\ \A c \in tps : c.price \in Int /\ c.price > entry
  <2> HIDE DEF atr, multiplier, entry
  <2>1. /\ Supports(s) \in Seq(Level) /\ Resistances(s) \in Seq(Level)
        /\ EmaData(s) \in Seq(Average) /\ Buckets(s) \in Seq(Bucket)
    BY SnapshotIsSeq, LevelsAreLevels, EmaDataIsAverages, BucketsHaveType
  <2>2. \A c \in Source : c.price \in Int
    BY DEF Source
  <2>3. \A c \in sls : c \in Source /\ c.price < entry
    BY <1>5, <2>1, StopsAreBelow
  <2>4. \A c \in tps : c \in Source /\ c.price > entry
    BY <1>5, <2>1, TargetsAreAbove
  <2> QED BY <2>2, <2>3, <2>4
<1> HIDE DEF entry, market, atr, multiplier, sls, tps, quality
<1>7. CASE ideal # {}
  <2>1. PICK kind \in {"primary", "secondary"} : p \in BestPlans(entry, sls, tps, kind, quality)
    BY <1>1, <1>7 DEF IdealPlans
  <2> HIDE DEF ideal
  <2> QED BY <1>2, <1>6, <2>1, BestAreSound DEF market
<1>8. CASE ideal = {}
  <2> p = ATRBasedPlan(entry, atr, multiplier)
    BY <1>1, <1>8
  <2> QED BY <1>2, <1>3, <1>4, ATRPlanIsSound DEF market
<1> QED BY <1>7, <1>8

\* A status is safe only if a quarter of the risk is left.
LEMMA SafeStatus ==
  ASSUME NEW pos, NEW m, Rules!Status(pos, m) = "safe",
         NEW buy \in Int, NEW sl \in Int, NEW last \in Int,
         pos.terms.buy = buy, pos.terms.sl = sl, pos.stop = 0, m.last = last
  PROVE  ~(buy > Rules!Higher(sl, 0)
         /\ 4 * (last - Rules!Higher(sl, 0)) < buy - Rules!Higher(sl, 0))
BY DEF Rules!Status, Rules!EffectiveSL

\* The evaluation reads the plan's market price, unless there is none.
LEMMA LastPriceOfMarket ==
  ASSUME NEW s \in Snapshots, NEW live \in LivePrices, CanBeJudged(s)
  PROVE  /\ LastPrice(s, live) \in Nat
         /\ MarketPrice(s, live) # 0 => LastPrice(s, live) = MarketPrice(s, live)
<1>1. Back(Main(s).candles, 0) \in StoredCandle
  <2> Main(s).candles \in Seq(StoredCandle) /\ 0 < Len(Main(s).candles) /\ 0 \in Nat
    BY MainIsAnalysis
  <2> QED BY BackIsCandle
<1>2. \A c \in StoredCandle : c.close \in Nat
  BY DEF StoredCandle, Price
<1> QED BY <1>1, <1>2, MarketIsNat DEF LastPrice, Main

\* A sound plan is called safe only while its stop is below the market.  Without a
\* market price its entry is 0 and its stop below.
LEMMA PlanStatusIsSafe ==
  ASSUME NEW s \in Snapshots, NEW live \in LivePrices, CanBeJudged(s), NEW q,
         Priced(q), Sound(q, MarketPrice(s, live)), q # NoPlan,
         PlanStatus([buy |-> q.entry, tp |-> q.tp, sl |-> q.sl], s, live) = "safe"
  PROVE  /\ q.sl < MarketPrice(s, live)
         /\ 4 * (MarketPrice(s, live) - q.sl) >= q.entry - q.sl
<1> DEFINE terms == [buy |-> q.entry, tp |-> q.tp, sl |-> q.sl]
           m == MarketState(terms, s, Supports(s), Resistances(s), live)
           market == MarketPrice(s, live)
           last == LastPrice(s, live)
           sl == Rules!Higher(q.sl, 0)
<1>1. Rules!Status(Untrailed(terms), m) = "safe"
  BY DEF PlanStatus, Evaluate
<1>2. m.last = last
  BY DEF MarketState
<1>3. last \in Nat /\ market \in Nat /\ (market # 0 => last = market)
  BY LastPriceOfMarket, MarketIsNat
<1>4. q.entry \in Nat /\ q.sl \in Int
  BY DEF Priced
<1>5. ~(q.entry > sl /\ 4 * (last - sl) < q.entry - sl)
  <2> /\ Untrailed(terms).terms.buy = q.entry /\ Untrailed(terms).terms.sl = q.sl
      /\ Untrailed(terms).stop = 0
    BY DEF Untrailed
  <2> HIDE DEF m, last, terms
  <2> q.entry \in Int /\ last \in Int
    BY <1>3, <1>4
  <2> QED BY <1>1, <1>2, <1>4, SafeStatus
<1>6. sl = IF q.sl > 0 THEN q.sl ELSE 0
  BY DEF Rules!Higher
<1>7. 0 < q.entry - q.sl /\ 100 * Distance(q.entry, market) <= 5 * market
  BY DEF Sound
<1>8. market = 0 => q.entry = 0
  BY <1>4, <1>7 DEF Distance
<1> HIDE DEF m, market, last, sl, terms
<1>9. q.sl < market /\ 4 * (market - q.sl) >= q.entry - q.sl
  <2>1. CASE q.sl > 0
    BY <1>3, <1>4, <1>5, <1>6, <1>7, <1>8, <2>1
  <2>2. CASE ~(q.sl > 0) /\ q.entry = 0
    BY <1>3, <1>4, <1>7, <2>2
  <2>3. CASE ~(q.sl > 0) /\ q.entry # 0
    <3>1. market # 0 /\ last = market /\ q.entry > 0 /\ ~(4 * market < q.entry)
      BY <1>3, <1>4, <1>5, <1>6, <1>8, <2>3
    <3> QED BY <1>3, <1>4, <2>3, <3>1
  <2> QED BY <2>1, <2>2, <2>3
<1> QED BY <1>9 DEF market

\* CreateTradePlan makes sound plans, and calls safe only live ones.
LEMMA PlansAreMade ==
  ASSUME NEW s \in Snapshots, NEW live \in LivePrices, NEW p \in Plans[s][live]
  PROVE  MadePlan(p)
<1>1. p \in CreateTradePlan(s, live)
  BY DEF Plans
<1>2. CanBeJudged(s)
  BY <1>1 DEF CreateTradePlan
<1> DEFINE Of(q) == [plan |-> q,
         market |-> MarketPrice(s, live),
         status |-> PlanStatus([buy |-> q.entry, tp |-> q.tp, sl |-> q.sl], s, live),
         isBuySignal |-> MainData(s)[1].ta.summary > 0,
         score |-> 700 * CalculateSummary(s, Weight) + (3 * q.score) \div 10]
<1>3. PICK q \in PlansFor(s, live) :
        /\ p.plan = q /\ p.market = MarketPrice(s, live)
        /\ p.status = PlanStatus([buy |-> q.entry, tp |-> q.tp, sl |-> q.sl], s, live)
  <2>1. p \in {Of(q) : q \in PlansFor(s, live)}
    BY <1>1, <1>2 DEF CreateTradePlan
  <2>2. PICK q \in PlansFor(s, live) : p = Of(q)
    <3> HIDE DEF Of
    <3> QED BY <2>1
  <2> QED BY <2>2
<1>4. Priced(q) /\ Sound(q, MarketPrice(s, live))
  BY <1>2, PlansForAreSound
<1> QED BY <1>2, <1>3, <1>4, PlanStatusIsSafe DEF MadePlan, SafeIsLive

\* What evaluateTrailingStop proposes is a stop at the entry or above.
LEMMA RaisedStop ==
  ASSUME NEW s \in Snapshots, NEW live \in LivePrices, CanBeJudged(s), NEW terms \in TermsType,
         NEW supports, NEW resistances,
         Evaluate(terms, s, supports, resistances, live).signal = "trailing_stop"
  PROVE  /\ Evaluate(terms, s, supports, resistances, live).stop \in Int
         /\ Evaluate(terms, s, supports, resistances, live).stop >= terms.buy
<1> DEFINE m == MarketState(terms, s, supports, resistances, live)
           pos == Untrailed(terms)
           verdict == Evaluate(terms, s, supports, resistances, live)
           secondary == SecondaryData(s)
<1>1. verdict.signal = Rules!Signal(pos, m) /\ verdict.stop = Rules!Stop(pos, m)
  BY DEF Evaluate
<1>2. m.low \in Int
  <2>1. m.low = IF Len(Main(s).candles) < 2 THEN 0 ELSE Back(Main(s).candles, 1).low
    BY DEF MarketState, Main
  <2>2. ASSUME ~(Len(Main(s).candles) < 2) PROVE Back(Main(s).candles, 1) \in StoredCandle
    <3> Main(s).candles \in Seq(StoredCandle) /\ 1 < Len(Main(s).candles) /\ 1 \in Nat
      BY <2>2, MainIsAnalysis
    <3> QED BY BackIsCandle
  <2>3. \A c \in StoredCandle : c.low \in Int
    BY DEF StoredCandle, Price
  <2> HIDE DEF m
  <2> QED BY <2>1, <2>2, <2>3
<1>3. m.r1 \in Int
  <2>1. m.r1 = IF secondary = <<>> THEN 0 ELSE secondary[1].ta.classicR[1]
    BY DEF MarketState
  <2>2. ASSUME secondary # <<>> PROVE secondary[1] \in StockAnalysis
    BY <2>2, SnapshotIsSeq, FoundIsAnalysis DEF SecondaryData
  <2>3. \A a \in StockAnalysis : a.ta.classicR[1] \in Int
    <3>1. ASSUME NEW ta \in TechnicalAnalysis PROVE ta.classicR[1] \in Int
      <4> ta.classicR \in [1 .. 3 -> Int]
        BY Zenon DEF TechnicalAnalysis
      <4> 1 \in 1 .. 3
        OBVIOUS
      <4> QED OBVIOUS
    <3> QED BY <3>1 DEF StockAnalysis
  <2> HIDE DEF m, secondary
  <2> QED BY <2>1, <2>2, <2>3
<1>4. pos.terms.buy = terms.buy /\ terms.buy \in Int
  BY DEF Untrailed, TermsType
<1> HIDE DEF m, pos, verdict, secondary
<1>5. Rules!Stop(pos, m) > 0
  <2>1. Rules!ProfitSignal(pos, m) # "trailing_stop"
    BY DEF Rules!ProfitSignal
  <2>2. Rules!Signal(pos, m) = "trailing_stop"
    BY <1>1 DEF verdict
  <2> QED BY <2>1, <2>2 DEF Rules!Signal
<1>6. Rules!Stop(pos, m) = Rules!ProposedStop(pos, m)
  BY <1>5 DEF Rules!Stop
<1>7. \A a, b \in Int : Rules!Higher(a, b) \in Int /\ Rules!Higher(a, b) >= a
  BY DEF Rules!Higher
<1>8. (IF Rules!Breakout(pos, m) THEN m.r1 ELSE 0) \in Int
  BY <1>3
<1>9. Rules!Higher(terms.buy, m.low) \in Int /\ Rules!Higher(terms.buy, m.low) >= terms.buy
  BY <1>2, <1>4, <1>7
<1>10. Rules!ProposedStop(pos, m) \in Int /\ Rules!ProposedStop(pos, m) >= terms.buy
  <2> DEFINE x == Rules!Higher(terms.buy, m.low)
             y == IF Rules!Breakout(pos, m) THEN m.r1 ELSE 0
  <2>1. Rules!ProposedStop(pos, m) = Rules!Higher(x, y)
    BY <1>4 DEF Rules!ProposedStop
  <2>2. x \in Int /\ y \in Int /\ x >= terms.buy
    BY <1>8, <1>9
  <2> HIDE DEF x, y
  <2>3. Rules!Higher(x, y) \in Int /\ Rules!Higher(x, y) >= x
    BY <1>7, <2>2
  <2> QED BY <1>4, <2>1, <2>2, <2>3
<1> QED BY <1>1, <1>6, <1>10 DEF verdict

\* Between its stop and its target, at the price of the day, the evaluation closes nothing.
LEMMA NoExitBetween ==
  ASSUME NEW s \in Snapshots, CanBeJudged(s), NEW terms \in TermsType,
         NEW supports, NEW resistances,
         Last(s).price # 0, terms.sl < Last(s).price, Last(s).price < terms.tp
  PROVE  Evaluate(terms, s, supports, resistances, 0).signal \notin {"cut_loss", "take_profit"}
<1> DEFINE m == MarketState(terms, s, supports, resistances, 0)
           pos == Untrailed(terms)
           price == Last(s).price
<1>1. Evaluate(terms, s, supports, resistances, 0).signal = Rules!Signal(pos, m)
  BY DEF Evaluate
<1>2. m.last = price /\ price \in Nat
  <2>1. 0 \in LivePrices
    BY BacktestAssumption
  <2>2. MarketPrice(s, 0) = price /\ price \in Nat
    BY <2>1, MarketIsNat, SnapshotIsSeq
  <2>3. m.last = LastPrice(s, 0)
    BY DEF MarketState
  <2> HIDE DEF m
  <2> QED BY <2>1, <2>2, <2>3, LastPriceOfMarket
<1>3. pos.trail = 0 /\ pos.stop = 0 /\ pos.terms = terms
  BY DEF Untrailed
<1>4. terms.sl \in Int /\ terms.tp \in Nat
  BY DEF TermsType
<1> HIDE DEF m, pos, price
<1>5. ~Rules!Activates(pos, m)
  BY <1>2, <1>3, <1>4 DEF Rules!Activates, price
<1>6. Rules!ProfitSignal(pos, m) = ""
  BY <1>3, <1>5 DEF Rules!ProfitSignal
<1>7. ~(m.last <= Rules!EffectiveSL(pos))
  BY <1>2, <1>3, <1>4 DEF Rules!EffectiveSL, Rules!Higher, price
<1>8. Rules!Signal(pos, m) \notin {"cut_loss", "take_profit"}
  BY <1>6, <1>7 DEF Rules!Signal
<1> QED BY <1>1, <1>8
------------------------------------------------------------------------------
\* The invariant.

LEMMA InitEstablishesIInv == Init => IInv
<1> SUFFICES ASSUME Init PROVE IInv
  OBVIOUS
<1> USE DEF Init
<1>1. Days
  <2> 0 \in LivePrices /\ MaxDays \in Nat
    BY BacktestAssumption
  <2> QED BY DEF Days
<1>2. PlanOfTheDay
  BY DEF PlanOfTheDay
<1>3. OpenPosition
  BY DEF OpenPosition
<1>4. Log
  BY DEF Log
<1> QED BY <1>1, <1>2, <1>3, <1>4 DEF IInv

\* What a day does to the calendar.
LEMMA DayIsNext ==
  ASSUME IInv, NEW s \in Snapshots, NEW live \in LivePrices, Day(s, live)
  PROVE  /\ Days' /\ day \in Nat /\ day' = day + 1
         /\ today'.market = Last(s).price /\ today'.live = live /\ today'.market \in Nat
<1>1. day \in 0 .. MaxDays /\ MaxDays \in Nat /\ day < MaxDays /\ day' = day + 1
  BY BacktestAssumption DEF IInv, Days, Day
<1>2. day \in Nat /\ day' \in 0 .. MaxDays
  BY <1>1
<1>3. today' = [market |-> Last(s).price, live |-> live]
  BY DEF Day
<1>4. Last(s).price \in Nat
  BY SnapshotIsSeq
<1>5. today' \in [market : Nat, live : LivePrices]
  BY <1>3, <1>4
<1> QED BY <1>1, <1>2, <1>3, <1>4, <1>5 DEF Days

LEMMA HeldPosition ==
  ASSUME IInv, position # <<>>
  PROVE  /\ position[1] \in Holding /\ position = <<position[1]>>
         /\ position[1].day \in 1 .. day /\ position[1].terms \in TermsType
         /\ Bought(position[1].terms)
         /\ trades # <<>> => position[1].day > trades[Len(trades)].to
<1>1. PICK h \in Holding :
        /\ position = <<h>>
        /\ h.day \in 1 .. day /\ Bought(h.terms)
        /\ trades # <<>> => h.day > trades[Len(trades)].to
  BY DEF IInv, OpenPosition
<1>2. position[1] = h
  BY <1>1
<1>3. h.terms \in TermsType
  BY DEF Holding
<1> QED BY <1>1, <1>2, <1>3

\* The record a close writes.
Closed(reason) ==
  [from |-> position[1].day, to |-> day', entry |-> position[1].terms.buy,
   exit |-> today'.market, reason |-> reason, profit |-> today'.market - position[1].terms.buy,
   held |-> Max({1, day' - position[1].day})]

LEMMA CloseWrites ==
  ASSUME NEW reason, Close(reason)
  PROVE  trades' = Append(trades, Closed(reason)) /\ position' = <<>> /\ plan' = {}
BY DEF Close, Closed

LEMMA CloseKeepsIInv ==
  ASSUME IInv, NEW s \in Snapshots, NEW live \in LivePrices, Day(s, live), position # <<>>,
         NEW reason \in Reasons, Close(reason)
  PROVE  IInv'
<1>1. /\ Days' /\ day \in Nat /\ day' = day + 1 /\ today'.market \in Nat
  BY DayIsNext
<1>2. PlanOfTheDay' /\ OpenPosition'
  BY CloseWrites DEF PlanOfTheDay, OpenPosition
<1>3. Log'
  <2> DEFINE t == Closed(reason)
             n == Len(trades)
             from == position[1].day
             buy == position[1].terms.buy
  <2>0. from \in 1 .. day /\ buy \in Nat
    <3> \A x \in TermsType : x.buy \in Nat
      BY DEF TermsType
    <3> QED BY HeldPosition
  <2>1. from \in Nat /\ from < day' /\ day' \in Nat
    BY <1>1, <2>0
  <2>2. Max({1, day' - from}) = day' - from
    <3>1. 1 \in Int /\ day' - from \in Int /\ day' - from >= 1
      BY <2>1
    <3> DEFINE x == day' - from
    <3> HIDE DEF x
    <3>2. Max({1, x}) = IF 1 <= x THEN x ELSE 1
      BY <3>1, MinOfTwo DEF x
    <3> QED BY <3>1, <3>2 DEF x
  <2>3. /\ t.from = from /\ t.to = day' /\ t.held = day' - from
        /\ t.from < t.to
    BY <2>1, <2>2 DEF Closed
  <2>4. t \in Trade
    <3> DEFINE exit == today'.market
    <3>1. exit \in Nat /\ exit - buy \in Int /\ day' - from \in Nat
      BY <1>1, <2>0, <2>1
    <3>2. t = [from |-> from, to |-> day', entry |-> buy, exit |-> exit, reason |-> reason,
               profit |-> exit - buy, held |-> day' - from]
      BY <2>2 DEF Closed
    <3> HIDE DEF t, from, buy, exit
    <3> QED BY <2>0, <2>1, <3>1, <3>2 DEF Trade
  <2>5. /\ trades \in Seq(Trade) /\ n \in Nat
        /\ \A i \in 1 .. n :
             /\ trades[i].from < trades[i].to /\ trades[i].to <= day
             /\ trades[i].held = trades[i].to - trades[i].from
             /\ i > 1 => trades[i].from > trades[i - 1].to
    BY DEF IInv, Log
  <2>6. trades' = Append(trades, t)
    BY CloseWrites
  <2>7. n > 0 => from > trades[n].to
    <3> n > 0 => trades # <<>>
      BY <2>5
    <3> QED BY HeldPosition
  <2> HIDE DEF t, from
  <2>8. /\ trades' \in Seq(Trade) /\ Len(trades') = n + 1
        /\ trades'[n + 1] = t /\ \A i \in 1 .. n : trades'[i] = trades[i]
    BY <2>4, <2>5, <2>6
  <2>9. ASSUME NEW i \in 1 .. Len(trades')
        PROVE  /\ trades'[i].from < trades'[i].to /\ trades'[i].to <= day'
               /\ trades'[i].held = trades'[i].to - trades'[i].from
               /\ i > 1 => trades'[i].from > trades'[i - 1].to
    <3>1. CASE i \in 1 .. n
      <4>1. trades'[i] = trades[i] /\ (i > 1 => trades'[i - 1] = trades[i - 1])
        <5> i > 1 => i - 1 \in 1 .. n
          BY <3>1
        <5> QED BY <2>8, <3>1
      <4>2. trades[i] \in Trade
        BY <2>5, <3>1
      <4>3. trades[i].to \in Nat
        BY <4>2 DEF Trade
      <4> QED BY <1>1, <2>5, <3>1, <4>1, <4>3
    <3>2. CASE i = n + 1
      <4>1. trades'[i] = t /\ (i > 1 => trades'[i - 1] = trades[n] /\ n > 0)
        <5> i > 1 => i - 1 = n /\ n \in 1 .. n /\ n > 0
          BY <2>5, <3>2
        <5> QED BY <2>8, <3>2
      <4> QED BY <2>1, <2>3, <2>7, <4>1
    <3> QED BY <2>5, <2>8, <3>1, <3>2
  <2> HIDE DEF n
  <2> QED BY <2>8, <2>9 DEF Log
<1> QED BY <1>1, <1>2, <1>3 DEF IInv

\* What does not sell keeps the log.
LEMMA LogStays ==
  ASSUME IInv, NEW s \in Snapshots, NEW live \in LivePrices, Day(s, live), trades' = trades
  PROVE  Log'
<1>1. day \in Nat /\ day' = day + 1
  BY DayIsNext
<1>2. /\ trades \in Seq(Trade)
      /\ \A i \in 1 .. Len(trades) :
             /\ trades[i].from < trades[i].to /\ trades[i].to <= day
             /\ trades[i].held = trades[i].to - trades[i].from
             /\ i > 1 => trades[i].from > trades[i - 1].to
  BY DEF IInv, Log
<1>3. \A i \in 1 .. Len(trades) : trades[i].to \in Nat
  <2> \A x \in Trade : x.to \in Nat
    BY DEF Trade
  <2> QED BY <1>2
<1>4. \A i \in 1 .. Len(trades) : trades[i].to <= day'
  BY <1>1, <1>2, <1>3
<1> QED BY <1>2, <1>4 DEF Log

LEMMA SkipDayKeepsIInv ==
  ASSUME IInv, NEW s \in Snapshots, NEW live \in LivePrices, SkipDay(s, live)
  PROVE  IInv'
<1>1. Day(s, live) /\ trades' = trades /\ position' = position /\ plan' = {}
  BY DEF SkipDay
<1>2. Days' /\ Log' /\ day \in Nat /\ day' = day + 1
  BY <1>1, DayIsNext, LogStays
<1>3. PlanOfTheDay'
  BY <1>1 DEF PlanOfTheDay
<1>4. OpenPosition'
  <2>1. CASE position = <<>>
    BY <1>1, <2>1 DEF OpenPosition
  <2>2. CASE position # <<>>
    <3>1. \A i \in 1 .. day : i \in 1 .. day'
      BY <1>2
    <3> QED BY <1>1, <2>2, <3>1, HeldPosition DEF OpenPosition
  <2> QED BY <2>1, <2>2
<1> QED BY <1>2, <1>3, <1>4 DEF IInv

LEMMA BuyOrPassKeepsIInv ==
  ASSUME IInv, NEW s \in Snapshots, NEW live \in LivePrices, BuyOrPass(s, live)
  PROVE  IInv'
<1>1. Day(s, live) /\ trades' = trades /\ position = <<>>
  BY DEF BuyOrPass
<1>2. Days' /\ Log' /\ day \in Nat /\ day' = day + 1
  BY <1>1, DayIsNext, LogStays
<1>3. PICK p \in Plans[s][live] :
       /\ plan' = {p}
       /\ position' = IF p.isBuySignal /\ p.score >= EntryThreshold
                      THEN <<[day |-> day', terms |-> [buy |-> p.plan.entry, tp |-> p.plan.tp,
                                                       sl |-> p.plan.sl]]>>
                      ELSE <<>>
  BY DEF BuyOrPass
<1>4. MadePlan(p)
  BY PlansAreMade
<1>5. PlanOfTheDay'
  BY <1>3, <1>4 DEF PlanOfTheDay
<1>6. OpenPosition'
  <2> DEFINE terms == [buy |-> p.plan.entry, tp |-> p.plan.tp, sl |-> p.plan.sl]
             h == [day |-> day', terms |-> terms]
  <2>1. CASE position' = <<>>
    BY <2>1 DEF OpenPosition
  <2>2. CASE position' = <<h>>
    <3>1. terms \in TermsType
      BY <1>4 DEF MadePlan, Priced, TermsType
    <3>2. Bought(terms)
      <4>1. CASE p.plan = NoPlan
        BY <4>1 DEF NoPlan, Bought
      <4>2. CASE p.plan # NoPlan
        <5>1. 0 < p.plan.entry - p.plan.sl /\ p.plan.entry - p.plan.sl <= p.plan.tp - p.plan.entry
          BY <1>4, <4>2 DEF MadePlan, Sound
        <5>2. p.plan.entry \in Nat /\ p.plan.tp \in Nat /\ p.plan.sl \in Int
          BY <1>4 DEF MadePlan, Priced
        <5>3. p.plan.tp > p.plan.entry
          BY <5>1, <5>2
        <5> QED BY <5>3 DEF Bought
      <4> QED BY <4>1, <4>2
    <3>3. h \in Holding /\ h.day \in 1 .. day' /\ h.terms = terms
      <4>1. day' \in Nat /\ day' \in 1 .. day'
        BY <1>2
      <4> HIDE DEF terms
      <4> QED BY <3>1, <4>1 DEF Holding
    <3>4. trades # <<>> => h.day > trades[Len(trades)].to
      <4> SUFFICES ASSUME trades # <<>> PROVE day' > trades[Len(trades)].to
        OBVIOUS
      <4>1. trades \in Seq(Trade) /\ \A i \in 1 .. Len(trades) : trades[i].to <= day
        BY DEF IInv, Log
      <4>2. Len(trades) \in 1 .. Len(trades)
        BY <4>1
      <4>3. trades[Len(trades)] \in Trade /\ trades[Len(trades)].to <= day
        BY <4>1, <4>2
      <4>4. \A x \in Trade : x.to \in Nat
        BY DEF Trade
      <4> QED BY <1>2, <4>3, <4>4
    <3> HIDE DEF h, terms
    <3> QED BY <1>1, <2>2, <3>2, <3>3, <3>4 DEF OpenPosition
  <2> QED BY <1>3, <2>1, <2>2
<1> QED BY <1>2, <1>5, <1>6 DEF IInv

\* What a day on which the position is held makes of its terms.
LEMMA HoldRaises ==
  ASSUME IInv, NEW s \in Snapshots, NEW live \in LivePrices, Hold(s, live)
  PROVE  \E sl \in Int :
          
           /\ position' = <<[day |-> position[1].day,
                              terms |-> [position[1].terms EXCEPT !.sl = sl]]>>
           /\ sl # position[1].terms.sl => sl > position[1].terms.sl /\ sl >= position[1].terms.buy
<1> DEFINE verdict == Judged(s, live)
           terms == position[1].terms
           sl == Raised(terms.sl, verdict)
<1>0. position # <<>> /\ CanBeJudged(s)
      /\ position' = [position EXCEPT ![1].terms.sl = Raised(@, verdict)]
  BY DEF Hold, Judges
<1>1. position[1] \in Holding /\ position = <<position[1]>> /\ terms \in TermsType
  BY <1>0, HeldPosition
<1>2. terms.sl \in Int /\ terms.buy \in Nat
  BY <1>1 DEF TermsType
<1>3. verdict.signal = "trailing_stop" => verdict.stop \in Int /\ verdict.stop >= terms.buy
  BY <1>0, <1>1, RaisedStop DEF Judged
<1>4. sl \in Int /\ (sl # terms.sl => sl > terms.sl /\ sl >= terms.buy)
  <2> HIDE DEF verdict, terms
  <2> QED BY <1>2, <1>3 DEF Raised
<1>5. position' = <<[day |-> position[1].day, terms |-> [terms EXCEPT !.sl = sl]]>>
  <2> HIDE DEF verdict
  <2>1. ASSUME NEW h \in Holding, position = <<h>>, NEW x
        PROVE  [position EXCEPT ![1].terms.sl = x]
                 = <<[day |-> h.day, terms |-> [h.terms EXCEPT !.sl = x]]>>
    BY <2>1 DEF Holding
  <2>2. position' = [position EXCEPT ![1].terms.sl = sl]
    BY <1>0
  <2> HIDE DEF sl
  <2> QED BY <1>1, <2>1, <2>2
<1> HIDE DEF sl
<1> QED BY <1>4, <1>5

LEMMA HoldKeepsIInv ==
  ASSUME IInv, NEW s \in Snapshots, NEW live \in LivePrices, Hold(s, live)
  PROVE  IInv'
<1>1. Day(s, live) /\ trades' = trades /\ plan' = {} /\ position # <<>>
  BY DEF Hold, Judges
<1>2. Days' /\ Log' /\ day \in Nat /\ day' = day + 1
  BY <1>1, DayIsNext, LogStays
<1>3. PlanOfTheDay'
  BY <1>1 DEF PlanOfTheDay
<1>4. OpenPosition'
  <2> DEFINE old == position[1]
  <2>1. PICK sl \in Int :
          position' = <<[day |-> old.day, terms |-> [old.terms EXCEPT !.sl = sl]]>>
    BY HoldRaises
  <2>2. old \in Holding /\ old.terms \in TermsType /\ old.day \in 1 .. day /\ Bought(old.terms)
        /\ (trades # <<>> => old.day > trades[Len(trades)].to)
    BY <1>1, HeldPosition
  <2>3. old.terms # [buy |-> 0, tp |-> 0, sl |-> 0]
    <3> SUFFICES ASSUME old.terms = [buy |-> 0, tp |-> 0, sl |-> 0] PROVE FALSE
      OBVIOUS
    <3>1. old.terms.sl = 0 /\ old.terms.tp = 0
      OBVIOUS
    <3>2. ~(today'.market <= old.terms.sl) /\ ~(today'.market >= old.terms.tp)
      BY DEF Hold, Judges, HitsStop, HitsTarget
    <3>3. today'.market \in Nat
      BY <1>1, DayIsNext
    <3> HIDE DEF old
    <3> QED BY <3>1, <3>2, <3>3
  <2> HIDE DEF old
  <2> DEFINE new == [old.terms EXCEPT !.sl = sl]
             h == [day |-> old.day, terms |-> new]
  <2>4. new \in TermsType /\ new.tp = old.terms.tp /\ new.buy = old.terms.buy
    BY <2>2 DEF TermsType
  <2> HIDE DEF new
  <2>5. Bought(new)
    BY <2>2, <2>3, <2>4 DEF Bought
  <2>6. old.day \in Nat /\ old.day \in 1 .. day'
    BY <1>2, <2>2
  <2>7. h \in Holding /\ h.day = old.day /\ h.terms = new
    BY <2>4, <2>6 DEF Holding
  <2>8. position' = <<h>>
    BY <2>1 DEF new
  <2> HIDE DEF h
  <2> QED BY <1>1, <2>2, <2>5, <2>6, <2>7, <2>8 DEF OpenPosition
<1> QED BY <1>2, <1>3, <1>4 DEF IInv

LEMMA SameKeepsIInv ==
  ASSUME IInv, UNCHANGED <<day, today, plan, position, trades>> PROVE IInv'
<1>0. day' = day /\ today' = today /\ plan' = plan /\ position' = position /\ trades' = trades
  OBVIOUS
<1>1. Days'
  BY <1>0 DEF IInv, Days
<1>2. PlanOfTheDay'
  BY <1>0 DEF IInv, PlanOfTheDay
<1>3. OpenPosition'
  BY <1>0 DEF IInv, OpenPosition
<1>4. Log'
  BY <1>0 DEF IInv, Log
<1> QED BY <1>1, <1>2, <1>3, <1>4 DEF IInv

\* The three ways a position is closed.
LEMMA ExitsClose ==
  ASSUME NEW s \in Snapshots, NEW live \in LivePrices,
         StopLossHit(s, live) \/ TakeProfitHit(s, live) \/ ExitOnSignal(s, live)
  PROVE  Day(s, live) /\ position # <<>> /\ \E reason \in Reasons : Close(reason)
<1>1. CASE StopLossHit(s, live)
  BY <1>1 DEF StopLossHit, HitsStop, Reasons
<1>2. CASE TakeProfitHit(s, live)
  BY <1>2 DEF TakeProfitHit, HitsTarget, Reasons
<1>3. CASE ExitOnSignal(s, live)
  <2>1. Judged(s, live).signal \in Reasons
    BY <1>3 DEF ExitOnSignal, Reasons
  <2>2. Day(s, live) /\ position # <<>> /\ Close(Judged(s, live).signal)
    BY <1>3 DEF ExitOnSignal, Judges
  <2> HIDE DEF Close
  <2> QED BY <2>1, <2>2
<1> QED BY <1>1, <1>2, <1>3

LEMMA StepsKeepIInv == IInv /\ [Next]_vars => IInv'
<1> SUFFICES ASSUME IInv, [Next]_vars PROVE IInv'
  OBVIOUS
<1>1. ASSUME NEW s \in Snapshots, NEW live \in LivePrices,
             StopLossHit(s, live) \/ TakeProfitHit(s, live) \/ ExitOnSignal(s, live)
      PROVE  IInv'
  <2>1. Day(s, live) /\ position # <<>>
    BY <1>1, ExitsClose
  <2>2. PICK reason \in Reasons : Close(reason)
    BY <1>1, ExitsClose
  <2> QED BY <2>1, <2>2, CloseKeepsIInv
<1>2. ASSUME NEW s \in Snapshots, NEW live \in LivePrices, Hold(s, live) PROVE IInv'
  BY <1>2, HoldKeepsIInv
<1>3. ASSUME NEW s \in Snapshots, NEW live \in LivePrices, BuyOrPass(s, live) PROVE IInv'
  BY <1>3, BuyOrPassKeepsIInv
<1>4. ASSUME NEW s \in Snapshots, NEW live \in LivePrices, SkipDay(s, live) PROVE IInv'
  BY <1>4, SkipDayKeepsIInv
<1>5. CASE Finish
  BY <1>5, SameKeepsIInv DEF Finish
<1>6. CASE UNCHANGED vars
  BY <1>6, SameKeepsIInv DEF vars
<1> QED BY <1>1, <1>2, <1>3, <1>4, <1>5, <1>6 DEF Next

\* Of RunBacktest at every day, whatever the history: the four parts of IInv hold
\* together.  Buying, holding, closing, skipping a day and finishing all keep them.
THEOREM IInvHolds == Spec => []IInv
BY InitEstablishesIInv, StepsKeepIInv, PTL DEF Spec

\* Type correctness of RunBacktest: one plan and one position at most, trades that last
\* at least a day, end before the next begins and close for one of the four reasons.
THEOREM TypeCorrect == Spec => []TypeOK
<1>1. IInv => TypeOK
  <2> SUFFICES ASSUME IInv PROVE TypeOK
    OBVIOUS
  <2>1. day \in 0 .. MaxDays /\ today \in [market : Nat, live : LivePrices]
    BY DEF IInv, Days
  <2>2. Cardinality(plan) <= 1
    <3>1. Cardinality({}) = 0 /\ \A p : Cardinality({p}) = 1
      BY FS_EmptySet, FS_Singleton
    <3>2. PICK p : plan \in {{}, {p}}
      BY DEF IInv, PlanOfTheDay
    <3>3. Cardinality(plan) = 0 \/ Cardinality(plan) = 1
      BY <3>1, <3>2
    <3> QED BY <3>3
  <2>3. Len(position) <= 1 /\ \A i \in DOMAIN position :
          position[i].day \in 1 .. day /\ position[i].terms \in [buy : Nat, tp : Nat, sl : Int]
    <3>1. CASE position = <<>>
      BY <3>1
    <3>2. CASE position # <<>>
      <4>1. position = <<position[1]>> /\ position[1].day \in 1 .. day
            /\ position[1].terms \in [buy : Nat, tp : Nat, sl : Int]
        BY <3>2, HeldPosition DEF TermsType
      <4>2. Len(position) = 1 /\ DOMAIN position = {1}
        BY <4>1
      <4> QED BY <4>1, <4>2
    <3> QED BY <3>1, <3>2
  <2>4. \A i \in DOMAIN trades :
          /\ trades[i].from < trades[i].to /\ trades[i].to <= day
          /\ trades[i].held = trades[i].to - trades[i].from
          /\ trades[i].reason \in Reasons
          /\ i > 1 => trades[i].from > trades[i - 1].to
    <3>1. trades \in Seq(Trade) /\ DOMAIN trades = 1 .. Len(trades)
      BY DEF IInv, Log
    <3>2. \A i \in 1 .. Len(trades) : trades[i].reason \in Reasons
      <4> \A t \in Trade : t.reason \in Reasons
        BY DEF Trade
      <4> QED BY <3>1
    <3> QED BY <3>1, <3>2 DEF IInv, Log
  <2> QED BY <2>1, <2>2, <2>3, <2>4 DEF TypeOK
<1> QED BY <1>1, IInvHolds, PTL

\* The plan of the day, as the invariant has it.
LEMMA PlansAreMadePlans ==
  ASSUME IInv, NEW p \in plan
  PROVE  MadePlan(p)
<1>1. PICK q : plan \in {{}, {q}} /\ (plan = {q} => MadePlan(q))
  BY DEF IInv, PlanOfTheDay
<1>2. plan = {q} /\ p = q
  BY <1>1
<1> QED BY <1>1, <1>2

\* Every plan CreateTradePlan makes, by levels, buckets or the average true range, for
\* any analyses and any cached price: either no price at all, or an entry within 5% of
\* the market, a stop below it and a target at least as far above it.
THEOREM SoundPlans == Spec => []PlansAreSound
<1>1. IInv => PlansAreSound
  <2> SUFFICES ASSUME IInv, NEW p \in plan
               PROVE  LET risk == p.plan.entry - p.plan.sl
                          reward == p.plan.tp - p.plan.entry
                      IN  \/ p.plan = NoPlan
                          \/ /\ 0 < risk /\ risk <= reward
                             /\ 100 * Distance(p.plan.entry, p.market) <= 5 * p.market
                             /\ p.plan.kind # "atr" => 100 * risk >= p.plan.entry
    BY DEF PlansAreSound
  <2>1. Sound(p.plan, p.market)
    BY PlansAreMadePlans DEF MadePlan
  <2> QED BY <2>1 DEF Sound
<1> QED BY <1>1, IInvHolds, PTL

\* What CreateTradePlan calls a safe plan still has a quarter of its risk between the
\* market price and its stop.
THEOREM SafePlans == Spec => []SafePlansAreLive
<1>1. IInv => SafePlansAreLive
  BY PlansAreMadePlans DEF SafePlansAreLive, MadePlan, SafeIsLive
<1> QED BY <1>1, IInvHolds, PTL
------------------------------------------------------------------------------
\* The action properties.

LastTrade ==
  LET t == Last(trades')
  IN  /\ t.reason = "Take Profit Hit" => t.profit > 0
      /\ t.reason = "Stop Loss Hit" /\ position[1].terms.sl < t.entry => t.profit < 0
      /\ t.reason \in {"cut_loss", "take_profit"} => today'.live # 0 \/ today'.market = 0

\* What closePosition writes is the last trade of the log.
LEMMA ClosedIsLast ==
  ASSUME IInv, NEW s \in Snapshots, NEW live \in LivePrices, Day(s, live), position # <<>>,
         NEW reason, Close(reason)
  PROVE  /\ Last(trades').reason = reason
         /\ Last(trades').entry = position[1].terms.buy
         /\ Last(trades').profit = today'.market - position[1].terms.buy
         /\ today'.market \in Nat /\ position[1].terms \in TermsType /\ Bought(position[1].terms)
<1>1. today'.market \in Nat /\ position[1].terms \in TermsType /\ Bought(position[1].terms)
  BY DayIsNext, HeldPosition
<1>2. Last(trades') = Closed(reason)
  <2>1. trades \in Seq(Trade)
    BY DEF IInv, Log
  <2>2. trades' = Append(trades, Closed(reason))
    BY CloseWrites
  <2>3. \A x : Append(trades, x)[Len(Append(trades, x))] = x
    BY <2>1
  <2> QED BY <2>2, <2>3 DEF Last
<1> QED BY <1>1, <1>2 DEF Closed

\* The three ways to close a position, each with what it logs.
LEMMA StopLossIsALoss ==
  ASSUME IInv, NEW s \in Snapshots, NEW live \in LivePrices, StopLossHit(s, live)
  PROVE  LastTrade
<1>1. Day(s, live) /\ position # <<>> /\ today'.market <= position[1].terms.sl
      /\ Close("Stop Loss Hit")
  BY DEF StopLossHit, HitsStop
<1> DEFINE t == Last(trades')
           terms == position[1].terms
           market == today'.market
<1>2. t.reason = "Stop Loss Hit" /\ t.entry = terms.buy /\ t.profit = market - terms.buy
  BY <1>1, ClosedIsLast
<1>a. market \in Nat /\ terms \in TermsType
  BY <1>1, ClosedIsLast
<1>3. terms.buy \in Nat /\ terms.sl \in Int /\ market <= terms.sl
  BY <1>1, <1>a DEF TermsType
<1> HIDE DEF t, terms, market
<1>4. terms.sl < t.entry => t.profit < 0
  <2>1. \A m, b, l \in Int : m <= l /\ l < b => m - b < 0
    OBVIOUS
  <2>2. market \in Int /\ terms.buy \in Int /\ terms.sl \in Int
    BY <1>a, <1>3
  <2> QED BY <1>2, <1>3, <2>1, <2>2
<1>5. /\ t.reason = "Take Profit Hit" => t.profit > 0
      /\ t.reason \in {"cut_loss", "take_profit"} => today'.live # 0 \/ today'.market = 0
  BY <1>2
<1> QED BY <1>4, <1>5 DEF LastTrade, t, terms

LEMMA TakeProfitIsAGain ==
  ASSUME IInv, NEW s \in Snapshots, NEW live \in LivePrices, TakeProfitHit(s, live)
  PROVE  LastTrade
<1>1. Day(s, live) /\ position # <<>> /\ ~(today'.market <= position[1].terms.sl)
      /\ today'.market >= position[1].terms.tp /\ Close("Take Profit Hit")
  BY DEF TakeProfitHit, HitsTarget, HitsStop
<1> DEFINE t == Last(trades')
           terms == position[1].terms
           market == today'.market
<1>2. t.reason = "Take Profit Hit" /\ t.profit = market - terms.buy /\ Bought(terms)
  BY <1>1, ClosedIsLast
<1>a. market \in Nat /\ terms \in TermsType
  BY <1>1, ClosedIsLast
<1>3. terms.buy \in Nat /\ terms.tp \in Nat /\ terms.sl \in Int /\ ~(market <= terms.sl)
      /\ market >= terms.tp
  BY <1>1, <1>a DEF TermsType
<1> HIDE DEF t, terms, market
<1>4. t.profit > 0
  <2>0. \A m, b \in Int : b < m => m - b > 0
    OBVIOUS
  <2>1. CASE terms.tp > terms.buy
    <3> market \in Int /\ terms.buy \in Int /\ terms.buy < market
      BY <1>a, <1>3, <2>1
    <3> QED BY <1>2, <2>0
  <2>2. CASE terms = [buy |-> 0, tp |-> 0, sl |-> 0]
    <3> market \in Int /\ terms.buy \in Int /\ terms.buy < market
      <4> terms.buy = 0 /\ terms.sl = 0
        BY <2>2
      <4> QED BY <1>a, <1>3
    <3> QED BY <1>2, <2>0
  <2> QED BY <1>2, <2>1, <2>2 DEF Bought
<1>5. /\ t.reason = "Stop Loss Hit" /\ terms.sl < t.entry => t.profit < 0
      /\ t.reason \in {"cut_loss", "take_profit"} => today'.live # 0 \/ today'.market = 0
  BY <1>2
<1> QED BY <1>4, <1>5 DEF LastTrade, t, terms

LEMMA SignalNeedsLivePrice ==
  ASSUME IInv, NEW s \in Snapshots, NEW live \in LivePrices, ExitOnSignal(s, live)
  PROVE  LastTrade
<1> DEFINE t == Last(trades')
           terms == position[1].terms
           signal == Judged(s, live).signal
           levels == CalculateSupportResistance(s)
<1>1. Day(s, live) /\ position # <<>> /\ CanBeJudged(s) /\ ~HitsStop /\ ~HitsTarget
      /\ signal \in {"cut_loss", "take_profit"} /\ Close(signal)
  BY DEF ExitOnSignal, Judges
<1>2. t.reason = signal /\ today'.market \in Nat /\ terms \in TermsType
  <2> HIDE DEF signal
  <2> QED BY <1>1, ClosedIsLast
<1>3. today'.market = Last(s).price /\ today'.live = live
  BY <1>1, DayIsNext
<1>4. terms.sl < today'.market /\ today'.market < terms.tp
  <2>1. ~(today'.market <= terms.sl) /\ ~(today'.market >= terms.tp)
    BY <1>1 DEF HitsStop, HitsTarget
  <2>2. terms.sl \in Int /\ terms.tp \in Nat
    BY <1>2 DEF TermsType
  <2> HIDE DEF terms
  <2> QED BY <1>2, <2>1, <2>2
<1>5. signal = Evaluate(terms, s, levels.supports, levels.resistances, live).signal
  BY DEF Judged
<1> HIDE DEF t, terms, signal, levels
<1>6. today'.live # 0 \/ today'.market = 0
  BY <1>1, <1>2, <1>3, <1>4, <1>5, NoExitBetween
<1>7. t.reason # "Take Profit Hit" /\ t.reason # "Stop Loss Hit"
  BY <1>1, <1>2
<1> QED BY <1>6, <1>7 DEF LastTrade, t

\* No other step adds a trade.
LEMMA LogGrowsByClosing ==
  ASSUME IInv, [Next]_vars, Len(trades') > Len(trades)
  PROVE  \E s \in Snapshots, live \in LivePrices :
           StopLossHit(s, live) \/ TakeProfitHit(s, live) \/ ExitOnSignal(s, live)
<1>1. trades' # trades
  <2>1. trades \in Seq(Trade)
    BY DEF IInv, Log
  <2>2. Len(trades) \in Nat
    BY <2>1
  <2> QED BY <2>2
<1>2. ASSUME NEW s \in Snapshots, NEW live \in LivePrices,
             Hold(s, live) \/ BuyOrPass(s, live) \/ SkipDay(s, live)
      PROVE  trades' = trades
  BY <1>2 DEF Hold, BuyOrPass, SkipDay
<1>3. Finish \/ UNCHANGED vars => trades' = trades
  BY DEF Finish, vars
<1> QED BY <1>1, <1>2, <1>3 DEF Next

\* The log of closePosition: a target hit is a gain, a stop that was never raised to the
\* entry is a loss, and the rules of evaluatePositionWithReasons close nothing by the
\* day's own price that the stop and the target did not.
THEOREM ReasonsOfExits == Spec => ExitsMatchReasons
<1>1. IInv /\ [Next]_vars => [Len(trades') > Len(trades) => LastTrade]_vars
  <2> SUFFICES ASSUME IInv, [Next]_vars, Len(trades') > Len(trades) PROVE LastTrade
    OBVIOUS
  <2> QED BY LogGrowsByClosing, StopLossIsALoss, TakeProfitIsAGain, SignalNeedsLivePrice
<1>2. (Len(trades') > Len(trades) => LastTrade) <=>
        (Len(trades') > Len(trades) =>
       LET t == Last(trades')
       IN  /\ t.reason = "Take Profit Hit" => t.profit > 0
           /\ t.reason = "Stop Loss Hit" /\ position[1].terms.sl < t.entry => t.profit < 0
           /\ t.reason \in {"cut_loss", "take_profit"} => today'.live # 0 \/ today'.market = 0)
  BY DEF LastTrade
<1> QED BY <1>1, <1>2, IInvHolds, PTL DEF Spec, ExitsMatchReasons

TermsStay ==
  LET old == position[1].terms
      new == position'[1].terms
  IN  /\ new = [old EXCEPT !.sl = new.sl]
      /\ new.sl # old.sl => new.sl > old.sl /\ new.sl >= old.buy

\* The terms of a position that is held, when its stop is not raised and when it is.
LEMMA SameTerms ==
  ASSUME IInv, position # <<>>, position' = position PROVE TermsStay
<1>1. position[1].terms \in TermsType
  BY HeldPosition
<1>2. \A x \in TermsType : x = [x EXCEPT !.sl = x.sl]
  BY DEF TermsType
<1> QED BY <1>1, <1>2 DEF TermsStay

LEMMA HeldTerms ==
  ASSUME IInv, NEW s \in Snapshots, NEW live \in LivePrices, Hold(s, live) PROVE TermsStay
<1> DEFINE old == position[1].terms
<1>1. PICK sl \in Int :
        /\ position' = <<[day |-> position[1].day, terms |-> [old EXCEPT !.sl = sl]]>>
        /\ sl # old.sl => sl > old.sl /\ sl >= old.buy
  BY HoldRaises
<1>2. old \in TermsType
  BY HeldPosition DEF Hold, Judges
<1>3. position'[1].terms = [old EXCEPT !.sl = sl] /\ [old EXCEPT !.sl = sl].sl = sl
  BY <1>1, <1>2 DEF TermsType
<1> HIDE DEF old
<1> QED BY <1>1, <1>3 DEF TermsStay, old

\* RunBacktest holds a position on the terms it bought it on, except that the trailing
\* stop of the evaluation may raise the stop, and only to the entry or above.
THEOREM RisingStop == Spec => StopOnlyRises
<1>1. IInv /\ [Next]_vars => [position # <<>> /\ position' # <<>> => TermsStay]_vars
  <2> SUFFICES ASSUME IInv, [Next]_vars, position # <<>>, position' # <<>> PROVE TermsStay
    OBVIOUS
  <2>1. ASSUME NEW s \in Snapshots, NEW live \in LivePrices,
               StopLossHit(s, live) \/ TakeProfitHit(s, live) \/ ExitOnSignal(s, live)
        PROVE  FALSE
    <3> PICK reason \in Reasons : Close(reason)
      BY <2>1, ExitsClose
    <3> QED BY CloseWrites
  <2>2. ASSUME NEW s \in Snapshots, NEW live \in LivePrices, Hold(s, live) PROVE TermsStay
    BY <2>2, HeldTerms
  <2>3. ASSUME NEW s \in Snapshots, NEW live \in LivePrices, BuyOrPass(s, live) PROVE FALSE
    BY <2>3 DEF BuyOrPass
  <2>4. ASSUME NEW s \in Snapshots, NEW live \in LivePrices, SkipDay(s, live) PROVE TermsStay
    BY <2>4, SameTerms DEF SkipDay
  <2>5. Finish \/ UNCHANGED vars => TermsStay
    BY SameTerms DEF Finish, vars
  <2> QED BY <2>1, <2>2, <2>3, <2>4, <2>5 DEF Next
<1>2. (position # <<>> /\ position' # <<>> => TermsStay) <=>
        (position # <<>> /\ position' # <<>> =>
       LET old == position[1].terms
           new == position'[1].terms
       IN  /\ new = [old EXCEPT !.sl = new.sl]
           /\ new.sl # old.sl => new.sl > old.sl /\ new.sl >= old.buy)
  BY DEF TermsStay
<1> QED BY <1>1, <1>2, IInvHolds, PTL DEF Spec, StopOnlyRises
=============================================================================
