------------------------------ MODULE ScoreRules ------------------------------
(***************************************************************************)
(* Who wins a PvP blind, and when it may be decided before all hands are   *)
(* played.  Entries are the players of a solo lobby or the teams of a      *)
(* teams lobby; t maps each entry to its score, an InsaneInt, and playing  *)
(* is the set of entries with hands left.                                  *)
(***************************************************************************)
EXTENDS InsaneInt, Folds

CONSTANTS
  Tables,  \* bound: the tables of scores the rules are tried on
  Added    \* bound: what the last entry with hands left may add

ASSUME TablesAssumption ==
  /\ \A t \in Tables :
       /\ IsFiniteSet(DOMAIN t) /\ DOMAIN t # {}
       /\ t = [e \in DOMAIN t |-> Plain(t[e].num)] /\ \A e \in DOMAIN t : t[e].num \in Nat
  /\ Added \subseteq Nat

Rules == {"highest", "average", "median", "geometric", "custom"}

Over(t, e, f) == GreaterThan(t[e], t[f])

\* sumScoreValues, highestScore
Total(t) == MapThenFoldSet(Add, Zero, LAMBDA e : t[e], LAMBDA S : CHOOSE e \in S : TRUE, DOMAIN t)
Highest(t) == {e \in DOMAIN t : \A f \in DOMAIN t : ~Over(t, f, e)}

\* averageScore: divided by the number of scores
Average(t) == Div(Total(t), Cardinality(DOMAIN t))

\* the score at position k of the scores in ascending order
AtPosition(t, k) ==
  t[CHOOSE e \in DOMAIN t :
      /\ Cardinality({f \in DOMAIN t : Over(t, e, f)}) < k
      /\ Cardinality({f \in DOMAIN t : ~Over(t, f, e)}) >= k]

Median(t) ==
  LET n == Cardinality(DOMAIN t) IN
  IF n % 2 = 1 THEN AtPosition(t, n \div 2 + 1)
  ELSE Div(Add(AtPosition(t, n \div 2), AtPosition(t, n \div 2 + 1)), 2)

Times(x, y) == [num |-> x.num * y.num, den |-> x.den * y.den, exp |-> 0]
Product(t) ==
  MapThenFoldSet(Times, Plain(1), LAMBDA e : t[e], LAMBDA S : CHOOSE e \in S : TRUE, DOMAIN t)

\* the logarithm of the score exceeds the mean logarithm, that is, its power the product
\* of all scores; a zero lowers the mean to zero
OverGeometricMean(t, e) ==
  IF \E f \in DOMAIN t : ~GreaterThan(t[f], Zero) THEN GreaterThan(t[e], Zero)
  ELSE GreaterThan(Product([f \in DOMAIN t |-> t[e]]), Product(t))

\* scoreBeatsRuleTarget
BeatsTarget(rule, t, e) ==
  \/ rule = "average" /\ GreaterThan(t[e], Average(t))
  \/ rule = "median" /\ GreaterThan(t[e], Median(t))
  \/ rule = "geometric" /\ OverGeometricMean(t, e)

Smaller(m, n) == IF m < n THEN m ELSE n

\* getLobbyCustomWinnerCount: at most all but one of the entries, at least one
WinnerCount(n, configured, maxPlayers) ==
  Larger(1, Smaller(configured, Smaller(Larger(1, maxPlayers - 1), Larger(1, n - 1))))

CutoffPastTies(t, count) ==  \* fault: the first score below the count
  t[CHOOSE e \in DOMAIN t : Cardinality({f \in DOMAIN t : Over(t, f, e)}) <= count
      /\ \A g \in DOMAIN t : Over(t, e, g) => Cardinality({f \in DOMAIN t : Over(t, f, g)}) > count]

\* getCustomWinningScore: the score at place count of the scores in descending order
Cutoff(t, count) == AtPosition(t, Cardinality(DOMAIN t) + 1 - count)

\* resolveWinningPlayers, resolveWinningTeams; count is WinnerCount of the lobby
Winners(rule, t, count) ==
  LET over == {e \in DOMAIN t : BeatsTarget(rule, t, e)} IN
  IF rule = "custom" THEN {e \in DOMAIN t : ~LessThan(t[e], Cutoff(t, count))}
  ELSE IF over # {} THEN over ELSE Highest(t)

EarlyWhenAhead(rule, t, playing) ==  \* fault: the others are not asked
  \/ playing = {}
  \/ \E e \in playing : playing = {e} /\ DOMAIN t # {e} /\
       IF rule = "highest" THEN \A f \in DOMAIN t \ {e} : Over(t, e, f)
       ELSE BeatsTarget(rule, t, e)

\* the only entry with hands left has won already, whatever it adds
MayResolve(rule, t, playing) ==
  \/ playing = {}
  \/ \E e \in playing :
       /\ playing = {e}
       /\ IF rule = "highest" THEN \A f \in DOMAIN t \ {e} : Over(t, e, f)
          ELSE /\ DOMAIN t # {e} /\ BeatsTarget(rule, t, e)
               /\ \A f \in DOMAIN t \ {e} : ~BeatsTarget(rule, t, f)

\* isDuelPairResolved: who is out of hands must be behind
PairResolved(t, playing) ==
  \/ playing = {}
  \/ \E e \in playing : playing = {e} /\ \A f \in DOMAIN t \ {e} : Over(t, e, f)

------------------------------------------------------------------------------
(* What the rules promise, for tables of plain scores *)

SumOf(s) ==
  MapThenFoldSet(LAMBDA x, y : x + y, 0, LAMBDA e : s[e], LAMBDA S : CHOOSE e \in S : TRUE, DOMAIN s)
ProductOf(s) ==
  MapThenFoldSet(LAMBDA x, y : x * y, 1, LAMBDA e : s[e], LAMBDA S : CHOOSE e \in S : TRUE, DOMAIN s)

NumberOf(t) == [e \in DOMAIN t |-> t[e].num]

\* The m entries A have the lowest scores, the highest of them is that of f.
Lowest(s, m, A, f) ==
  /\ Cardinality(A) = m /\ f \in A
  /\ \A a \in A : s[a] <= s[f] /\ \A b \in DOMAIN s \ A : s[a] <= s[b]

\* who is over the mean, the median or the geometric mean in exact arithmetic
ExactlyOver(rule, s) ==
  LET N == DOMAIN s
      n == Cardinality(N)
  IN  CASE rule = "average" -> {e \in N : s[e] * n > SumOf(s)}
        [] rule = "median" ->
             {e \in N : \E A, B \in SUBSET N : \E f \in A, h \in B :
                /\ Lowest(s, (n + 1) \div 2, A, f) /\ Lowest(s, n \div 2 + 1, B, h)
                /\ 2 * s[e] > s[f] + s[h]}
        [] rule = "geometric" ->
             {e \in N : ProductOf([f \in N |-> s[e]]) > ProductOf(s)}
        [] OTHER -> {}

Best(s) == {e \in DOMAIN s : \A f \in DOMAIN s : s[f] <= s[e]}

\* who wins by the rule in exact arithmetic
Reference(rule, s, count) ==
  IF rule = "custom" THEN {e \in DOMAIN s : Cardinality({f \in DOMAIN s : s[f] > s[e]}) < count}
  ELSE IF ExactlyOver(rule, s) = {} THEN Best(s) ELSE ExactlyOver(rule, s)

\* t once the entry e has added more to its score
Later(t, e, more) == [t EXCEPT ![e] = Plain(t[e].num + more)]
=============================================================================
