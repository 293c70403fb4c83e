------------------------ MODULE DecisionPipeline_proofs ------------------------
(***************************************************************************)
(* What a decision promises for all readings, cards and accounts: the lots *)
(* stay within the risk budget, the validator moves them by one tier, the  *)
(* invalidator asks for no less than the tools whose checks it makes, no   *)
(* direction is favoured, and the filters of a backtest are the tools.     *)
(***************************************************************************)
EXTENDS BacktestFilters, WellFoundedInduction, TLAPS

-----------------------------------------------------------------------------
(* Minima, maxima and rounding *)

LEMMA MaxOfTwo ==
  ASSUME NEW a \in Int, NEW b \in Int
  PROVE  Max({a, b}) = IF a >= b THEN a ELSE b
<1>1. \E x \in {a, b} : \A y \in {a, b} : x >= y
  OBVIOUS
<1>2. Max({a, b}) \in {a, b} /\ \A y \in {a, b} : Max({a, b}) >= y
  BY <1>1 DEF Max
<1> QED
  BY <1>2

LEMMA MinOfTwo ==
  ASSUME NEW a \in Int, NEW b \in Int
  PROVE  Min({a, b}) = IF a <= b THEN a ELSE b
<1>1. \E x \in {a, b} : \A y \in {a, b} : x <= y
  OBVIOUS
<1>2. Min({a, b}) \in {a, b} /\ \A y \in {a, b} : Min({a, b}) <= y
  BY <1>1 DEF Min
<1> QED
  BY <1>2

LEMMA Floor ==
  ASSUME NEW a \in Nat, NEW b \in Int, b > 0
  PROVE  a \div b \in Nat /\ b * (a \div b) <= a /\ a < b * (a \div b) + b
OBVIOUS

\* Order and products.
LEMMA Times ==
  ASSUME NEW a \in Int, NEW b \in Int, NEW c \in Nat, a <= b
  PROVE  a * c <= b * c
OBVIOUS

\* The quotient is the largest whole number of times that b fits.
LEMMA FloorIsLargest ==
  ASSUME NEW a \in Nat, NEW b \in Int, b > 0, NEW q \in Int, b * q <= a
  PROVE  q <= a \div b
<1>1. a < b * (a \div b) + b /\ a \div b \in Nat
  BY Floor
<1> DEFINE k == a \div b
<1> HIDE DEF k
<1>2. CASE q >= k + 1
  <2>1. (k + 1) * b <= q * b
    BY <1>1, <1>2, Times DEF k
  <2> QED
    BY <1>1, <2>1 DEF k
<1> QED
  BY <1>1, <1>2 DEF k

-----------------------------------------------------------------------------
(* The lots *)

AccountTypes ==
    /\ Account.balance \in Nat /\ Account.risk \in Nat /\ Account.riskMin \in Nat /\ Account.risk >= 10
    /\ Account.pipValue \in Int /\ Account.pipValue > 0
    /\ Account.marginPerLot \in Int /\ Account.marginPerLot > 0
    /\ Account.slMin \in Int /\ Account.slMin > 0 /\ Account.slMax \in Int /\ Account.slMax > 0

LEMMA AccountIsTyped == AccountTypes
BY PipelineAssumption DEF AccountTypes

\* The priced stop covers the stop with its buffer, or at least the stop.
LEMMA PricedStopCovers ==
  ASSUME NEW points \in Int
  PROVE  LET stop == PricedStop(points, Account) IN
         /\ stop \in Int /\ stop > 0
         /\ 115 * points <= 100 * Account.slMax => stop >= 115 * points
         /\ points <= Account.slMax => stop >= 100 * points
<1> DEFINE low == Max({points * 115, Account.slMin * 100})
<1>1. low = IF points * 115 >= Account.slMin * 100 THEN points * 115 ELSE Account.slMin * 100
  BY MaxOfTwo, AccountIsTyped DEF AccountTypes
<1>2. low \in Int
  BY <1>1, AccountIsTyped DEF AccountTypes
<1> HIDE DEF low
<1>3. PricedStop(points, Account) = IF low <= Account.slMax * 100 THEN low ELSE Account.slMax * 100
  BY <1>2, MinOfTwo, AccountIsTyped DEF AccountTypes, PricedStop, low
<1> QED
  BY <1>1, <1>2, <1>3, AccountIsTyped DEF AccountTypes

Tiers == {50, 75, 100, 125}

LEMMA TierTypes ==
  ASSUME NEW c \in 0 .. 200
  PROVE  RiskTier(c) \in Tiers
BY DEF RiskTier, Tiers

\* The risk before the tier: cut by at most 12 %, never below the minimum.
RiskScore(confidence) == Min({84, confidence \div 2 + 20})
CutRisk(score) ==
    IF score > 60 THEN (Account.risk * (1000 - (score - 60) * 5)) \div 1000 ELSE Account.risk
TakenRisk(confidence) == Max({CutRisk(RiskScore(confidence)), Account.riskMin})

LEMMA ShareOfTaken ==
  ASSUME NEW c
  PROVE  RiskShare(c, Account) = (TakenRisk(c) * RiskTier(c)) \div 100
BY DEF RiskShare, TakenRisk, CutRisk, RiskScore

\* Every risk taken lies between 88 % of the risk and the risk, or is the minimum, and a
\* higher confidence takes no more.
LEMMA TakenRiskBounds ==
  ASSUME NEW c \in 0 .. 200
  PROVE  /\ TakenRisk(c) \in Nat /\ TakenRisk(c) >= 8
         /\ \A v \in 0 .. 200 : v >= c => TakenRisk(v) <= TakenRisk(c)
         /\ \A v \in 0 .. 200 : 100 * TakenRisk(v) <= 114 * TakenRisk(c) + 114
<1>1. ASSUME NEW x \in 0 .. 200
      PROVE  RiskScore(x) = IF 84 <= x \div 2 + 20 THEN 84 ELSE x \div 2 + 20
  <2>1. 84 \in Int /\ x \div 2 + 20 \in Int
    OBVIOUS
  <2> QED
    BY <2>1, MinOfTwo, Zenon DEF RiskScore
<1>2. ASSUME NEW x \in 0 .. 200 PROVE RiskScore(x) \in 20 .. 84
  BY <1>1
<1>3. ASSUME NEW s \in 20 .. 84
      PROVE  /\ CutRisk(s) \in Nat /\ 1000 * CutRisk(s) + 1000 > 880 * Account.risk
             /\ CutRisk(s) <= Account.risk
  BY AccountIsTyped DEF AccountTypes, CutRisk
<1>4. ASSUME NEW s \in 20 .. 84, NEW u \in 20 .. 84, u >= s
      PROVE  CutRisk(u) <= CutRisk(s)
  BY <1>4, AccountIsTyped DEF AccountTypes, CutRisk
<1>5. ASSUME NEW x \in 0 .. 200, NEW y \in 0 .. 200, y >= x
      PROVE  RiskScore(y) >= RiskScore(x)
  <2>1. x \div 2 \in Int /\ y \div 2 \in Int /\ y \div 2 >= x \div 2
    BY <1>5
  <2> QED
    BY <1>1, <2>1
<1>6. ASSUME NEW x \in 0 .. 200
      PROVE  TakenRisk(x) = IF CutRisk(RiskScore(x)) >= Account.riskMin THEN CutRisk(RiskScore(x)) ELSE Account.riskMin
  <2>1. RiskScore(x) \in 20 .. 84
    BY <1>2
  <2>2. CutRisk(RiskScore(x)) \in Int
    BY <1>3, <2>1
  <2>3. Account.riskMin \in Int
    BY AccountIsTyped DEF AccountTypes
  <2> QED
    BY <2>2, <2>3, MaxOfTwo DEF TakenRisk
<1> DEFINE cut(x) == CutRisk(RiskScore(x))
<1>7. ASSUME NEW x \in 0 .. 200
      PROVE  /\ cut(x) \in Nat /\ 1000 * cut(x) + 1000 > 880 * Account.risk
             /\ cut(x) <= Account.risk
  <2>1. RiskScore(x) \in 20 .. 84
    BY <1>2
  <2> QED
    BY <1>3, <2>1
<1>8. ASSUME NEW x \in 0 .. 200, NEW y \in 0 .. 200, y >= x
      PROVE  cut(y) <= cut(x)
  <2>1. RiskScore(x) \in 20 .. 84 /\ RiskScore(y) \in 20 .. 84 /\ RiskScore(y) >= RiskScore(x)
    BY <1>2, <1>5, <1>8
  <2> QED
    BY <1>4, <2>1
<1>9. ASSUME NEW x \in 0 .. 200
      PROVE  TakenRisk(x) = IF cut(x) >= Account.riskMin THEN cut(x) ELSE Account.riskMin
  BY <1>6
<1> HIDE DEF cut
<1> DEFINE risk == Account.risk
           least == Account.riskMin
<1>10. risk \in Nat /\ risk >= 10 /\ least \in Nat
  BY AccountIsTyped DEF AccountTypes
<1> HIDE DEF risk, least
<1>11. ASSUME NEW x \in 0 .. 200
       PROVE  /\ cut(x) \in Nat /\ 1000 * cut(x) + 1000 > 880 * risk /\ cut(x) <= risk
              /\ TakenRisk(x) = IF cut(x) >= least THEN cut(x) ELSE least
  BY <1>7, <1>9 DEF risk, least
<1>12. TakenRisk(c) \in Nat /\ TakenRisk(c) >= 8
  <2>1. cut(c) \in Nat /\ 1000 * cut(c) + 1000 > 880 * risk
    BY <1>11
  <2>2. TakenRisk(c) = IF cut(c) >= least THEN cut(c) ELSE least
    BY <1>11
  <2>3. cut(c) >= 8
    BY <1>10, <2>1
  <2> QED
    BY <1>10, <2>1, <2>2, <2>3
<1>13. ASSUME NEW v \in 0 .. 200, v >= c
       PROVE  TakenRisk(v) <= TakenRisk(c)
  <2>1. /\ TakenRisk(c) = IF cut(c) >= least THEN cut(c) ELSE least
        /\ TakenRisk(v) = IF cut(v) >= least THEN cut(v) ELSE least
    BY <1>11
  <2>2. cut(c) \in Nat /\ cut(v) \in Nat
    BY <1>11
  <2>3. cut(v) <= cut(c)
    BY <1>8, <1>13
  <2> QED
    BY <1>10, <2>1, <2>2, <2>3
<1>14. ASSUME NEW v \in 0 .. 200
       PROVE  100 * TakenRisk(v) <= 114 * TakenRisk(c) + 114
  <2>1. /\ TakenRisk(c) = IF cut(c) >= least THEN cut(c) ELSE least
        /\ TakenRisk(v) = IF cut(v) >= least THEN cut(v) ELSE least
    BY <1>11
  <2>2. cut(c) \in Nat /\ cut(v) \in Nat /\ 1000 * cut(c) + 1000 > 880 * risk /\ cut(v) <= risk
    BY <1>11
  <2> QED
    BY <1>10, <2>1, <2>2
<1> QED
  BY <1>12, <1>13, <1>14

LEMMA TakenRiskTypes ==
  ASSUME NEW c \in 0 .. 200
  PROVE  TakenRisk(c) \in Nat /\ TakenRisk(c) >= 8
BY TakenRiskBounds, Zenon

LEMMA HigherTakesNoMore ==
  ASSUME NEW v \in 0 .. 200, NEW c \in 0 .. 200
  PROVE  (v >= c => TakenRisk(v) <= TakenRisk(c)) /\ 100 * TakenRisk(v) <= 114 * TakenRisk(c) + 114
BY TakenRiskBounds, Zenon

LEMMA ShareTypes ==
  ASSUME NEW c \in 0 .. 200
  PROVE  RiskShare(c, Account) \in Nat
         /\ 100 * RiskShare(c, Account) <= TakenRisk(c) * RiskTier(c)
         /\ TakenRisk(c) * RiskTier(c) < 100 * RiskShare(c, Account) + 100
<1>1. TakenRisk(c) \in Nat /\ RiskTier(c) \in Nat
  BY TakenRiskTypes, TierTypes DEF Tiers
<1>2. TakenRisk(c) * RiskTier(c) \in Nat
  BY <1>1
<1> QED
  BY <1>2, ShareOfTaken, Floor

Raw(points, c) ==
    (Account.balance * RiskShare(c, Account)) \div (100 * PricedStop(points, Account) * Account.pipValue)
MarginCap == (Account.balance * 30) \div Account.marginPerLot

\* The cost of a lot at the priced stop is positive.
LEMMA LotCost ==
  ASSUME NEW points \in Int
  PROVE  100 * PricedStop(points, Account) * Account.pipValue \in Int
         /\ 100 * PricedStop(points, Account) * Account.pipValue > 0
<1>1. PricedStop(points, Account) \in Int /\ PricedStop(points, Account) > 0
  BY PricedStopCovers
<1>2. Account.pipValue \in Int /\ Account.pipValue > 0
  BY AccountIsTyped DEF AccountTypes
<1> QED
  BY <1>1, <1>2

LEMMA RawTypes ==
  ASSUME NEW points \in Int, NEW c \in 0 .. 200
  PROVE  Raw(points, c) \in Nat /\ MarginCap \in Nat
<1>1. Account.balance * RiskShare(c, Account) \in Nat /\ Account.balance * 30 \in Nat
  BY ShareTypes, AccountIsTyped DEF AccountTypes
<1>2. Account.marginPerLot \in Int /\ Account.marginPerLot > 0
  BY AccountIsTyped DEF AccountTypes
<1>3. MarginCap \in Nat
  BY <1>1, <1>2, Floor DEF MarginCap
<1> QED
  BY <1>1, <1>3, LotCost, Floor DEF Raw

\* The lots before the caps cost no more than the budget.
LEMMA RawIsPaid ==
  ASSUME NEW points \in Int, NEW c \in 0 .. 200
  PROVE  (100 * PricedStop(points, Account) * Account.pipValue) * Raw(points, c)
           <= Account.balance * RiskShare(c, Account)
<1> DEFINE x == Account.balance * RiskShare(c, Account)
           y == 100 * PricedStop(points, Account) * Account.pipValue
<1>1. x \in Nat
  BY ShareTypes, AccountIsTyped DEF AccountTypes
<1>2. y \in Int /\ y > 0
  BY LotCost
<1>3. Raw(points, c) = x \div y
  BY Zenon DEF Raw
<1> HIDE DEF x, y
<1>4. y * (x \div y) <= x
  BY <1>1, <1>2, Floor
<1> QED
  BY <1>3, <1>4 DEF x, y

AtLeastOne(x) == IF x >= 1 THEN x ELSE 1
Capped(points, c) ==
    IF AtLeastOne(Raw(points, c)) <= MarginCap THEN AtLeastOne(Raw(points, c)) ELSE MarginCap

LEMMA LotsAreCapped ==
  ASSUME NEW points \in Int, NEW c \in 0 .. 200
  PROVE  Capped(points, c) \in Nat /\ Lots(points, c, Account) = AtLeastOne(Capped(points, c))
<1>1. Raw(points, c) \in Nat /\ MarginCap \in Nat
  BY RawTypes
<1>2. Max({1, Raw(points, c)}) = AtLeastOne(Raw(points, c)) /\ AtLeastOne(Raw(points, c)) \in Nat
  BY <1>1, MaxOfTwo DEF AtLeastOne
<1>3. Min({AtLeastOne(Raw(points, c)), MarginCap}) = Capped(points, c)
  BY <1>1, <1>2, MinOfTwo DEF Capped
<1>4. Capped(points, c) \in Nat
  BY <1>1, <1>2 DEF Capped
<1>5. Max({1, Capped(points, c)}) = AtLeastOne(Capped(points, c))
  BY <1>4, MaxOfTwo DEF AtLeastOne
<1>6. Lots(points, c, Account) = Max({1, Min({Max({1, Raw(points, c)}), MarginCap})})
  BY Zenon DEF Lots, Raw, MarginCap, MinLots
<1> QED
  BY <1>2, <1>3, <1>4, <1>5, <1>6

LEMMA LotsWithinRaw ==
  ASSUME NEW points \in Int, NEW c \in 0 .. 200
  PROVE  /\ Lots(points, c, Account) \in Nat
         /\ Lots(points, c, Account) > 1 => Lots(points, c, Account) <= Raw(points, c)
<1>1. Raw(points, c) \in Nat /\ MarginCap \in Nat
  BY RawTypes
<1>2. Lots(points, c, Account) = AtLeastOne(Capped(points, c))
  BY LotsAreCapped
<1> QED
  BY <1>1, <1>2 DEF AtLeastOne, Capped

\* All the scalars together, in 1/400000: at most 1.1.
Scale(conviction_, regimeSize, fresh, gateSize, equity) ==
    (conviction_ \div 20) * (regimeSize \div 10) * fresh * (gateSize \div 50) * (equity \div 25)

LEMMA FiveFactors ==
  ASSUME NEW a \in 0 .. 5, NEW b \in 0 .. 11, NEW f \in Nat, f <= 1000, NEW x \in 0 .. 2, NEW y \in 0 .. 4
  PROVE  a * b * f * x * y \in Nat /\ a * b * f * x * y <= 440000
<1> DEFINE ab == a * b
           abf == ab * f
           abfx == abf * x
<1>1. ab \in Nat /\ ab <= 55
  OBVIOUS
<1> HIDE DEF ab
<1>2. abf \in Nat /\ abf <= 55000
  <2>1. ab * f <= 55 * f
    BY <1>1, Times
  <2> QED
    BY <1>1, <2>1
<1> HIDE DEF abf
<1>3. abfx \in Nat /\ abfx <= 110000
  BY <1>2
<1> HIDE DEF abfx
<1>4. abfx * y \in Nat /\ abfx * y <= 440000
  BY <1>3
<1> QED
  BY <1>4 DEF ab, abf, abfx

Scalars(v, r, f, g, e) ==
    /\ v \in {0, 60, 100} /\ r \in {60, 80, 100, 110} /\ f \in Nat /\ f <= 1000
    /\ g \in Nat /\ g <= 100 /\ e \in {100, 75, 50, 25}

LEMMA ScaleBound ==
  ASSUME NEW v, NEW r, NEW f, NEW g, NEW e, Scalars(v, r, f, g, e)
  PROVE  Scale(v, r, f, g, e) \in Nat /\ Scale(v, r, f, g, e) <= 440000
<1> DEFINE vv == v \div 20
           rr == r \div 10
           gg == g \div 50
           ee == e \div 25
<1>1. vv \in 0 .. 5 /\ rr \in 0 .. 11 /\ f \in Nat /\ f <= 1000
  BY DEF Scalars
<1>2. gg \in 0 .. 2 /\ ee \in 0 .. 4
  BY DEF Scalars
<1>3. Scale(v, r, f, g, e) = vv * rr * f * gg * ee
  BY Zenon DEF Scale
<1> HIDE DEF vv, rr, gg, ee
<1> QED
  BY <1>1, <1>2, <1>3, FiveFactors

LEMMA Regroup ==
  ASSUME NEW n \in Int, NEW a \in Int, NEW b \in Int, NEW f \in Int, NEW x \in Int, NEW y \in Int
  PROVE  n * a * b * f * x * y = n * (a * b * f * x * y)
OBVIOUS

\* The nearest whole number of lots.
Rounded(x) == (2 * x + 400000) \div 800000

LEMMA ScaledForm ==
  ASSUME NEW n \in Nat, NEW v, NEW r, NEW f, NEW g, NEW e, Scalars(v, r, f, g, e)
  PROVE  Scaled(n, v, r, f, g, e) = AtLeastOne(Rounded(n * Scale(v, r, f, g, e)))
<1> DEFINE vv == v \div 20
           rr == r \div 10
           gg == g \div 50
           ee == e \div 25
           x == n * vv * rr * f * gg * ee
<1>1. vv \in Int /\ rr \in Int /\ gg \in Int /\ ee \in Int /\ f \in Int
  BY DEF Scalars
<1>2. Scale(v, r, f, g, e) = vv * rr * f * gg * ee
  BY Zenon DEF Scale
<1>3. Scaled(n, v, r, f, g, e)
        = Max({1, (2 * x + 5 * 10 * 1000 * 2 * 4) \div (2 * (5 * 10 * 1000 * 2 * 4))})
  BY Zenon DEF Scaled, MinLots
<1> HIDE DEF vv, rr, gg, ee
<1>4. x = n * Scale(v, r, f, g, e) /\ x \in Int
  <2>1. x = n * (vv * rr * f * gg * ee)
    BY <1>1, Regroup
  <2>2. vv * rr * f * gg * ee \in Int
    BY <1>1
  <2> QED
    BY <1>2, <2>1, <2>2
<1> HIDE DEF x
<1>5. Scaled(n, v, r, f, g, e) = Max({1, Rounded(x)})
  BY <1>3, <1>4 DEF Rounded
<1>6. Rounded(x) \in Int
  BY <1>4 DEF Rounded
<1> QED
  BY <1>4, <1>5, <1>6, MaxOfTwo DEF AtLeastOne

\* Scaling and rounding add a tenth and half a lot at most.
LEMMA ScaledIsWithin ==
  ASSUME NEW n \in Nat, NEW v, NEW r, NEW f, NEW g, NEW e, Scalars(v, r, f, g, e)
  PROVE  LET q == Scaled(n, v, r, f, g, e)
         IN  q \in Nat /\ q >= 1 /\ (q > 1 => 5 * (2 * q - 1) <= 11 * n)
<1> DEFINE K == Scale(v, r, f, g, e)
<1>1. K \in Nat /\ K <= 440000
  BY ScaleBound
<1> HIDE DEF K
<1> DEFINE x == n * K
<1>2. x \in Nat
  BY <1>1
<1>3. x <= 440000 * n
  BY <1>1, Times
<1> HIDE DEF x
<1>4. Rounded(x) \in Nat /\ 800000 * Rounded(x) <= 2 * x + 400000
  BY <1>2 DEF Rounded
<1>5. Scaled(n, v, r, f, g, e) = AtLeastOne(Rounded(x))
  BY ScaledForm DEF x, K
<1> QED
  BY <1>3, <1>4, <1>5, <1>2 DEF AtLeastOne

\* Lots that double before the scaling double after it, up to two steps of rounding.
LEMMA ScaledDoubles ==
  ASSUME NEW n \in Nat, NEW k \in Nat, k <= 2 * n + 1,
         NEW v, NEW r, NEW f, NEW g, NEW e, Scalars(v, r, f, g, e)
  PROVE  Scaled(k, v, r, f, g, e) <= 2 * Scaled(n, v, r, f, g, e) + 2
<1> DEFINE K == Scale(v, r, f, g, e)
<1>1. K \in Nat /\ K <= 440000
  BY ScaleBound
<1>2. /\ Scaled(n, v, r, f, g, e) = AtLeastOne(Rounded(n * K))
      /\ Scaled(k, v, r, f, g, e) = AtLeastOne(Rounded(k * K))
  BY ScaledForm
<1> HIDE DEF K
<1> DEFINE x == n * K
           y == k * K
<1>3. x \in Nat /\ y \in Nat
  BY <1>1
<1>4. y <= 2 * x + K
  <2> DEFINE m == 2 * n + 1
  <2>1. m \in Int /\ k <= m
    OBVIOUS
  <2>2. m * K = 2 * (n * K) + K
    BY <1>1
  <2> HIDE DEF m
  <2>3. k * K <= m * K
    BY <1>1, <2>1, Times
  <2> QED
    BY <2>2, <2>3
<1> HIDE DEF x, y
<1>5. /\ Rounded(x) \in Nat /\ 2 * x + 400000 < 800000 * Rounded(x) + 800000
      /\ Rounded(y) \in Nat /\ 800000 * Rounded(y) <= 2 * y + 400000
  BY <1>3 DEF Rounded
<1>6. Rounded(y) <= 2 * Rounded(x) + 2
  BY <1>1, <1>3, <1>4, <1>5
<1> QED
  BY <1>2, <1>5, <1>6 DEF AtLeastOne, x, y

LEMMA TierSteps ==
  ASSUME NEW v \in 0 .. 200, NEW c \in 0 .. 200
  PROVE  /\ v <= c => RiskTier(v) <= RiskTier(c)
         /\ v <= c + 5 => RiskTier(v) <= RiskTier(c) + 25 /\ 2 * RiskTier(v) <= 3 * RiskTier(c)
<1> USE DEF RiskTier
<1>1. RiskTier(v) = IF v >= 85 THEN 125 ELSE IF v >= 70 THEN 100 ELSE IF v >= 55 THEN 75 ELSE 50
  OBVIOUS
<1>2. RiskTier(c) = IF c >= 85 THEN 125 ELSE IF c >= 70 THEN 100 ELSE IF c >= 55 THEN 75 ELSE 50
  OBVIOUS
<1> HIDE DEF RiskTier
<1> QED
  BY <1>1, <1>2

\* The risk share at most doubles.
LEMMA ShareDoubles ==
  ASSUME NEW v \in 0 .. 200, NEW c \in 0 .. 200, v <= c + 5
  PROVE  RiskShare(v, Account) <= 2 * RiskShare(c, Account)
<1> DEFINE Tv == TakenRisk(v)
           Tc == TakenRisk(c)
           tv == RiskTier(v)
           tc == RiskTier(c)
<1>1. Tv \in Nat /\ Tc \in Nat /\ Tc >= 8 /\ tv \in Nat /\ tc \in Nat /\ tc >= 50
  <2>1. Tv \in Nat /\ Tc \in Nat /\ Tc >= 8
    BY TakenRiskTypes, Zenon
  <2>2. tv \in Tiers /\ tc \in Tiers
    BY TierTypes, Zenon
  <2> HIDE DEF Tv, Tc, tv, tc
  <2> QED
    BY <2>1, <2>2 DEF Tiers
<1>2. (v >= c => Tv <= Tc) /\ 100 * Tv <= 114 * Tc + 114
  BY HigherTakesNoMore, ZenonT(60)
<1>3. (v <= c => tv <= tc) /\ 2 * tv <= 3 * tc
  BY TierSteps
<1>4. /\ RiskShare(v, Account) \in Nat /\ 100 * RiskShare(v, Account) <= Tv * tv
      /\ RiskShare(c, Account) \in Nat /\ Tc * tc < 100 * RiskShare(c, Account) + 100
  BY ShareTypes
<1> HIDE DEF Tv, Tc, tv, tc
<1>5. 2 * (Tv * tv) <= 3 * (Tc * tc)
  <2>1. CASE v >= c
    <3>1. Tv * tv <= Tc * tv
      BY <1>1, <1>2, <2>1, Times
    <3>2. (2 * tv) * Tc <= (3 * tc) * Tc
      BY <1>1, <1>3, Times
    <3> QED
      BY <1>1, <3>1, <3>2
  <2>2. CASE v < c
    <3>1. tv * (2 * Tv) <= tc * (2 * Tv)
      BY <1>1, <1>3, <2>2, Times
    <3>2. (2 * Tv) * tc <= (3 * Tc) * tc
      BY <1>1, <1>2, Times
    <3> QED
      BY <1>1, <3>1, <3>2
  <2> QED
    BY <2>1, <2>2
<1>6. Tc * tc >= 400
  <2>1. 8 * tc <= Tc * tc
    BY <1>1, Times
  <2> QED
    BY <1>1, <2>1
<1> DEFINE pv == Tv * tv
           pc == Tc * tc
<1>7. pv \in Nat /\ pc \in Nat
  BY <1>1
<1> HIDE DEF pv, pc
<1> QED
  BY <1>4, <1>5, <1>6, <1>7 DEF pv, pc

LEMMA LotsDouble ==
  ASSUME NEW points \in Int, NEW v \in 0 .. 200, NEW c \in 0 .. 200, v <= c + 5
  PROVE  Lots(points, v, Account) <= 2 * Lots(points, c, Account) + 1
<1> DEFINE y == 100 * PricedStop(points, Account) * Account.pipValue
           Sv == RiskShare(v, Account)
           Sc == RiskShare(c, Account)
           Xv == Account.balance * Sv
           Xc == Account.balance * Sc
<1>1. Account.balance \in Nat /\ Sv \in Nat /\ Sc \in Nat /\ Sv <= 2 * Sc
  BY ShareTypes, ShareDoubles, AccountIsTyped DEF AccountTypes
<1>2. y \in Int /\ y > 0
  BY LotCost
<1>3. Raw(points, v) = Xv \div y /\ Raw(points, c) = Xc \div y
  BY Zenon DEF Raw
<1>4. Raw(points, v) \in Nat /\ Raw(points, c) \in Nat /\ MarginCap \in Nat
  BY RawTypes
<1>5. /\ Lots(points, v, Account) = AtLeastOne(Capped(points, v))
      /\ Lots(points, c, Account) = AtLeastOne(Capped(points, c))
  BY LotsAreCapped
<1> HIDE DEF Sv, Sc, y
<1>6. Xv \in Nat /\ Xc \in Nat /\ Xv <= 2 * Xc
  <2> DEFINE s == 2 * Sc
  <2>1. s \in Nat /\ Sv <= s
    BY <1>1
  <2>2. s * Account.balance = 2 * Xc
    BY <1>1
  <2> HIDE DEF s
  <2>3. Sv * Account.balance <= s * Account.balance
    BY <1>1, <2>1, Times
  <2> QED
    BY <1>1, <2>2, <2>3
<1> HIDE DEF Xv, Xc
<1>7. y * Raw(points, v) <= Xv /\ Xc < y * Raw(points, c) + y
  BY <1>2, <1>3, <1>6, Floor
<1>8. Raw(points, v) <= 2 * Raw(points, c) + 1
  <2> SUFFICES ASSUME Raw(points, v) >= 2 * Raw(points, c) + 2 PROVE FALSE
    BY <1>4
  <2> DEFINE a == Raw(points, v)
             b == Raw(points, c)
             m == 2 * b + 2
  <2>1. a \in Int /\ m \in Int /\ m <= a
    BY <1>4
  <2>2. m * y = 2 * (y * b) + 2 * y
    BY <1>2, <1>4
  <2> HIDE DEF m
  <2>3. m * y <= a * y
    BY <1>2, <2>1, Times
  <2> QED
    BY <1>2, <1>4, <1>6, <1>7, <2>2, <2>3
<1> QED
  BY SMTT(30), <1>4, <1>5, <1>8 DEF Capped, AtLeastOne

-----------------------------------------------------------------------------
(* The state of a decision *)

IsTrade(s) ==
    /\ s # NoTrade
    /\ s.direction \in Directions /\ s.setup \in Setups /\ s.confidence \in 0 .. 100
    /\ s.entry \in Int /\ Size(s.entry - s.sl) \in Int

LEMMA MarketIsTyped ==
  ASSUME NEW m \in Markets
  PROVE  /\ m.bid \in Int /\ m.ask \in Int /\ m.ema200 \in Int /\ m.pctB \in Int /\ m.atr \in Nat
         /\ m.swing \in {"bullish", "bearish", "ranging"}
         /\ m.bos.bullish \in BOOLEAN /\ m.bos.bearish \in BOOLEAN
         /\ m.ff.up \in BOOLEAN /\ m.ff.down \in BOOLEAN /\ ~(m.ff.up /\ m.ff.down)
<1>1. m \in Readings /\ ~(m.ff.up /\ m.ff.down)
  BY MarketAssumption
<1> QED
  BY <1>1 DEF Readings

LEMMA SideTypes ==
  ASSUME NEW m \in Markets, NEW d \in Directions
  PROVE  Side(d, m) \in Int
BY MarketIsTyped DEF Side, Directions

\* Each kind of level gives one candidate at most.
Level(S) == {<<>>} \cup {<<x>> : x \in S}

LEMMA LevelIsShort ==
  ASSUME NEW S, NEW s \in Level(S)
  PROVE  s \in Seq(S) /\ Len(s) \in Nat /\ Len(s) <= 1
<1>1. CASE s = <<>>
  BY <1>1
<1>2. CASE s # <<>>
  <2>1. PICK x \in S : s = <<x>>
    BY <1>2 DEF Level
  <2>2. <<x>> \in Seq(S) /\ Len(<<x>>) = 1
    OBVIOUS
  <2> QED
    BY <2>1, <2>2
<1> QED
  BY <1>1, <1>2

LEMMA ThreeLevels ==
  ASSUME NEW S, NEW a \in Level(S), NEW b \in Level(S), NEW c \in Level(S)
  PROVE  DOMAIN (a \o b \o c) \subseteq 1 .. 3
<1>1. /\ a \in Seq(S) /\ Len(a) \in Nat /\ Len(a) <= 1
      /\ b \in Seq(S) /\ Len(b) \in Nat /\ Len(b) <= 1
      /\ c \in Seq(S) /\ Len(c) \in Nat /\ Len(c) <= 1
  BY LevelIsShort
<1>2. a \o b \in Seq(S) /\ Len(a \o b) = Len(a) + Len(b)
  BY <1>1
<1> DEFINE ab == a \o b
<1> HIDE DEF ab
<1>3. ab \o c \in Seq(S) /\ Len(ab \o c) = Len(ab) + Len(c)
  BY <1>1, <1>2 DEF ab
<1> DEFINE abc == ab \o c
<1> HIDE DEF abc
<1>4. abc \in Seq(S) /\ Len(abc) \in Nat /\ Len(abc) <= 3
  BY <1>1, <1>2, <1>3 DEF abc, ab
<1>5. DOMAIN abc = 1 .. Len(abc)
  BY <1>4
<1>6. DOMAIN abc \subseteq 1 .. 3
  BY <1>4, <1>5
<1> QED
  BY <1>6 DEF abc, ab

LEMMA CandidatesAreListed ==
  ASSUME NEW d, NEW m, NEW p
  PROVE  DOMAIN Candidates(d, m, p) \subseteq 1 .. 3
<1> DEFINE entry == Side(d, m)
           buffer == (m.atr * p.buffer) \div 100
<1>1. PICK x : SwingLevel(d, m, entry, buffer) \in {<<>>, <<x>>}
  BY DEF SwingLevel
<1>2. PICK y : GapLevel(d, m, entry, buffer) \in {<<>>, <<y>>}
  BY DEF GapLevel
<1>3. PICK z : ATRLevel(d, m, entry, buffer, p) \in {<<>>, <<z>>}
  BY DEF ATRLevel
<1>4. Candidates(d, m, p) = SwingLevel(d, m, entry, buffer) \o GapLevel(d, m, entry, buffer)
                              \o ATRLevel(d, m, entry, buffer, p)
  BY Zenon DEF Candidates
<1> HIDE DEF entry, buffer
<1>5. /\ SwingLevel(d, m, entry, buffer) \in Level({x, y, z})
      /\ GapLevel(d, m, entry, buffer) \in Level({x, y, z})
      /\ ATRLevel(d, m, entry, buffer, p) \in Level({x, y, z})
  BY <1>1, <1>2, <1>3 DEF Level
<1> QED
  BY <1>4, <1>5, ThreeLevels

LEMMA MinOfThree ==
  ASSUME NEW S \in SUBSET (1 .. 3), S # {}
  PROVE  Min(S) \in S
<1>1. \E x \in S : \A y \in S : x <= y
  <2>1. S \subseteq {1, 2, 3}
    OBVIOUS
  <2>2. CASE 1 \in S
    BY <2>1, <2>2
  <2>3. CASE 1 \notin S /\ 2 \in S
    <3>1. \A y \in S : 2 <= y
      BY <2>1, <2>3
    <3> QED
      BY <2>3, <3>1
  <2>4. CASE 1 \notin S /\ 2 \notin S
    <3>1. S = {3}
      BY <2>1, <2>4
    <3> QED
      BY <3>1
  <2> QED
    BY <2>2, <2>3, <2>4
<1> QED
  BY <1>1 DEF Min

LEMMA ConstructedIsTrade ==
  ASSUME NEW h \in Hypotheses, NEW m \in Markets, NEW p,
         Construct(h.direction, h.setup, h.confidence, m, p) # NoTrade
  PROVE  IsTrade(Construct(h.direction, h.setup, h.confidence, m, p))
<1> DEFINE s == Construct(h.direction, h.setup, h.confidence, m, p)
           levels == Candidates(h.direction, m, p)
           entry == Side(h.direction, m)
           valid == {i \in DOMAIN levels : Size(entry - levels[i]) \in p.slMin .. p.slMax}
<1>1. h.direction \in Directions /\ h.setup \in Setups /\ h.confidence \in 0 .. 100
  BY PipelineAssumption
<1>2. valid # {}
  BY DEF Construct
<1>3. Min(valid) \in valid
  BY <1>2, CandidatesAreListed, MinOfThree
<1>4. /\ s.direction = h.direction /\ s.setup = h.setup /\ s.confidence = h.confidence
      /\ s.entry = entry /\ s.sl = levels[Min(valid)]
  BY <1>2 DEF Construct
<1> HIDE DEF s
<1>5. Size(s.entry - s.sl) \in Int
  BY <1>3, <1>4
<1> QED
  BY <1>1, <1>4, <1>5, SideTypes DEF IsTrade, s

Judged == {"invalidation", "conviction", "validator", "risk", "guard", "sizing"}
Sizable == {"validator", "risk", "guard", "sizing"}

\* The confidence of the result is five points above that of the signal at most.
Near == validated \in 0 .. 200 /\ validated <= signal.confidence + 5

PipelineInv ==
    /\ snapshot \in Regimes /\ conviction \in {0, 60, 100}
    /\ gate.size \in Nat /\ gate.size <= 100 /\ gate.equity \in {100, 75, 50, 25}
    /\ stage # "idle" => market \in Markets
    /\ stage \in Judged => IsTrade(signal)
    /\ stage \in Sizable => Near
    /\ lots # 0 => outcome = "TRADE_OPENED"
    /\ outcome = "TRADE_OPENED" =>
          /\ stage = "done" /\ IsTrade(signal) /\ Near /\ market \in Markets
          /\ lots = LotsFor(validated)

LEMMA ConvictionSizes ==
  ASSUME NEW a, NEW b, NEW c, NEW d, NEW e, NEW f
  PROVE  ConvictionSize(a, b, c, d, e, f) \in {0, 60, 100}
BY DEF ConvictionSize

LEMMA ScoreTypes == Score \in {0, 60, 100}
BY ConvictionSizes DEF Score

LEMMA GateSizes ==
  ASSUME NEW d, NEW m
  PROVE  Gate("correlation_guard", d, m).size \in Nat
         /\ Gate("correlation_guard", d, m).size <= 100
<1>1. Max({0, 50}) = 50 /\ Min({100, 50}) = 50
  BY MaxOfTwo, MinOfTwo
<1>2. Sized(50).size = 50 /\ Pass.size = 100 /\ Block.size = 0
  <2>1. Sized(50) = [Pass EXCEPT !.size = 50]
    BY <1>1, Zenon DEF Sized
  <2> QED
    BY <2>1 DEF Pass, Block
<1>3. CorrelationGate(d, m) \in {Pass, Block, Sized(50)}
  BY Zenon DEF CorrelationGate
<1>4. Gate("correlation_guard", d, m) \in {Pass, CorrelationGate(d, m)}
  BY DEF Gate
<1> QED
  BY <1>2, <1>3, <1>4

LEMMA MarketInv ==
  ASSUME PipelineInv, CheckMarket
  PROVE  PipelineInv'
BY DEF PipelineInv, CheckMarket, End, FullGate, Judged, Sizable

LEMMA EarlyInv ==
  ASSUME PipelineInv, ReadRegime \/ NoSignal
  PROVE  PipelineInv'
BY DEF PipelineInv, ReadRegime, NoSignal, End, Judged, Sizable

LEMMA ConstructInv ==
  ASSUME PipelineInv, ConstructTrade
  PROVE  PipelineInv'
<1>1. PICK h \in Hypotheses :
        signal' = Construct(h.direction, h.setup, h.confidence, market, card.params)
  BY DEF ConstructTrade
<1>2. stage = "signal" /\ market \in Markets /\ outcome # "TRADE_OPENED"
  BY DEF ConstructTrade, PipelineInv
<1>3. signal' # NoTrade => IsTrade(signal')
  BY <1>1, <1>2, ConstructedIsTrade
<1>4. \/ stage' = "done" /\ outcome' \in {"NO_CONSTRUCTION", "HELD"}
      \/ stage' = "invalidation" /\ signal' # NoTrade /\ outcome' = outcome
  BY DEF ConstructTrade, End
<1>5. UNCHANGED <<market, card, snapshot, penalty, conviction, validated, gate, lots>>
  BY DEF ConstructTrade
<1> QED
  BY <1>2, <1>3, <1>4, <1>5 DEF PipelineInv, Judged, Sizable

LEMMA JudgeInv ==
  ASSUME PipelineInv, Invalidate \/ Convince
  PROVE  PipelineInv'
<1>1. CASE Invalidate
  BY <1>1 DEF PipelineInv, Invalidate, End, Judged, Sizable
<1>2. CASE Convince
  <2>1. IsTrade(signal) /\ signal' = signal /\ validated' = signal.confidence
        /\ conviction' \in {0, 60, 100}
    BY <1>2, ScoreTypes DEF PipelineInv, Convince, Judged
  <2>2. Near'
    BY <2>1 DEF Near, IsTrade
  <2> QED
    BY <1>2, <2>1, <2>2 DEF PipelineInv, Convince, End, Judged, Sizable
<1> QED
  BY <1>1, <1>2

LEMMA ValidateInv ==
  ASSUME PipelineInv, Validate
  PROVE  PipelineInv'
<1>1. stage = "validator" /\ IsTrade(signal) /\ Near
  BY DEF PipelineInv, Validate, Judged, Sizable
<1>2. ASSUME NEW c \in Confidences PROVE Bounded(c) \in 0 .. 200 /\ Bounded(c) <= signal.confidence + 5
  <2> DEFINE w == signal.confidence + 5
  <2>1. c \in 0 .. 100 /\ w \in 0 .. 105
    BY <1>1, PipelineAssumption DEF IsTrade
  <2>2. Bounded(c) = Min({c, w})
    BY DEF Bounded
  <2> HIDE DEF w
  <2>3. Bounded(c) = IF c <= w THEN c ELSE w
    BY <2>1, <2>2, MinOfTwo
  <2>4. Bounded(c) \in 0 .. 200 /\ Bounded(c) <= w
    BY <2>1, <2>3
  <2> QED
    BY <2>4 DEF w
<1>3. UNCHANGED <<market, card, snapshot, signal, penalty, conviction, gate, lots>>
  BY DEF Validate
<1>4. Near'
  BY <1>1, <1>2, <1>3 DEF Validate, Near
<1>5. stage' \in {"risk", "done"} /\ (outcome' = outcome \/ outcome' = "REJECTED")
  BY DEF Validate, End
<1> QED
  BY <1>1, <1>3, <1>4, <1>5 DEF PipelineInv, Judged, Sizable

LEMMA RiskInv ==
  ASSUME PipelineInv, CheckRisk
  PROVE  PipelineInv'
<1>1. gate'.size \in Nat /\ gate'.size <= 100 /\ gate'.equity \in {100, 75, 50, 25}
  BY GateSizes DEF CheckRisk, PipelineInv, Pass
<1>2. stage = "risk" /\ stage' \in {"guard", "done"} /\ (outcome' = outcome \/ outcome' = "REJECTED")
  BY DEF CheckRisk, End
<1>3. UNCHANGED <<market, card, snapshot, signal, penalty, conviction, validated, lots>>
  BY DEF CheckRisk
<1> QED
  BY <1>1, <1>2, <1>3 DEF PipelineInv, Judged, Sizable, Near

LEMMA LateInv ==
  ASSUME PipelineInv, GuardExecution \/ SizeTrade \/ Shadow
  PROVE  PipelineInv'
<1>1. CASE GuardExecution \/ Shadow
  BY <1>1 DEF PipelineInv, GuardExecution, Shadow, End, Judged, Sizable, Near
<1>2. CASE SizeTrade
  <2>1. LotsFor(validated)' = LotsFor(validated)
    BY <1>2 DEF SizeTrade, LotsFor, Points
  <2>2. stage' = "done" /\ lots' = LotsFor(validated)
        /\ UNCHANGED <<market, card, snapshot, signal, penalty, conviction, validated, gate>>
    BY <1>2 DEF SizeTrade, End
  <2>3. IsTrade(signal) /\ Near /\ market \in Markets
    BY <1>2 DEF SizeTrade, PipelineInv, Judged, Sizable
  <2>4. IsTrade(signal)' /\ Near'
    BY <2>2, <2>3 DEF Near, IsTrade
  <2>5. outcome' = "TRADE_OPENED"
    BY <1>2 DEF SizeTrade, End
  <2> QED
    BY <2>1, <2>2, <2>3, <2>4, <2>5 DEF PipelineInv, Judged, Sizable
<1> QED
  BY <1>1, <1>2

LEMMA PipelineInvariant == PipelineSpec => []PipelineInv
<1>1. PipelineInit => PipelineInv
  BY DEF PipelineInit, PipelineInv, FullGate, Judged, Sizable, Regimes
<1>2. PipelineInv /\ [PipelineNext]_pipelineVars => PipelineInv'
  <2> SUFFICES ASSUME PipelineInv, [PipelineNext]_pipelineVars PROVE PipelineInv'
    OBVIOUS
  <2>1. CASE UNCHANGED pipelineVars
    BY <2>1 DEF pipelineVars, PipelineInv, Near, LotsFor, Points
  <2> QED
    BY <2>1, MarketInv, EarlyInv, ConstructInv, JudgeInv, ValidateInv, RiskInv, LateInv
       DEF PipelineNext
<1> QED
  BY <1>1, <1>2, PTL DEF PipelineSpec

-----------------------------------------------------------------------------
(* What the sized trade and the invalidation promise *)

LEMMA FreshnessTypes ==
  ASSUME IsTrade(signal), market \in Markets
  PROVE  Freshness(signal, market, 0) \in Nat /\ Freshness(signal, market, 0) <= 1000
<1> DEFINE gap == market.bid + market.ask - 2 * signal.entry
           d == (Size(gap) * 500) \div (IF market.atr = 0 THEN 1 ELSE market.atr)
<1>1. gap \in Int /\ market.atr \in Nat
  BY MarketIsTyped DEF IsTrade
<1> HIDE DEF gap
<1>2. Size(gap) * 500 \in Nat
  BY <1>1 DEF Size
<1>3. d \in Nat
  <2>1. CASE market.atr = 0
    BY <1>2, <2>1, Floor
  <2>2. CASE market.atr # 0
    BY <1>1, <1>2, <2>2, Floor
  <2> QED
    BY <2>1, <2>2
<1>4. Freshness(signal, market, 0)
        = IF d > 800 \/ 0 > 5 THEN 0
          ELSE Max({0, 1000 - Max({0, d - 300}) - 50 * Max({0, 0 - 2})})
  BY DEF Freshness, gap
<1> HIDE DEF d
<1>5. Max({0, d - 300}) \in Nat /\ Max({0, 0 - 2}) = 0
  BY <1>3, MaxOfTwo
<1> DEFINE z == 1000 - Max({0, d - 300}) - 50 * Max({0, 0 - 2})
<1>6. z \in Int /\ z <= 1000
  BY <1>5
<1>7. Freshness(signal, market, 0) = IF d > 800 \/ 0 > 5 THEN 0 ELSE Max({0, z})
  BY <1>4
<1> HIDE DEF z
<1>8. Max({0, z}) = IF 0 >= z THEN 0 ELSE z
  BY <1>6, MaxOfTwo
<1> QED
  BY <1>6, <1>7, <1>8

LEMMA ScalarsOfDecision ==
  ASSUME PipelineInv, outcome = "TRADE_OPENED"
  PROVE  Scalars(conviction, RegimeTable[snapshot].size, Freshness(signal, market, 0),
                 gate.size, gate.equity)
<1>1. RegimeTable[snapshot].size \in {60, 80, 100, 110}
  BY DEF PipelineInv, Regimes, RegimeTable
<1> QED
  BY <1>1, FreshnessTypes DEF PipelineInv, Scalars

\* The stop times the lots costs no more than the risk that the confidence of the signal
\* allows, or 1.1 times that where the sizer clamps the buffered stop: for every market,
\* card and account (risk/sizer.py, trading/execution_orchestrator.py).
THEOREM LotsStayInBudget == PipelineSpec => []RiskWithinBudget
<1>1. PipelineInv => RiskWithinBudget
  <2> SUFFICES ASSUME PipelineInv, lots > MinLots PROVE
                 /\ 115 * Points <= 100 * Account.slMax => Loss <= Budget
                 /\ Points <= Account.slMax => 10 * Loss <= 11 * Budget
    BY DEF RiskWithinBudget
  <2> DEFINE n == Lots(Points, validated, Account)
             stop == PricedStop(Points, Account)
             pv == Account.pipValue
  <2>1. outcome = "TRADE_OPENED" /\ IsTrade(signal) /\ validated \in 0 .. 200
        /\ lots = LotsFor(validated)
    BY DEF PipelineInv, MinLots, Near
  <2>2. Points \in Int
    BY <2>1 DEF IsTrade, Points
  <2>3. lots \in Nat /\ lots > 1 /\ 5 * (2 * lots - 1) <= 11 * n /\ n \in Nat
    <3>1. n \in Nat
      BY <2>1, <2>2, LotsWithinRaw
    <3> HIDE DEF n
    <3>2. lots = Scaled(n, conviction, RegimeTable[snapshot].size, Freshness(signal, market, 0),
                        gate.size, gate.equity)
      BY <2>1 DEF LotsFor, n
    <3> QED
      BY <2>1, <3>1, <3>2, ScalarsOfDecision, ScaledIsWithin DEF MinLots
  <2>4. n > 1
    BY <2>3
  <2>5. Raw(Points, validated) \in Nat /\ n <= Raw(Points, validated)
    BY <2>1, <2>2, <2>4, RawTypes, LotsWithinRaw
  <2>6. /\ stop \in Int /\ stop > 0
        /\ 115 * Points <= 100 * Account.slMax => stop >= 115 * Points
        /\ Points <= Account.slMax => stop >= 100 * Points
    BY <2>2, PricedStopCovers
  <2>7. pv \in Int /\ pv > 0
    BY AccountIsTyped DEF AccountTypes
  <2>8. Budget \in Nat
    BY <2>1, ShareTypes, AccountIsTyped DEF AccountTypes, Budget
  <2>9. (100 * stop * pv) * Raw(Points, validated) <= Budget
    BY <2>1, <2>2, RawIsPaid DEF Budget
  <2>10. Loss = 5000 * (2 * lots - 1) * Points * pv
    BY DEF Loss
  <2> HIDE DEF n, stop, pv
  <2>11. (100 * stop * pv) * n <= Budget
    <3> DEFINE cost == 100 * stop * pv
               r == Raw(Points, validated)
    <3>1. cost \in Nat
      BY <2>6, <2>7
    <3>2. r \in Nat
      BY <2>5
    <3>3. cost * r <= Budget
      BY <2>9
    <3> HIDE DEF cost, r
    <3>4. n * cost <= r * cost
      BY <2>3, <2>5, <3>1, <3>2, Times DEF r
    <3>5. cost * n <= Budget
      BY <2>3, <2>8, <3>1, <3>2, <3>3, <3>4
    <3> QED
      BY <3>5 DEF cost
  <2> DEFINE a == 2 * lots - 1
             q == Points * pv
  <2>12. a \in Nat /\ 5 * a <= 11 * n /\ q \in Int
    BY <2>2, <2>3, <2>7
  <2>13. Loss = 5000 * (a * q)
    BY <2>2, <2>7, <2>10, <2>12
  <2> HIDE DEF a
  <2>14. CASE Points <= 0
    <3>1. Points * pv <= 0 * pv
      BY <2>2, <2>7, <2>14, Times
    <3> HIDE DEF q
    <3>2. q * a <= 0 * a
      BY <2>7, <2>12, <3>1, Times DEF q
    <3> QED
      BY <2>8, <2>12, <2>13, <3>2
  <2>15. CASE Points > 0
    <3>1. q \in Nat
      BY <2>2, <2>7, <2>15
    <3>2. 5000 * (a * q) <= 11000 * (n * q)
      <4>1. (5 * a) * q <= (11 * n) * q
        BY <2>3, <2>12, <3>1, Times
      <4> QED
        BY <2>3, <2>12, <3>1, <4>1
    <3> DEFINE w == 100 * pv * n
    <3>3. w \in Nat /\ stop * w = (100 * stop * pv) * n /\ Points * w = 100 * (n * q)
      BY <2>2, <2>3, <2>6, <2>7
    <3> HIDE DEF w, q
    <3>4. stop * w <= Budget
      BY <2>11, <3>3
    <3>5. ASSUME NEW k \in Nat, stop >= k * Points
          PROVE  k * (100 * (n * q)) <= Budget
      <4>1. (k * Points) * w <= stop * w
        BY <2>2, <2>6, <3>3, <3>5, Times
      <4>2. (k * Points) * w = k * (Points * w)
        BY <2>2, <3>3
      <4>3. k * (Points * w) \in Int /\ stop * w \in Int
        BY <2>2, <2>6, <3>3
      <4> QED
        BY <2>8, <3>3, <3>4, <4>1, <4>2, <4>3
    <3> DEFINE nq == n * q
               aq == a * q
    <3>6. nq \in Nat /\ aq \in Nat
      BY <2>3, <2>12, <3>1
    <3>7. 115 * Points <= 100 * Account.slMax => 115 * (100 * nq) <= Budget
      BY <2>6, <3>5
    <3>8. Points <= Account.slMax => 100 * (100 * nq) <= Budget
      BY <2>6, <3>5
    <3>9. Loss = 5000 * aq /\ 5000 * aq <= 11000 * nq
      BY <2>13, <3>2
    <3> HIDE DEF nq, aq
    <3> QED
      BY <2>8, <3>6, <3>7, <3>8, <3>9
  <2> QED
    BY <2>2, <2>14, <2>15
<1> QED
  BY <1>1, PipelineInvariant, PTL

\* The confidence of the validator is one risk tier above that of the signal at most, and
\* doubles the lots at most, for every account (pipeline/ai_validator.py,
\* trading/execution_orchestrator.py).
THEOREM ValidatorMovesOneTier == PipelineSpec => []ValidatorIsBounded
<1>1. PipelineInv => ValidatorIsBounded
  <2> SUFFICES ASSUME PipelineInv, outcome = "TRADE_OPENED" PROVE
                 /\ RiskTier(validated) <= RiskTier(signal.confidence) + 25
                 /\ lots <= 2 * LotsFor(signal.confidence) + 2
    BY DEF ValidatorIsBounded
  <2> DEFINE c == signal.confidence
             n == Lots(Points, c, Account)
             k == Lots(Points, validated, Account)
  <2>1. /\ validated \in 0 .. 200 /\ c \in 0 .. 200 /\ validated <= c + 5 /\ Points \in Int
        /\ lots = LotsFor(validated)
    <3>1. Near /\ IsTrade(signal) /\ lots = LotsFor(validated)
      BY Zenon DEF PipelineInv
    <3>2. c \in 0 .. 100 /\ Points \in Int
      BY <3>1, Zenon DEF IsTrade, Points
    <3>3. validated \in 0 .. 200 /\ validated <= c + 5
      BY <3>1, Zenon DEF Near
    <3> HIDE DEF c
    <3> QED
      BY <3>1, <3>2, <3>3
  <2> HIDE DEF c
  <2>2. RiskTier(validated) <= RiskTier(c) + 25
    BY <2>1, TierSteps, ZenonT(60)
  <2>3. n \in Nat /\ k \in Nat /\ k <= 2 * n + 1
    BY <2>1, LotsWithinRaw, LotsDouble
  <2>4. /\ LotsFor(c) = Scaled(n, conviction, RegimeTable[snapshot].size,
                               Freshness(signal, market, 0), gate.size, gate.equity)
        /\ LotsFor(validated) = Scaled(k, conviction, RegimeTable[snapshot].size,
                                       Freshness(signal, market, 0), gate.size, gate.equity)
    BY DEF LotsFor
  <2> HIDE DEF n, k
  <2>5. LotsFor(validated) <= 2 * LotsFor(c) + 2
    BY <2>3, <2>4, ScalarsOfDecision, ScaledDoubles
  <2> QED
    BY <2>1, <2>2, <2>5 DEF c
<1> QED
  BY <1>1, PipelineInvariant, PTL

\* No failure at all means that every check of the setup was passed.
LEMMA NoSetupFailure ==
  ASSUME Severity(FailuresNow) = "PASS", card.mode # "ai_signal"
  PROVE  SetupFailures(signal, market, card.on) = {}
<1>1. FailuresNow = {}
  BY DEF Severity
<1>2. Required(card.mode, card.on) = card.on
  BY DEF Required
<1>3. SetupFailures(signal, market, Required(card.mode, card.on)) \subseteq FailuresNow
  BY Zenon DEF FailuresNow, Failures
<1> QED
  BY <1>1, <1>2, <1>3

GatePasses(t) == Gate(t, signal.direction, market).passed

LEMMA PassIfPasses ==
  ASSUME NEW cond, cond
  PROVE  PassIf(cond).passed
BY DEF PassIf, Pass

\* The gate of each tool, once its check found nothing, is open.
LEMMA StructureGates ==
  ASSUME IsTrade(signal), market \in Markets, SetupFailures(signal, market, card.on) = {},
         NEW t \in StructureOf(signal.setup) \cap card.on
  PROVE  GatePasses(t) \/ (t = "ema200_filter" /\ Side(signal.direction, market) = market.ema200)
<1> DEFINE d == signal.direction
           checks == RequiredChecks[signal.setup]
<1>1. d \in {"BUY", "SELL"} /\ signal.setup \in Setups
  BY DEF IsTrade, Directions
<1>2. t \in checks /\ t \in card.on /\ t # "swing_ranging"
  BY DEF StructureOf
<1>3. t \in {"bos_guard", "ema200_filter", "swing_structure", "fast_fingers", "bollinger_filter"}
  BY <1>1, <1>2 DEF RequiredChecks, Setups
<1>4. d # Unknown
  BY <1>1 DEF Unknown
<1>5. /\ market.bid \in Int /\ market.ask \in Int /\ market.ema200 \in Int /\ market.pctB \in Int
      /\ market.swing \in {"bullish", "bearish", "ranging"}
      /\ market.bos.bullish \in BOOLEAN /\ market.bos.bearish \in BOOLEAN
      /\ market.ff.up \in BOOLEAN /\ market.ff.down \in BOOLEAN
      /\ ~(market.ff.up /\ market.ff.down)
  BY MarketIsTyped
<1>6. Pass.passed
  BY DEF Pass
<1>7. CASE t = "bos_guard"
  <2>1. BOSFailure(signal, market) = {}
    BY <1>2, <1>7 DEF SetupFailures
  <2>2. Has(market, "bos") /\ (IF d = "BUY" THEN market.bos.bullish ELSE market.bos.bearish)
    BY <2>1 DEF BOSFailure
  <2>3. Gate(t, d, market) = BOSGate(d, market)
    BY <1>4, <1>7 DEF Gate
  <2>4. BOSGate(d, market).passed
    BY <1>1, <1>6, <2>2, PassIfPasses DEF BOSGate
  <2> QED
    BY <2>3, <2>4 DEF GatePasses
<1>8. CASE t = "ema200_filter"
  <2>1. EMA200Failure(signal, market) = {}
    BY <1>2, <1>8 DEF SetupFailures
  <2>2. Gate(t, d, market) = LevelGate(d, market, "ema200", market.ema200)
    BY <1>4, <1>8 DEF Gate
  <2>3. CASE ~Has(market, "ema200")
    BY <1>6, <2>2, <2>3 DEF LevelGate, GatePasses
  <2>4. CASE Has(market, "ema200")
    <3>1. IF d = "BUY" THEN ~(Side(d, market) < market.ema200) ELSE ~(Side(d, market) > market.ema200)
      BY <2>1, <2>4 DEF EMA200Failure, When
    <3>2. Side(d, market) = (IF d = "BUY" THEN market.ask ELSE market.bid)
      BY DEF Side
    <3>3. CASE Side(d, market) # market.ema200
      <4>1. CASE d = "BUY"
        <5>1. market.ask > market.ema200
          BY <1>5, <3>1, <3>2, <3>3, <4>1
        <5>2. LevelGate(d, market, "ema200", market.ema200) = PassIf(market.ask > market.ema200)
          BY <2>4, <4>1 DEF LevelGate
        <5> QED
          BY <2>2, <5>1, <5>2, PassIfPasses DEF GatePasses
      <4>2. CASE d = "SELL"
        <5>1. market.bid < market.ema200
          BY <1>5, <3>1, <3>2, <3>3, <4>2
        <5>2. LevelGate(d, market, "ema200", market.ema200) = PassIf(market.bid < market.ema200)
          BY <2>4, <4>2 DEF LevelGate
        <5> QED
          BY <2>2, <5>1, <5>2, PassIfPasses DEF GatePasses
      <4> QED
        BY <1>1, <4>1, <4>2
    <3> QED
      BY <1>8, <3>3
  <2> QED
    BY <2>3, <2>4
<1>9. CASE t = "swing_structure"
  <2>1. SwingFailure(signal, market) = {}
    BY <1>2, <1>9 DEF SetupFailures
  <2>2. Gate(t, d, market) = SwingGate(d, market)
    BY <1>4, <1>9 DEF Gate
  <2>3. CASE ~Has(market, "swing")
    BY <1>6, <2>2, <2>3 DEF SwingGate, GatePasses
  <2>4. CASE Has(market, "swing")
    <3>1. market.swing # "ranging" /\ market.swing # (IF d = "BUY" THEN "bearish" ELSE "bullish")
      BY <2>1, <2>4 DEF SwingFailure, When
    <3>2. SwingGate(d, market).passed
      BY <1>1, <1>5, <2>4, <3>1, PassIfPasses DEF SwingGate
    <3> QED
      BY <2>2, <3>2 DEF GatePasses
  <2> QED
    BY <2>3, <2>4
<1>10. CASE t = "fast_fingers"
  <2>1. ExhaustionFailure(signal, market) = {}
    BY <1>2, <1>10 DEF SetupFailures
  <2>2. Gate(t, d, market) = FastFingersGate(d, market)
    BY <1>4, <1>10 DEF Gate
  <2>3. IF d = "BUY" THEN market.ff.down ELSE market.ff.up
    BY <2>1 DEF ExhaustionFailure
  <2>4. FastFingersGate(d, market).passed
    BY <1>1, <1>5, <2>3, PassIfPasses DEF FastFingersGate
  <2> QED
    BY <2>2, <2>4 DEF GatePasses
<1>11. CASE t = "bollinger_filter"
  <2>1. BollingerFailure(signal, market) = {}
    BY <1>2, <1>11 DEF SetupFailures
  <2>2. Gate(t, d, market) = BollingerGate(d, market)
    BY <1>4, <1>11 DEF Gate
  <2>3. CASE ~Has(market, "pctB")
    BY <1>6, <2>2, <2>3 DEF BollingerGate, GatePasses
  <2>4. CASE Has(market, "pctB")
    <3>1. IF d = "BUY" THEN ~(market.pctB > 65) ELSE ~(market.pctB < 35)
      BY <2>1, <2>4 DEF BollingerFailure
    <3>2. CASE d = "BUY"
      <4>1. market.pctB < 70
        BY <1>5, <3>1, <3>2
      <4>2. BollingerGate(d, market) = PassIf(market.pctB < 70)
        BY <2>4, <3>2 DEF BollingerGate
      <4> QED
        BY <2>2, <4>1, <4>2, PassIfPasses DEF GatePasses
    <3>3. CASE d = "SELL"
      <4>1. market.pctB > 30
        BY <1>5, <3>1, <3>3
      <4>2. BollingerGate(d, market) = PassIf(market.pctB > 30)
        BY <2>4, <3>3 DEF BollingerGate
      <4> QED
        BY <2>2, <4>1, <4>2, PassIfPasses DEF GatePasses
    <3> QED
      BY <1>1, <3>2, <3>3
  <2> QED
    BY <2>3, <2>4
<1> QED
  BY <1>3, <1>7, <1>8, <1>9, <1>10, <1>11

\* A setup that the invalidator passes without a mark is refused by none of the tools
\* whose checks it makes, although the two keep thresholds of their own, but for a price
\* exactly on the average (pipeline/invalidation.py, tools/plugins).
THEOREM InvalidatorAsksForMore == PipelineSpec => []InvalidatorIsStricter
<1>1. PipelineInv => InvalidatorIsStricter
  <2> SUFFICES ASSUME PipelineInv, stage = "conviction", card.mode # "ai_signal",
                      Severity(FailuresNow) = "PASS", NEW t \in StructureOf(signal.setup) \cap card.on
               PROVE  \/ Gate(t, signal.direction, market).passed
                      \/ t = "ema200_filter" /\ Side(signal.direction, market) = market.ema200
    BY Zenon DEF InvalidatorIsStricter
  <2>1. IsTrade(signal) /\ market \in Markets
    <3>1. stage \in Judged /\ stage # "idle"
      BY SMTT(30) DEF Judged
    <3> QED
      BY <3>1, Zenon DEF PipelineInv
  <2> QED
    BY <2>1, NoSetupFailure, StructureGates DEF GatePasses
<1> QED
  BY <1>1, PipelineInvariant, PTL

-----------------------------------------------------------------------------
(* The two directions *)

\* What the mirror leaves alone, and what it turns round.
LEMMA MirrorKeeps ==
  ASSUME NEW m \in Readings
  PROVE  LET w == Mirror(m) IN
         /\ w.missing = m.missing /\ w.atr = m.atr /\ w.session = m.session /\ w.crypto = m.crypto
         /\ w.news = m.news /\ w.atrPct = m.atrPct /\ w.risk = m.risk /\ w.adx = m.adx
         /\ w.volume = m.volume /\ w.tickJump = m.tickJump /\ w.liq = m.liq /\ w.ci = m.ci
BY SMTT(30) DEF Mirror

LEMMA MirrorTurns ==
  ASSUME NEW m \in Readings
  PROVE  LET w == Mirror(m) IN
         /\ w.ask = Axis - m.bid /\ w.bid = Axis - m.ask /\ w.ema200 = Axis - m.ema200
         /\ w.alma = Axis - m.alma /\ w.vwap = Axis - m.vwap
         /\ w.emaFast = m.emaSlow /\ w.emaSlow = m.emaFast
         /\ w.macd = -m.macd /\ w.pctB = 100 - m.pctB /\ w.rsi = 100 - m.rsi
         /\ w.swing = Inverted(m.swing)
         /\ w.bos.bullish = m.bos.bearish /\ w.bos.bearish = m.bos.bullish
         /\ w.bos.bullBreak = m.bos.bearBreak /\ w.bos.bearBreak = m.bos.bullBreak
BY DEF Mirror

LEMMA MirrorTurnsRest ==
  ASSUME NEW m \in Readings
  PROVE  LET w == Mirror(m) IN
         /\ w.fvg.bullish = Reflected(m.fvg.bearish) /\ w.fvg.bearish = Reflected(m.fvg.bullish)
         /\ w.ff.up = m.ff.down /\ w.ff.down = m.ff.up /\ w.ff.score = m.ff.score
         /\ w.trendilo.slope = Inverted(m.trendilo.slope) /\ w.trendilo.strength = m.trendilo.strength
         /\ w.dxy.block = Inverted(m.dxy.block) /\ w.dxy.strength = m.dxy.strength
         /\ w.sentiment.bias = Inverted(m.sentiment.bias)
         /\ w.sentiment.confidence = m.sentiment.confidence
         /\ w.open = TurnedRound(m.open)
         /\ w.swingLows = {Axis - x : x \in m.swingHighs}
         /\ w.swingHighs = {Axis - x : x \in m.swingLows}
<1>1. /\ m.ff \in [up : BOOLEAN, down : BOOLEAN, score : Nat, roc : Int, upper : Int, lower : Int]
      /\ m.trendilo \in [slope : {"up", "down", "flat"}, strength : Nat]
      /\ m.dxy \in [bias : {"bullish_usd", "bearish_usd", "neutral"}, strength : Nat,
                    block : Directions \cup {""}]
      /\ m.sentiment \in [bias : {"bullish", "bearish", "neutral"}, confidence : Nat]
  BY DEF Readings
<1>2. Mirror(m).ff = [m.ff EXCEPT !.up = m.ff.down, !.down = m.ff.up]
  BY DEF Mirror
<1>3. Mirror(m).trendilo = [m.trendilo EXCEPT !.slope = Inverted(@)]
  BY DEF Mirror
<1>4. Mirror(m).dxy = [m.dxy EXCEPT !.block = Inverted(@)]
  BY DEF Mirror
<1>5. Mirror(m).sentiment = [m.sentiment EXCEPT !.bias = Inverted(@)]
  BY DEF Mirror
<1>6. /\ Mirror(m).fvg.bullish = Reflected(m.fvg.bearish)
      /\ Mirror(m).fvg.bearish = Reflected(m.fvg.bullish)
  BY DEF Mirror
<1>7. Mirror(m).open = TurnedRound(m.open)
  BY DEF Mirror
<1>8. Mirror(m).swingLows = {Axis - x : x \in m.swingHighs}
  BY DEF Mirror
<1>9. Mirror(m).swingHighs = {Axis - x : x \in m.swingLows}
  BY DEF Mirror
<1> QED
  BY <1>1, <1>2, <1>3, <1>4, <1>5, <1>6, <1>7, <1>8, <1>9

-----------------------------------------------------------------------------
\* Extrema

\* Least-number principle, from the well-foundedness of < on Nat.
LEMMA LeastNat ==
  ASSUME NEW T \in SUBSET Nat, T # {}
  PROVE  \E x \in T : \A y \in T : x <= y
<1> DEFINE R == {ss \in Nat \X Nat : ss[1] < ss[2]}
<1>1. IsWellFoundedOn(R, Nat)
  BY NatLessThanWellFounded DEF OpToRel
<1>2. PICK x \in T : \A y \in T : ~(<<y, x>> \in R)
  <2> HIDE DEF R
  <2> QED
    BY <1>1, WFMin
<1>3. \A y \in T : ~(y < x)
  BY <1>2
<1> QED
  BY <1>3

\* A set of integers below a bound has a largest element.
LEMMA Largest ==
  ASSUME NEW S \in SUBSET Int, S # {}, NEW bound \in Int, \A x \in S : x <= bound
  PROVE  Max(S) \in S /\ \A y \in S : Max(S) >= y
<1> DEFINE T == {bound - x : x \in S}
<1>0. \A x \in S : bound - x \in Nat
  OBVIOUS
<1>1. T \in SUBSET Nat /\ T # {}
  BY <1>0
<1>2. PICK t \in T : \A u \in T : t <= u
  <2> HIDE DEF T
  <2> QED
    BY <1>1, LeastNat
<1>3. PICK x \in S : t = bound - x
  BY <1>2
<1>4. \A y \in S : x >= y
  <2> SUFFICES ASSUME NEW y \in S PROVE x >= y
    OBVIOUS
  <2>1. t <= bound - y
    BY <1>2
  <2> QED
    BY <1>3, <2>1
<1> QED
  BY <1>4 DEF Max

\* The largest of a set is the smallest of its reflection.
LEMMA ReflectedMax ==
  ASSUME NEW S \in SUBSET Int, S # {}, NEW bound \in Int, \A x \in S : x <= bound
  PROVE  Min({Axis - x : x \in S}) = Axis - Max(S)
<1> DEFINE T == {Axis - x : x \in S}
           top == Max(S)
<1>1. top \in S /\ \A y \in S : top >= y
  BY Largest
<1> HIDE DEF top
<1>0. Axis \in Int /\ \A x \in S : Axis - x \in Int
  BY DEF Axis
<1>2. Axis - top \in T /\ T \in SUBSET Int /\ \A y \in T : Axis - top <= y
  <2>1. \A y \in S : Axis - top <= Axis - y
    BY <1>0, <1>1
  <2> QED
    BY <1>0, <1>1, <2>1
<1> HIDE DEF T
<1>3. ASSUME NEW x \in T, \A y \in T : x <= y PROVE x = Axis - top
  <2>1. x <= Axis - top /\ Axis - top <= x /\ x \in Int /\ Axis - top \in Int
    BY <1>2, <1>3
  <2> QED
    BY <2>1
<1>4. Min(T) = Axis - top
  BY <1>2, <1>3 DEF Min
<1> QED
  BY <1>4 DEF T, top

LEMMA Smallest ==
  ASSUME NEW S \in SUBSET Int, S # {}, NEW bound \in Int, \A x \in S : x >= bound
  PROVE  Min(S) \in S /\ \A y \in S : Min(S) <= y
<1> DEFINE T == {x - bound : x \in S}
<1>0. \A x \in S : x - bound \in Nat
  OBVIOUS
<1>1. T \in SUBSET Nat /\ T # {}
  BY <1>0
<1>2. PICK t \in T : \A u \in T : t <= u
  <2> HIDE DEF T
  <2> QED
    BY <1>1, LeastNat
<1>3. PICK x \in S : t = x - bound
  BY <1>2
<1>4. \A y \in S : x <= y
  <2> SUFFICES ASSUME NEW y \in S PROVE x <= y
    OBVIOUS
  <2>1. t <= y - bound
    BY <1>2
  <2> QED
    BY <1>3, <2>1
<1> QED
  BY <1>4 DEF Min

LEMMA ReflectedMin ==
  ASSUME NEW S \in SUBSET Int, S # {}, NEW bound \in Int, \A x \in S : x >= bound
  PROVE  Max({Axis - x : x \in S}) = Axis - Min(S)
<1> DEFINE T == {Axis - x : x \in S}
<1>0. Axis \in Int /\ \A x \in S : Axis - x \in Int /\ Axis - (Axis - x) = x
  BY DEF Axis
<1>1. T \in SUBSET Int /\ T # {} /\ \A x \in T : x <= Axis - bound
  <2>1. \A x \in S : Axis - x <= Axis - bound
    BY <1>0
  <2> QED
    BY <1>0, <2>1
<1>2. Axis - bound \in Int
  BY <1>0
<1>3. {Axis - x : x \in T} = S
  <2>1. \A z \in S : Axis - z \in T /\ Axis - (Axis - z) = z
    BY <1>0
  <2>2. \A y \in T : Axis - y \in S
    BY <1>0
  <2> HIDE DEF T
  <2> QED
    BY <2>1, <2>2
<1> HIDE DEF T
<1>4. Min({Axis - x : x \in T}) = Axis - Max(T)
  BY <1>1, <1>2, ReflectedMax
<1>5. Max(T) \in Int
  BY <1>1, <1>2, Largest
<1> QED
  BY <1>3, <1>4, <1>5 DEF T, Axis

-----------------------------------------------------------------------------
\* Gates

\* Gates that take no direction read nothing the mirror turns round.
LEMMA NeutralGates ==
  ASSUME NEW m \in Readings, NEW d, NEW o, (d = Unknown) <=> (o = Unknown), NEW t \in Tools \ RequiresDirection
  PROVE  Gate(t, d, m) = Gate(t, o, Mirror(m))
<1> DEFINE w == Mirror(m)
<1>1. /\ w.missing = m.missing /\ w.session = m.session /\ w.crypto = m.crypto
      /\ w.news = m.news /\ w.atrPct = m.atrPct /\ w.risk = m.risk /\ w.adx = m.adx
      /\ w.volume = m.volume /\ w.tickJump = m.tickJump /\ w.liq = m.liq /\ w.ci = m.ci
  BY MirrorKeeps
<1> HIDE DEF w
<1>2. /\ SessionGate(m) = SessionGate(w) /\ NewsGate(m) = NewsGate(w)
      /\ VolatilityGate(m) = VolatilityGate(w) /\ RiskGate(m) = RiskGate(w)
      /\ ADXGate(m) = ADXGate(w) /\ VolumeGate(m) = VolumeGate(w)
      /\ TickJumpGate(m) = TickJumpGate(w) /\ VacuumGate(m) = VacuumGate(w)
      /\ ChoppinessGate(m) = ChoppinessGate(w)
  BY <1>1 DEF SessionGate, NewsGate, VolatilityGate, RiskGate, ADXGate, VolumeGate, TickJumpGate,
              VacuumGate, ChoppinessGate, Has
<1>3. t \in {"session_filter", "news_filter", "volatility_filter", "risk_filter", "adx_filter",
             "volume_filter", "tick_jump_guard", "liq_vacuum_guard", "choppiness_index"}
  BY DEF RequiresDirection
<1>4. Gate(t, d, m) = Gate(t, o, w)
  BY <1>2, <1>3 DEF Gate, RequiresDirection
<1> QED
  BY <1>4 DEF w

\* Price, oscillators and averages.
LEMMA ReadingGates ==
  ASSUME NEW m \in Readings, NEW d \in Directions
  PROVE  LET w == Mirror(m)
             o == Opposite(d)
         IN  /\ LevelGate(d, m, "ema200", m.ema200) = LevelGate(o, w, "ema200", w.ema200)
             /\ LevelGate(d, m, "alma", m.alma) = LevelGate(o, w, "alma", w.alma)
             /\ CrossoverGate(d, m) = CrossoverGate(o, w)
             /\ MACDGate(d, m) = MACDGate(o, w)
             /\ BollingerGate(d, m) = BollingerGate(o, w)
             /\ RSIGate(d, m) = RSIGate(o, w)
             /\ VWAPGate(d, m) = VWAPGate(o, w)
<1> DEFINE w == Mirror(m)
           o == Opposite(d)
<1>1. /\ w.missing = m.missing /\ w.atr = m.atr
      /\ w.ask = Axis - m.bid /\ w.bid = Axis - m.ask /\ w.ema200 = Axis - m.ema200
      /\ w.alma = Axis - m.alma /\ w.vwap = Axis - m.vwap
      /\ w.emaFast = m.emaSlow /\ w.emaSlow = m.emaFast
      /\ w.macd = -m.macd /\ w.pctB = 100 - m.pctB /\ w.rsi = 100 - m.rsi
  BY MirrorKeeps, MirrorTurns
<1>2. /\ m.ask \in Int /\ m.bid \in Int /\ m.ema200 \in Int /\ m.alma \in Int /\ m.vwap \in Int
      /\ m.emaFast \in Int /\ m.emaSlow \in Int /\ m.macd \in Int /\ m.pctB \in Int
      /\ m.rsi \in Int /\ m.atr \in Nat
  BY DEF Readings
<1>3. (d = "BUY" /\ o = "SELL") \/ (d = "SELL" /\ o = "BUY")
  BY DEF Directions, Opposite
<1> HIDE DEF w, o
<1>4. Axis \in Int
  BY DEF Axis
<1>5. /\ LevelGate(d, m, "ema200", m.ema200) = LevelGate(o, w, "ema200", w.ema200)
      /\ LevelGate(d, m, "alma", m.alma) = LevelGate(o, w, "alma", w.alma)
  BY <1>1, <1>2, <1>3, <1>4 DEF LevelGate, PassIf, Has
<1>6. CrossoverGate(d, m) = CrossoverGate(o, w)
  BY <1>1, <1>2, <1>3, <1>4 DEF CrossoverGate, PassIf, Has
<1>7. MACDGate(d, m) = MACDGate(o, w)
  BY <1>1, <1>2, <1>3, <1>4 DEF MACDGate, PassIf, Has
<1>8. BollingerGate(d, m) = BollingerGate(o, w)
  BY <1>1, <1>2, <1>3, <1>4 DEF BollingerGate, PassIf, Has
<1>9. RSIGate(d, m) = RSIGate(o, w)
  BY <1>1, <1>2, <1>3, <1>4 DEF RSIGate, PassIf, Has
<1>10. VWAPGate(d, m) = VWAPGate(o, w)
  BY <1>1, <1>2, <1>3, <1>4 DEF VWAPGate, PassIf, Has, Side
<1> QED
  BY <1>5, <1>6, <1>7, <1>8, <1>9, <1>10 DEF w, o

\* Structure, exhaustion and what other markets say.
LEMMA WordGates ==
  ASSUME NEW m \in Readings, NEW d \in Directions
  PROVE  LET w == Mirror(m)
             o == Opposite(d)
         IN  /\ SwingGate(d, m) = SwingGate(o, w)
             /\ BOSGate(d, m) = BOSGate(o, w)
             /\ FastFingersGate(d, m) = FastFingersGate(o, w)
             /\ TrendiloGate(d, m) = TrendiloGate(o, w)
             /\ DXYGate(d, m) = DXYGate(o, w)
             /\ SentimentGate(d, m) = SentimentGate(o, w)
             /\ FVGGate(d, m) = FVGGate(o, w)
<1> DEFINE w == Mirror(m)
           o == Opposite(d)
<1>1. /\ w.missing = m.missing /\ w.swing = Inverted(m.swing)
      /\ w.bos.bullish = m.bos.bearish /\ w.bos.bearish = m.bos.bullish
      /\ w.fvg.bullish = Reflected(m.fvg.bearish) /\ w.fvg.bearish = Reflected(m.fvg.bullish)
      /\ w.ff.up = m.ff.down /\ w.ff.down = m.ff.up
      /\ w.trendilo.slope = Inverted(m.trendilo.slope) /\ w.trendilo.strength = m.trendilo.strength
      /\ w.dxy.block = Inverted(m.dxy.block) /\ w.dxy.strength = m.dxy.strength
      /\ w.sentiment.bias = Inverted(m.sentiment.bias)
      /\ w.sentiment.confidence = m.sentiment.confidence
  BY MirrorKeeps, MirrorTurns, MirrorTurnsRest
<1>2. /\ m.swing \in {"bullish", "bearish", "ranging"}
      /\ m.trendilo.slope \in {"up", "down", "flat"}
      /\ m.dxy.block \in {"BUY", "SELL", ""}
      /\ m.sentiment.bias \in {"bullish", "bearish", "neutral"}
  BY DEF Readings, Directions
<1>3. (d = "BUY" /\ o = "SELL") \/ (d = "SELL" /\ o = "BUY")
  BY DEF Directions, Opposite
<1> HIDE DEF w, o
<1>4. /\ w.swing = (CASE m.swing = "bullish" -> "bearish" [] m.swing = "bearish" -> "bullish"
                      [] OTHER -> "ranging")
      /\ w.trendilo.slope = (CASE m.trendilo.slope = "up" -> "down"
                               [] m.trendilo.slope = "down" -> "up" [] OTHER -> "flat")
      /\ w.dxy.block = (CASE m.dxy.block = "BUY" -> "SELL" [] m.dxy.block = "SELL" -> "BUY"
                          [] OTHER -> "")
      /\ w.sentiment.bias = (CASE m.sentiment.bias = "bullish" -> "bearish"
                               [] m.sentiment.bias = "bearish" -> "bullish" [] OTHER -> "neutral")
  BY <1>1, <1>2 DEF Inverted, Directions, Opposite
<1>5. SwingGate(d, m) = SwingGate(o, w)
  BY <1>1, <1>2, <1>3, <1>4 DEF SwingGate, PassIf, Has
<1>6. BOSGate(d, m) = BOSGate(o, w)
  BY <1>1, <1>3 DEF BOSGate, PassIf, Has
<1>7. FastFingersGate(d, m) = FastFingersGate(o, w)
  BY <1>1, <1>3 DEF FastFingersGate, PassIf, Has
<1>8. TrendiloGate(d, m) = TrendiloGate(o, w)
  BY <1>1, <1>2, <1>3, <1>4 DEF TrendiloGate, PassIf, Has
<1>9. DXYGate(d, m) = DXYGate(o, w)
  BY <1>1, <1>2, <1>3, <1>4 DEF DXYGate, Has
<1>10. SentimentGate(d, m) = SentimentGate(o, w)
  BY <1>1, <1>2, <1>3, <1>4 DEF SentimentGate, Has
<1>11. Gaps(o, w) = Reflected(Gaps(d, m))
  BY <1>1, <1>3 DEF Gaps
<1>12. FVGGate(d, m) = FVGGate(o, w)
  <2> DEFINE g == Gaps(d, m)
             h == Gaps(o, w)
  <2>1. DOMAIN h = DOMAIN g /\ \A i \in DOMAIN g : h[i].size = g[i].size
    BY <1>11 DEF Reflected
  <2> HIDE DEF g, h
  <2>2. FVGGate(d, m) = PassIf(~Has(m, "fvg") \/ \E i \in DOMAIN g : g[i].size >= 15)
    BY DEF FVGGate, g
  <2>3. FVGGate(o, w) = PassIf(~Has(w, "fvg") \/ \E i \in DOMAIN h : h[i].size >= 15)
    BY DEF FVGGate, h
  <2>4. Has(w, "fvg") <=> Has(m, "fvg")
    BY <1>1 DEF Has
  <2> QED
    BY <2>1, <2>2, <2>3, <2>4 DEF PassIf
<1> QED
  BY <1>5, <1>6, <1>7, <1>8, <1>9, <1>10, <1>12 DEF w, o

LEMMA SeqElements ==
  ASSUME NEW S, NEW s \in Seq(S)
  PROVE  DOMAIN s = 1 .. Len(s) /\ Len(s) \in Nat /\ \A i \in DOMAIN s : s[i] \in S
OBVIOUS

\* A bounded function on indices has a first largest value.
LEMMA FirstExists ==
  ASSUME NEW f, DOMAIN f \subseteq Nat, DOMAIN f # {}, NEW n \in Nat, \A i \in DOMAIN f : f[i] \in 0 .. n
  PROVE  FirstLargest(f) \in DOMAIN f
<1> DEFINE S == {f[i] : i \in DOMAIN f}
           T == {i \in DOMAIN f : f[i] = Max(S)}
<1>1. S \in SUBSET Int /\ S # {} /\ \A x \in S : x <= n
  OBVIOUS
<1>2. Max(S) \in S /\ \A y \in S : Max(S) >= y
  <2> HIDE DEF S
  <2>1. n \in Int
    OBVIOUS
  <2> QED
    BY <1>1, <2>1, Largest
<1>3. \A i \in DOMAIN f : Max(S) >= f[i] /\ f[i] \in Int
  BY <1>2
<1>4. T \in SUBSET Nat /\ T # {}
  BY <1>2
<1>5. PICK i \in T : \A j \in T : i <= j
  <2> HIDE DEF T
  <2> QED
    BY <1>4, LeastNat
<1>6. i \in DOMAIN f /\ f[i] = Max(S)
  BY <1>5
<1> HIDE DEF S
<1>7. \A j \in DOMAIN f : f[i] > f[j] \/ (f[i] = f[j] /\ i <= j)
  <2> SUFFICES ASSUME NEW j \in DOMAIN f, ~(f[i] > f[j]) PROVE f[i] = f[j] /\ i <= j
    OBVIOUS
  <2>1. f[i] = f[j] /\ j \in T
    BY <1>3, <1>6
  <2> QED
    BY <1>5, <2>1
<1> QED
  BY <1>6, <1>7 DEF FirstLargest

\* The same open trade counts in the mirror, and it is on the other side there.
LEMMA CorrelationAlike ==
  ASSUME NEW m \in Readings, NEW d \in Directions
  PROVE  CorrelationGate(d, m) = CorrelationGate(Opposite(d), Mirror(m))
<1> DEFINE w == Mirror(m)
           o == Opposite(d)
           others(x) == {i \in DOMAIN x.open : ~x.open[i].own /\ x.open[i].corr # 0}
           size(x) == [i \in others(x) |-> Size(x.open[i].corr)]
           first(x) == FirstLargest(size(x))
<1>0. m.open \in Seq([corr : -100 .. 100, direction : Directions, own : BOOLEAN])
  BY DEF Readings
<1>1. \A i \in DOMAIN m.open : m.open[i] \in [corr : -100 .. 100, direction : Directions, own : BOOLEAN]
  BY <1>0, SeqElements
<1>2. /\ DOMAIN w.open = DOMAIN m.open
      /\ \A i \in DOMAIN m.open : w.open[i] = [m.open[i] EXCEPT !.direction = Inverted(@)]
  BY MirrorTurnsRest DEF TurnedRound
<1>3. \A i \in DOMAIN m.open : /\ w.open[i].own = m.open[i].own /\ w.open[i].corr = m.open[i].corr
                               /\ w.open[i].direction = Opposite(m.open[i].direction)
  <2> TAKE i \in DOMAIN m.open
  <2> DEFINE x == m.open[i]
             y == w.open[i]
  <2>1. x \in [corr : -100 .. 100, direction : Directions, own : BOOLEAN]
    BY <1>1
  <2>2. y = [x EXCEPT !.direction = Inverted(x.direction)]
    BY <1>2
  <2> HIDE DEF x, y
  <2>3. Inverted(x.direction) = Opposite(x.direction)
    BY <2>1 DEF Inverted, Directions
  <2>4. y.own = x.own /\ y.corr = x.corr /\ y.direction = Opposite(x.direction)
    BY <2>1, <2>2, <2>3
  <2> QED
    BY <2>4 DEF x, y
<1> HIDE DEF w
<1>4. others(w) = others(m)
  BY <1>2, <1>3
<1>5. size(w) = size(m)
  BY <1>2, <1>3, <1>4
<1>6. first(w) = first(m)
  BY <1>5
<1>7. CorrelationGate(d, m) =
        IF others(m) = {} THEN Pass
        ELSE LET same == m.open[first(m)].direction = d
                 exposure == IF (m.open[first(m)].corr >= 0) = same THEN size(m)[first(m)] ELSE 0
             IN  IF exposure >= 90 THEN Block ELSE IF exposure >= 75 THEN Sized(50) ELSE Pass
  BY Zenon DEF CorrelationGate
<1>8. CorrelationGate(o, w) =
        IF others(w) = {} THEN Pass
        ELSE LET same == w.open[first(w)].direction = o
                 exposure == IF (w.open[first(w)].corr >= 0) = same THEN size(w)[first(w)] ELSE 0
             IN  IF exposure >= 90 THEN Block ELSE IF exposure >= 75 THEN Sized(50) ELSE Pass
  BY Zenon DEF CorrelationGate
<1>9. CASE others(m) = {}
  <2>1. CorrelationGate(d, m) = Pass
    BY <1>7, <1>9, Zenon
  <2>2. CorrelationGate(o, w) = Pass
    BY <1>4, <1>8, <1>9, Zenon
  <2> QED
    BY <2>1, <2>2, Zenon DEF w
<1>10. CASE others(m) # {}
  <2>1. first(m) \in DOMAIN m.open
    <3> DEFINE f == size(m)
    <3>1. DOMAIN f = others(m) /\ others(m) \subseteq Nat
      BY <1>0
    <3>2. \A i \in DOMAIN f : f[i] \in 0 .. 100
      BY <1>1 DEF Size
    <3> HIDE DEF f
    <3>3. FirstLargest(f) \in DOMAIN f
      BY <1>10, <3>1, <3>2, FirstExists
    <3> QED
      BY <3>1, <3>3 DEF f
  <2>2. w.open[first(m)].corr = m.open[first(m)].corr
    BY <1>3, <2>1
  <2>3. (w.open[first(m)].direction = o) = (m.open[first(m)].direction = d)
    BY <1>1, <1>3, <2>1 DEF Directions, Opposite
  <2> HIDE DEF others, size, first
  <2>4. CorrelationGate(o, w) = CorrelationGate(d, m)
    BY <1>4, <1>5, <1>6, <1>7, <1>8, <1>10, <2>2, <2>3
  <2> QED
    BY <2>4 DEF w
<1> QED
  BY <1>9, <1>10

LEMMA GatesAlike ==
  ASSUME NEW m \in Readings, NEW d \in Directions, NEW t \in Tools
  PROVE  Gate(t, d, m) = Gate(t, Opposite(d), Mirror(m))
<1> DEFINE w == Mirror(m)
           o == Opposite(d)
<1>1. d # Unknown /\ o # Unknown
  BY DEF Directions, Opposite, Unknown
<1>2. CASE t \notin RequiresDirection
  BY <1>1, <1>2, NeutralGates
<1>3. CASE t \in RequiresDirection
  <2>1. t \in {"dxy_filter", "sentiment_filter", "ema200_filter", "alma_filter", "ema_crossover",
               "macd_filter", "bollinger_filter", "rsi_feature", "swing_structure", "bos_guard",
               "fvg_guard", "vwap_guard", "correlation_guard", "trendilo", "fast_fingers"}
    BY <1>3 DEF RequiresDirection, Tools
  <2>2. /\ LevelGate(d, m, "ema200", m.ema200) = LevelGate(o, w, "ema200", w.ema200)
        /\ LevelGate(d, m, "alma", m.alma) = LevelGate(o, w, "alma", w.alma)
        /\ CrossoverGate(d, m) = CrossoverGate(o, w) /\ MACDGate(d, m) = MACDGate(o, w)
        /\ BollingerGate(d, m) = BollingerGate(o, w) /\ RSIGate(d, m) = RSIGate(o, w)
        /\ VWAPGate(d, m) = VWAPGate(o, w)
    BY ReadingGates
  <2>3. /\ SwingGate(d, m) = SwingGate(o, w) /\ BOSGate(d, m) = BOSGate(o, w)
        /\ FastFingersGate(d, m) = FastFingersGate(o, w)
        /\ TrendiloGate(d, m) = TrendiloGate(o, w) /\ DXYGate(d, m) = DXYGate(o, w)
        /\ SentimentGate(d, m) = SentimentGate(o, w) /\ FVGGate(d, m) = FVGGate(o, w)
    BY WordGates
  <2>4. CorrelationGate(d, m) = CorrelationGate(o, w)
    BY CorrelationAlike
  <2> HIDE DEF w, o
  <2>5. Gate(t, d, m) = Gate(t, o, w)
    BY <1>1, <2>1, <2>2, <2>3, <2>4 DEF Gate
  <2> QED
    BY <2>5 DEF w, o
<1> QED
  BY <1>2, <1>3

-----------------------------------------------------------------------------
\* Features

\* The features that take a direction score the same.
LEMMA FeaturesAlike ==
  ASSUME NEW m \in Readings, NEW d \in Directions, NEW t \in DirectionAware
  PROVE  Features(t, d, m) = Features(t, Opposite(d), Mirror(m))
<1> DEFINE w == Mirror(m)
           o == Opposite(d)
<1>1. /\ w.missing = m.missing /\ w.atr = m.atr /\ w.rsi = 100 - m.rsi
      /\ w.ask = Axis - m.bid /\ w.bid = Axis - m.ask /\ w.vwap = Axis - m.vwap
      /\ w.swing = Inverted(m.swing)
      /\ w.bos.bullish = m.bos.bearish /\ w.bos.bearish = m.bos.bullish
      /\ w.bos.bullBreak = m.bos.bearBreak /\ w.bos.bearBreak = m.bos.bullBreak
      /\ w.fvg.bullish = Reflected(m.fvg.bearish) /\ w.fvg.bearish = Reflected(m.fvg.bullish)
  BY MirrorKeeps, MirrorTurns, MirrorTurnsRest
<1>2. /\ m.ask \in Int /\ m.bid \in Int /\ m.vwap \in Int /\ m.rsi \in Int
      /\ m.swing \in {"bullish", "bearish", "ranging"}
  BY DEF Readings
<1>3. (d = "BUY" /\ o = "SELL") \/ (d = "SELL" /\ o = "BUY")
  BY DEF Directions, Opposite
<1>4. \A r : Has(w, r) <=> Has(m, r)
  BY <1>1 DEF Has
<1>0. Axis \in Int
  BY DEF Axis
<1>f. Gaps(o, w) = Reflected(Gaps(d, m))
  BY <1>1, <1>3 DEF Gaps
<1>g. m.fvg.bullish \in Seq(Gap) /\ m.fvg.bearish \in Seq(Gap)
  BY DEF Readings
<1> HIDE DEF w, o
<1>5. RSIFeature(d, m) = RSIFeature(o, w)
  <2>1. 100 - (100 - m.rsi) = m.rsi
    BY <1>2
  <2> QED
    BY <1>1, <1>3, <1>4, <2>1 DEF RSIFeature, Unknown
<1>6. BOSScore(d, m) = BOSScore(o, w)
  BY <1>1, <1>3 DEF BOSScore
<1>7. SwingScore(d, m) = SwingScore(o, w)
  <2>1. w.swing = (CASE m.swing = "bullish" -> "bearish" [] m.swing = "bearish" -> "bullish"
                     [] OTHER -> "ranging")
    BY <1>1, <1>2 DEF Inverted, Directions
  <2>2. CASE m.swing = "ranging"
    <3>1. w.swing = "ranging"
      BY <2>1, <2>2
    <3> QED
      BY ZenonT(60), <1>3, <2>2, <3>1 DEF SwingScore, Unknown
  <2>3. CASE m.swing = "bullish"
    <3>1. w.swing = "bearish"
      BY <2>1, <2>3
    <3> QED
      BY <1>3, <2>3, <3>1 DEF SwingScore
  <2>4. CASE m.swing = "bearish"
    <3>1. w.swing = "bullish"
      BY <2>1, <2>4
    <3> QED
      BY <1>3, <2>4, <3>1 DEF SwingScore
  <2> QED
    BY <1>2, <2>2, <2>3, <2>4
<1>8. VWAPScore(d, m) = VWAPScore(o, w)
  <2>1. CASE d = "BUY"
    <3>1. Side(d, m) - m.vwap = -(Side(o, w) - w.vwap)
      BY <1>0, <1>1, <1>2, <1>3, <2>1 DEF Side
    <3> QED
      BY <1>1, <1>3, <2>1, <3>1 DEF VWAPScore
  <2>2. CASE d = "SELL"
    <3>1. -(Side(d, m) - m.vwap) = Side(o, w) - w.vwap
      BY <1>0, <1>1, <1>2, <1>3, <2>2 DEF Side
    <3> QED
      BY ZenonT(60), <1>1, <1>3, <2>2, <3>1 DEF VWAPScore
  <2> QED
    BY <2>1, <2>2 DEF Directions
<1>9. FVGScore(d, m) = FVGScore(o, w)
  <2> DEFINE g == Gaps(d, m)
             h == Gaps(o, w)
  <2>1. g \in Seq(Gap)
    BY <1>3, <1>g DEF Gaps
  <2>2. DOMAIN h = DOMAIN g /\ (\A i \in DOMAIN g : h[i].size = g[i].size) /\ Len(h) = Len(g)
        /\ (h = <<>> <=> g = <<>>)
    <3>1. h = [i \in DOMAIN g |-> [bottom |-> Axis - g[i].top, top |-> Axis - g[i].bottom,
                                  size |-> g[i].size]]
      BY <1>f DEF Reflected
    <3> HIDE DEF g, h
    <3>2. DOMAIN h = DOMAIN g /\ (\A i \in DOMAIN g : h[i].size = g[i].size)
      BY <3>1
    <3>3. DOMAIN g = 1 .. Len(g) /\ Len(g) \in Nat
      BY <2>1
    <3>4. h \in Seq({h[i] : i \in DOMAIN h}) /\ Len(h) = Len(g)
      BY <3>1, <3>2, <3>3
    <3>5. (h = <<>> <=> Len(h) = 0) /\ (g = <<>> <=> Len(g) = 0)
      BY <2>1, <3>4
    <3> QED
      BY <3>2, <3>4, <3>5
  <2> HIDE DEF g, h
  <2> DEFINE gs == {g[i].size : i \in DOMAIN g}
             hs == {h[i].size : i \in DOMAIN h}
  <2>3. hs = gs
    BY <2>2
  <2>4. FVGScore(d, m) =
          IF g = <<>> THEN Twice ELSE <<Clamp(500 + Len(g) * 250), Clamp(500 + Max(gs) * 10)>>
    BY DEF FVGScore, g
  <2>5. FVGScore(o, w) =
          IF h = <<>> THEN Twice ELSE <<Clamp(500 + Len(h) * 250), Clamp(500 + Max(hs) * 10)>>
    BY DEF FVGScore, h
  <2> HIDE DEF gs, hs
  <2> QED
    BY <2>2, <2>3, <2>4, <2>5
<1>10. DirectionFeatures(t, d, m) = DirectionFeatures(t, o, w)
  BY <1>1, <1>4, <1>5, <1>6, <1>7, <1>8, <1>9 DEF DirectionFeatures, DirectionAware
<1> QED
  BY <1>10 DEF Features, w, o

-----------------------------------------------------------------------------
\* Construction

LEMMA ParamNumbers ==
  ASSUME NEW p \in [ParamKeys -> Int]
  PROVE  /\ p.slMin \in Int /\ p.slMax \in Int /\ p.atrMult \in Int /\ p.buffer \in Int
         /\ p.tp1 \in Int /\ p.tp2 \in Int
<1>1. {"slMin", "slMax", "atrMult", "buffer", "tp1", "tp2"} \subseteq ParamKeys
  BY DEF ParamKeys
<1> QED
  BY <1>1

LEMMA SaneIsTyped ==
  ASSUME NEW p \in [ParamKeys -> Int]
  PROVE  Sane(p) \in [ParamKeys -> Int]
<1> DEFINE slMin == IF p.slMin <= 0 THEN 1 ELSE p.slMin
           tp1 == IF p.tp1 <= 0 THEN 50 ELSE p.tp1
<1>1. /\ p.slMin \in Int /\ p.slMax \in Int /\ p.atrMult \in Int /\ p.buffer \in Int
      /\ p.tp1 \in Int /\ p.tp2 \in Int
  BY ParamNumbers
<1>2. slMin \in Int /\ tp1 \in Int /\ slMin * 10 \in Int
  BY <1>1
<1>3. Max({p.tp2, tp1}) \in Int /\ Max({p.atrMult, 0}) \in Int
  BY <1>1, <1>2, MaxOfTwo
<1>4. Sane(p) = [p EXCEPT !.slMin = slMin, !.slMax = IF p.slMax <= slMin THEN slMin * 10 ELSE p.slMax,
                          !.tp1 = tp1, !.tp2 = Max({p.tp2, tp1}), !.atrMult = Max({p.atrMult, 0})]
  BY DEF Sane
<1> HIDE DEF slMin, tp1
<1> QED
  BY <1>1, <1>2, <1>3, <1>4

LEMMA ParamsAreNumbers ==
  ASSUME NEW layers \in Layers
  PROVE  ConstructionParams(BaseParams, layers) \in [ParamKeys -> Int]
<1> DEFINE p == Overlay(BaseParams, layers)
<1>1. p \in [ParamKeys -> Int]
  <2>1. BaseParams \in [ParamKeys -> Int]
    BY ParamAssumption
  <2>2. ASSUME NEW k \in ParamKeys PROVE p[k] \in Int
    <3> DEFINE having == {i \in DOMAIN layers : k \in DOMAIN layers[i]}
    <3>1. p[k] = IF having = {} THEN BaseParams[k] ELSE layers[Max(having)][k]
      BY <2>1 DEF Overlay
    <3>2. having \in SUBSET Int /\ Len(layers) \in Int /\ \A i \in having : i <= Len(layers)
      BY ParamAssumption
    <3>3. \A i \in having : layers[i][k] \in Int
      BY ParamAssumption
    <3> HIDE DEF having, p
    <3>4. having # {} => Max(having) \in having
      BY <3>2, Largest
    <3> QED
      BY <2>1, <3>1, <3>3, <3>4
  <2> QED
    BY <2>1, <2>2 DEF Overlay
<1> QED
  BY <1>1, SaneIsTyped DEF ConstructionParams, p

Refl(s) == [i \in DOMAIN s |-> Axis - s[i]]

LEMMA ReflShort ==
  /\ Refl(<<>>) = <<>>
  /\ \A x : Refl(<<x>>) = <<Axis - x>>
BY DEF Refl

LEMMA ReflIsList ==
  ASSUME NEW s \in Seq(Int)
  PROVE  /\ Refl(s) \in Seq(Int) /\ Len(Refl(s)) = Len(s) /\ DOMAIN Refl(s) = 1 .. Len(s)
         /\ \A i \in 1 .. Len(s) : Refl(s)[i] = Axis - s[i]
<1> DEFINE r == Refl(s)
<1>0. Axis \in Int
  BY DEF Axis
<1>1. DOMAIN s = 1 .. Len(s) /\ Len(s) \in Nat /\ \A i \in DOMAIN s : s[i] \in Int
  BY SeqElements
<1>2. r = [i \in 1 .. Len(s) |-> Axis - s[i]]
  BY <1>1 DEF Refl
<1>3. \A i \in 1 .. Len(s) : Axis - s[i] \in Int
  BY <1>0, <1>1
<1> HIDE DEF r
<1>4. r \in Seq(Int) /\ Len(r) = Len(s)
  BY <1>1, <1>2, <1>3
<1> QED
  BY <1>2, <1>4 DEF r

LEMMA SameElements ==
  ASSUME NEW a \in Seq(Int), NEW b \in Seq(Int), Len(a) = Len(b), \A i \in 1 .. Len(a) : a[i] = b[i]
  PROVE  a = b
OBVIOUS

LEMMA ConcatOfTwo ==
  ASSUME NEW a \in Seq(Int), NEW b \in Seq(Int)
  PROVE  /\ a \o b \in Seq(Int) /\ Len(a \o b) = Len(a) + Len(b)
         /\ \A i \in 1 .. Len(a) + Len(b) : (a \o b)[i] = IF i <= Len(a) THEN a[i] ELSE b[i - Len(a)]
<1>1. a \o b \in Seq(Int) /\ Len(a \o b) = Len(a) + Len(b)
  OBVIOUS
<1>2. \A i \in 1 .. Len(a) + Len(b) : (a \o b)[i] = IF i <= Len(a) THEN a[i] ELSE b[i - Len(a)]
  OBVIOUS
<1> QED
  BY <1>1, <1>2

\* The mirror image of a list of levels, piece by piece.
LEMMA ReflOfTwo ==
  ASSUME NEW a \in Seq(Int), NEW b \in Seq(Int)
  PROVE  Refl(a \o b) = Refl(a) \o Refl(b)
<1> DEFINE c == a \o b
           x == Refl(a)
           y == Refl(b)
           z == Refl(c)
           xy == x \o y
<1>1. Len(a) \in Nat /\ Len(b) \in Nat
  OBVIOUS
<1>2. c \in Seq(Int) /\ Len(c) = Len(a) + Len(b)
  OBVIOUS
<1>3. \A i \in 1 .. Len(a) + Len(b) : c[i] = IF i <= Len(a) THEN a[i] ELSE b[i - Len(a)]
  OBVIOUS
<1> HIDE DEF c
<1>4. x \in Seq(Int) /\ Len(x) = Len(a) /\ \A i \in 1 .. Len(a) : x[i] = Axis - a[i]
  BY ReflIsList
<1>5. y \in Seq(Int) /\ Len(y) = Len(b) /\ \A i \in 1 .. Len(b) : y[i] = Axis - b[i]
  BY ReflIsList
<1>6. z \in Seq(Int) /\ Len(z) = Len(c) /\ \A i \in 1 .. Len(c) : z[i] = Axis - c[i]
  BY <1>2, ReflIsList
<1> HIDE DEF x, y, z
<1>7. xy \in Seq(Int) /\ Len(xy) = Len(x) + Len(y)
  BY <1>4, <1>5, ConcatOfTwo
<1>8. \A i \in 1 .. Len(x) + Len(y) : xy[i] = IF i <= Len(x) THEN x[i] ELSE y[i - Len(x)]
  BY <1>4, <1>5, ConcatOfTwo
<1> HIDE DEF xy
<1>9. ASSUME NEW i \in 1 .. Len(a) + Len(b) PROVE z[i] = xy[i]
  <2>1. CASE i <= Len(a)
    <3>1. i \in 1 .. Len(a)
      BY <1>1, <2>1
    <3> QED
      BY <1>1, <1>2, <1>3, <1>4, <1>5, <1>6, <1>8, <2>1, <3>1
  <2>2. CASE ~(i <= Len(a))
    <3>1. i - Len(a) \in 1 .. Len(b)
      BY <1>1, <2>2
    <3> QED
      BY <1>1, <1>2, <1>3, <1>4, <1>5, <1>6, <1>8, <2>2, <3>1
  <2> QED
    BY <2>1, <2>2
<1>10. Len(z) = Len(a) + Len(b) /\ Len(xy) = Len(a) + Len(b)
  BY <1>2, <1>4, <1>5, <1>6, <1>7
<1>11. z = xy
  BY <1>6, <1>7, <1>9, <1>10, SameElements
<1> QED
  BY <1>11 DEF x, y, z, c, xy

\* The three kinds of levels.
LEMMA SwingAlike ==
  ASSUME NEW m \in Readings, NEW d \in Directions, NEW entry \in Int, NEW buffer \in Int
  PROVE  /\ SwingLevel(d, m, entry, buffer) \in Level(Int)
         /\ SwingLevel(Opposite(d), Mirror(m), Axis - entry, buffer) = Refl(SwingLevel(d, m, entry, buffer))
<1>1. m.swingLows \subseteq Int /\ m.swingHighs \subseteq Int /\ Axis \in Int
  <2>1. m.swingLows \subseteq Int /\ m.swingHighs \subseteq Int
    BY DEF Readings
  <2> QED
    BY <2>1 DEF Axis
<1>2. /\ Mirror(m).swingLows = {Axis - x : x \in m.swingHighs}
      /\ Mirror(m).swingHighs = {Axis - x : x \in m.swingLows}
  BY MirrorTurnsRest
<1>3. CASE d = "BUY"
  <2> DEFINE below == {s \in m.swingLows : s < entry}
             above == {s \in Mirror(m).swingHighs : s > Axis - entry}
  <2>1. above = {Axis - x : x \in below}
    BY <1>1, <1>2
  <2>2. below \in SUBSET Int /\ \A x \in below : x <= entry
    BY <1>1
  <2>3. Opposite(d) = "SELL"
    BY <1>3 DEF Opposite
  <2>4. /\ SwingLevel(d, m, entry, buffer) = IF below = {} THEN <<>> ELSE <<Max(below) - buffer>>
        /\ SwingLevel(Opposite(d), Mirror(m), Axis - entry, buffer)
             = IF above = {} THEN <<>> ELSE <<Min(above) + buffer>>
    BY <1>3, <2>3 DEF SwingLevel
  <2> HIDE DEF below, above
  <2>5. CASE below = {}
    BY <2>1, <2>4, <2>5, ReflShort DEF Level
  <2>6. CASE below # {}
    <3>1. Max(below) \in Int /\ Min(above) = Axis - Max(below) /\ above # {}
      BY <2>1, <2>2, <2>6, Largest, ReflectedMax
    <3>2. Min(above) + buffer = Axis - (Max(below) - buffer) /\ Max(below) - buffer \in Int
      BY <1>1, <3>1
    <3> QED
      BY <2>4, <2>6, <3>1, <3>2, ReflShort DEF Level
  <2> QED
    BY <2>5, <2>6
<1>4. CASE d = "SELL"
  <2> DEFINE above == {s \in m.swingHighs : s > entry}
             below == {s \in Mirror(m).swingLows : s < Axis - entry}
  <2>1. below = {Axis - x : x \in above}
    BY <1>1, <1>2
  <2>2. above \in SUBSET Int /\ \A x \in above : x >= entry
    BY <1>1
  <2>3. Opposite(d) = "BUY" /\ d # "BUY"
    BY <1>4 DEF Opposite
  <2>4. /\ SwingLevel(d, m, entry, buffer) = IF above = {} THEN <<>> ELSE <<Min(above) + buffer>>
        /\ SwingLevel(Opposite(d), Mirror(m), Axis - entry, buffer)
             = IF below = {} THEN <<>> ELSE <<Max(below) - buffer>>
    BY <2>3 DEF SwingLevel
  <2> HIDE DEF below, above
  <2>5. CASE above = {}
    BY <2>1, <2>4, <2>5, ReflShort DEF Level
  <2>6. CASE above # {}
    <3>1. Min(above) \in Int /\ Max(below) = Axis - Min(above) /\ below # {}
      BY <2>1, <2>2, <2>6, Smallest, ReflectedMin
    <3>2. Max(below) - buffer = Axis - (Min(above) + buffer) /\ Min(above) + buffer \in Int
      BY <1>1, <3>1
    <3> QED
      BY <2>4, <2>6, <3>1, <3>2, ReflShort DEF Level
  <2> QED
    BY <2>5, <2>6
<1> QED
  BY <1>3, <1>4 DEF Directions

LEMMA GapList ==
  ASSUME NEW g \in Seq(Gap)
  PROVE  /\ DOMAIN g = 1 .. Len(g) /\ Len(g) \in Nat
         /\ \A i \in DOMAIN g : g[i].bottom \in Int /\ g[i].top \in Int
<1>1. DOMAIN g = 1 .. Len(g) /\ Len(g) \in Nat /\ \A i \in DOMAIN g : g[i] \in Gap
  BY SeqElements
<1>2. \A x \in Gap : x.bottom \in Int /\ x.top \in Int
  BY DEF Gap
<1> QED
  BY <1>1, <1>2

LEMMA GapAlike ==
  ASSUME NEW m \in Readings, NEW d \in Directions, NEW entry \in Int, NEW buffer \in Int
  PROVE  /\ GapLevel(d, m, entry, buffer) \in Level(Int)
         /\ GapLevel(Opposite(d), Mirror(m), Axis - entry, buffer) = Refl(GapLevel(d, m, entry, buffer))
<1> DEFINE w == Mirror(m)
<1>0. Axis \in Int
  BY DEF Axis
<1>1. m.fvg.bullish \in Seq(Gap) /\ m.fvg.bearish \in Seq(Gap)
  BY DEF Readings
<1>2. /\ DOMAIN m.fvg.bullish = 1 .. Len(m.fvg.bullish) /\ Len(m.fvg.bullish) \in Nat
      /\ \A i \in DOMAIN m.fvg.bullish : m.fvg.bullish[i].bottom \in Int /\ m.fvg.bullish[i].top \in Int
  BY <1>1, GapList
<1>3. /\ DOMAIN m.fvg.bearish = 1 .. Len(m.fvg.bearish) /\ Len(m.fvg.bearish) \in Nat
      /\ \A i \in DOMAIN m.fvg.bearish : m.fvg.bearish[i].bottom \in Int /\ m.fvg.bearish[i].top \in Int
  BY <1>1, GapList
<1>4. w.fvg.bullish = Reflected(m.fvg.bearish) /\ w.fvg.bearish = Reflected(m.fvg.bullish)
  BY MirrorTurnsRest
<1>5. /\ DOMAIN w.fvg.bullish = DOMAIN m.fvg.bearish
      /\ \A i \in DOMAIN m.fvg.bearish : w.fvg.bullish[i].bottom = Axis - m.fvg.bearish[i].top
  BY <1>4 DEF Reflected
<1>6. /\ DOMAIN w.fvg.bearish = DOMAIN m.fvg.bullish
      /\ \A i \in DOMAIN m.fvg.bullish : w.fvg.bearish[i].top = Axis - m.fvg.bullish[i].bottom
  BY <1>4 DEF Reflected
<1>7. Has(w, "fvg") <=> Has(m, "fvg")
  BY MirrorKeeps DEF Has
<1> HIDE DEF w
<1>8. CASE ~Has(m, "fvg")
  <2>1. GapLevel(d, m, entry, buffer) = <<>> /\ GapLevel(Opposite(d), w, Axis - entry, buffer) = <<>>
    BY <1>7, <1>8 DEF GapLevel
  <2> QED
    BY <2>1, ReflShort DEF Level, w
<1>9. CASE Has(m, "fvg") /\ d = "BUY"
  <2> DEFINE below == {i \in DOMAIN m.fvg.bullish : m.fvg.bullish[i].bottom < entry}
             above == {i \in DOMAIN w.fvg.bearish : w.fvg.bearish[i].top > Axis - entry}
  <2>1. above = below
    BY <1>0, <1>2, <1>6
  <2>2. below \in SUBSET Int /\ Len(m.fvg.bullish) \in Int /\ \A x \in below : x <= Len(m.fvg.bullish)
    BY <1>2
  <2>3. below \subseteq DOMAIN m.fvg.bullish
    OBVIOUS
  <2>4. Opposite(d) = "SELL"
    BY <1>9 DEF Opposite
  <2>5. /\ GapLevel(d, m, entry, buffer)
             = IF below = {} THEN <<>> ELSE <<m.fvg.bullish[Max(below)].bottom - buffer>>
        /\ GapLevel(Opposite(d), w, Axis - entry, buffer)
             = IF above = {} THEN <<>> ELSE <<w.fvg.bearish[Max(above)].top + buffer>>
    BY <1>7, <1>9, <2>4 DEF GapLevel
  <2> HIDE DEF below, above
  <2>6. CASE below = {}
    BY <2>1, <2>5, <2>6, ReflShort DEF Level, w
  <2>7. CASE below # {}
    <3>1. Max(below) \in DOMAIN m.fvg.bullish
      <4>1. Max(below) \in below
        BY <2>2, <2>7, Largest
      <4> QED
        BY <2>3, <4>1
    <3> DEFINE bottom == m.fvg.bullish[Max(below)].bottom
               top == w.fvg.bearish[Max(above)].top
    <3>2. bottom \in Int /\ top = Axis - bottom
      BY <1>2, <1>6, <2>1, <3>1
    <3> HIDE DEF bottom, top
    <3>3. top + buffer = Axis - (bottom - buffer) /\ bottom - buffer \in Int
      BY <1>0, <3>2
    <3>4. GapLevel(d, m, entry, buffer) = <<bottom - buffer>>
      BY <2>5, <2>7 DEF bottom
    <3>5. GapLevel(Opposite(d), w, Axis - entry, buffer) = <<top + buffer>>
      BY <2>1, <2>5, <2>7 DEF top
    <3> QED
      BY <3>3, <3>4, <3>5, ReflShort DEF Level, w
  <2> QED
    BY <2>6, <2>7
<1>10. CASE Has(m, "fvg") /\ d = "SELL"
  <2> DEFINE above == {i \in DOMAIN m.fvg.bearish : m.fvg.bearish[i].top > entry}
             below == {i \in DOMAIN w.fvg.bullish : w.fvg.bullish[i].bottom < Axis - entry}
  <2>1. above = below
    BY <1>0, <1>3, <1>5
  <2>2. above \in SUBSET Int /\ Len(m.fvg.bearish) \in Int /\ \A x \in above : x <= Len(m.fvg.bearish)
    BY <1>3
  <2>3. above \subseteq DOMAIN m.fvg.bearish
    OBVIOUS
  <2>4. Opposite(d) = "BUY" /\ d # "BUY"
    BY <1>10 DEF Opposite
  <2>5. /\ GapLevel(d, m, entry, buffer)
             = IF above = {} THEN <<>> ELSE <<m.fvg.bearish[Max(above)].top + buffer>>
        /\ GapLevel(Opposite(d), w, Axis - entry, buffer)
             = IF below = {} THEN <<>> ELSE <<w.fvg.bullish[Max(below)].bottom - buffer>>
    BY <1>7, <1>10, <2>4 DEF GapLevel
  <2> HIDE DEF below, above
  <2>6. CASE above = {}
    BY <2>1, <2>5, <2>6, ReflShort DEF Level, w
  <2>7. CASE above # {}
    <3>1. Max(above) \in DOMAIN m.fvg.bearish
      <4>1. Max(above) \in above
        BY <2>2, <2>7, Largest
      <4> QED
        BY <2>3, <4>1
    <3> DEFINE top == m.fvg.bearish[Max(above)].top
               bottom == w.fvg.bullish[Max(below)].bottom
    <3>2. top \in Int /\ bottom = Axis - top
      BY <1>3, <1>5, <2>1, <3>1
    <3> HIDE DEF bottom, top
    <3>3. bottom - buffer = Axis - (top + buffer) /\ top + buffer \in Int
      BY <1>0, <3>2
    <3>4. GapLevel(d, m, entry, buffer) = <<top + buffer>>
      BY <2>5, <2>7 DEF top
    <3>5. GapLevel(Opposite(d), w, Axis - entry, buffer) = <<bottom - buffer>>
      BY <2>1, <2>5, <2>7 DEF bottom
    <3> QED
      BY <3>3, <3>4, <3>5, ReflShort DEF Level, w
  <2> QED
    BY <2>6, <2>7
<1> QED
  BY <1>8, <1>9, <1>10 DEF Directions

LEMMA ATRAlike ==
  ASSUME NEW m \in Readings, NEW d \in Directions, NEW entry \in Int, NEW buffer \in Int,
         NEW p \in [ParamKeys -> Int]
  PROVE  /\ ATRLevel(d, m, entry, buffer, p) \in Level(Int)
         /\ ATRLevel(Opposite(d), Mirror(m), Axis - entry, buffer, p) = Refl(ATRLevel(d, m, entry, buffer, p))
<1> DEFINE w == Mirror(m)
           distance == (m.atr * p.atrMult) \div 100 + buffer
<1>0. Axis \in Int
  BY DEF Axis
<1>1. w.atr = m.atr
  BY MirrorKeeps
<1>2. distance \in Int
  <2>0. m.atr \in Int
    <3>1. m.atr \in Nat
      BY DEF Readings
    <3> QED
      BY <3>1
  <2>1. p.atrMult \in Int
    BY ParamNumbers
  <2>2. m.atr * p.atrMult \in Int
    BY <2>0, <2>1
  <2>3. (m.atr * p.atrMult) \div 100 \in Int
    BY <2>2
  <2> QED
    BY <2>3
<1>3. ATRLevel(d, m, entry, buffer, p) =
        IF m.atr = 0 \/ p.atrMult = 0 THEN <<>>
        ELSE IF d = "BUY" THEN <<entry - distance>> ELSE <<entry + distance>>
  BY DEF ATRLevel
<1>4. ATRLevel(Opposite(d), w, Axis - entry, buffer, p) =
        IF m.atr = 0 \/ p.atrMult = 0 THEN <<>>
        ELSE IF Opposite(d) = "BUY" THEN <<Axis - entry - distance>> ELSE <<Axis - entry + distance>>
  BY <1>1 DEF ATRLevel
<1> HIDE DEF w, distance
<1>5. CASE m.atr = 0 \/ p.atrMult = 0
  BY <1>3, <1>4, <1>5, ReflShort DEF Level, w
<1>6. CASE ~(m.atr = 0 \/ p.atrMult = 0) /\ d = "BUY"
  <2>1. Opposite(d) # "BUY"
    BY <1>6 DEF Opposite
  <2>2. entry - distance \in Int /\ Axis - entry + distance = Axis - (entry - distance)
    BY <1>0, <1>2
  <2> QED
    BY <1>3, <1>4, <1>6, <2>1, <2>2, ReflShort DEF Level, w
<1>7. CASE ~(m.atr = 0 \/ p.atrMult = 0) /\ d # "BUY"
  <2>1. Opposite(d) = "BUY"
    BY <1>7 DEF Opposite
  <2>2. entry + distance \in Int /\ Axis - entry - distance = Axis - (entry + distance)
    BY <1>0, <1>2
  <2> QED
    BY <1>3, <1>4, <1>7, <2>1, <2>2, ReflShort DEF Level, w
<1> QED
  BY <1>5, <1>6, <1>7

LEMMA EntryAlike ==
  ASSUME NEW m \in Readings, NEW d \in Directions
  PROVE  Side(d, m) \in Int /\ Side(Opposite(d), Mirror(m)) = Axis - Side(d, m)
<1>1. m.ask \in Int /\ m.bid \in Int
  BY DEF Readings
<1>2. Mirror(m).ask = Axis - m.bid /\ Mirror(m).bid = Axis - m.ask
  BY MirrorTurns
<1> QED
  BY <1>1, <1>2 DEF Side, Opposite, Directions

\* The mirror image has the mirrored candidates, in the same order.
LEMMA CandidatesAlike ==
  ASSUME NEW m \in Readings, NEW d \in Directions, NEW p \in [ParamKeys -> Int]
  PROVE  /\ Candidates(d, m, p) \in Seq(Int)
         /\ Candidates(Opposite(d), Mirror(m), p) = Refl(Candidates(d, m, p))
<1> DEFINE o == Opposite(d)
           w == Mirror(m)
           entry == Side(d, m)
           buffer == (m.atr * p.buffer) \div 100
           a == SwingLevel(d, m, entry, buffer)
           b == GapLevel(d, m, entry, buffer)
           c == ATRLevel(d, m, entry, buffer, p)
<1>1. buffer \in Int
  <2>0. m.atr \in Int
    <3>1. m.atr \in Nat
      BY DEF Readings
    <3> QED
      BY <3>1
  <2>1. p.buffer \in Int
    BY ParamNumbers
  <2>2. m.atr * p.buffer \in Int
    BY <2>0, <2>1
  <2> QED
    BY <2>2
<1>2. entry \in Int /\ Side(o, w) = Axis - entry
  BY EntryAlike
<1>3. w.atr = m.atr
  BY MirrorKeeps
<1>4. Candidates(d, m, p) = a \o b \o c
  BY DEF Candidates
<1>5. Candidates(o, w, p) = SwingLevel(o, w, Axis - entry, buffer) \o GapLevel(o, w, Axis - entry, buffer)
                              \o ATRLevel(o, w, Axis - entry, buffer, p)
  BY <1>2, <1>3 DEF Candidates
<1> HIDE DEF entry, buffer
<1>6. /\ a \in Level(Int) /\ b \in Level(Int) /\ c \in Level(Int)
      /\ SwingLevel(o, w, Axis - entry, buffer) = Refl(a)
      /\ GapLevel(o, w, Axis - entry, buffer) = Refl(b)
      /\ ATRLevel(o, w, Axis - entry, buffer, p) = Refl(c)
  BY <1>1, <1>2, SwingAlike, GapAlike, ATRAlike
<1> HIDE DEF a, b, c, o, w
<1>7. a \in Seq(Int) /\ b \in Seq(Int) /\ c \in Seq(Int)
  BY <1>6, LevelIsShort
<1>8. a \o b \in Seq(Int)
  BY <1>7, ConcatOfTwo
<1>9. a \o b \o c \in Seq(Int)
  BY <1>7, <1>8, ConcatOfTwo
<1>10. Refl(a \o b \o c) = Refl(a) \o Refl(b) \o Refl(c)
  <2>1. Refl(a \o b \o c) = Refl(a \o b) \o Refl(c)
    BY <1>7, <1>8, ReflOfTwo
  <2>2. Refl(a \o b) = Refl(a) \o Refl(b)
    BY <1>7, ReflOfTwo
  <2> QED
    BY <2>1, <2>2
<1> QED
  BY <1>4, <1>5, <1>6, <1>9, <1>10 DEF o, w

LEMMA SizeOfTurned ==
  ASSUME NEW a \in Int, NEW b \in Int
  PROVE  /\ (Axis - a) - (Axis - b) = b - a /\ a - b \in Int
         /\ Size((Axis - a) - (Axis - b)) = Size(a - b) /\ Size(a - b) \in Int
<1>1. Axis \in Int
  BY DEF Axis
<1>2. (Axis - a) - (Axis - b) = b - a
  BY <1>1
<1>3. Size(b - a) = Size(a - b) /\ Size(a - b) \in Int
  BY DEF Size
<1> QED
  BY <1>2, <1>3

LEMMA TargetAlike ==
  ASSUME NEW d \in Directions, NEW entry \in Int, NEW delta \in Int, NEW rr \in Int
  PROVE  /\ Target(d, entry, delta, rr) \in Int
         /\ Target(Opposite(d), Axis - entry, delta, rr) = Axis - Target(d, entry, delta, rr)
<1> DEFINE x == (delta * rr) \div 100
<1>1. x \in Int
  <2>1. delta * rr \in Int
    OBVIOUS
  <2> QED
    BY <2>1
<1>2. Axis \in Int
  BY DEF Axis
<1>3. Target(d, entry, delta, rr) = IF d = "BUY" THEN entry + x ELSE entry - x
  BY DEF Target
<1>4. Target(Opposite(d), Axis - entry, delta, rr)
        = IF Opposite(d) = "BUY" THEN (Axis - entry) + x ELSE (Axis - entry) - x
  BY DEF Target
<1> HIDE DEF x
<1> QED
  BY <1>1, <1>2, <1>3, <1>4 DEF Opposite

\* A trade and what it is in the mirror.
TurnedTrade(s, r) ==
    /\ s.direction \in Directions /\ s.entry \in Int /\ s.sl \in Int /\ s.tp1 \in Int
    /\ r.direction = Opposite(s.direction) /\ r.setup = s.setup /\ r.confidence = s.confidence
    /\ r.rr = s.rr /\ r.entry = Axis - s.entry /\ r.sl = Axis - s.sl /\ r.tp1 = Axis - s.tp1

\* The same candidate becomes the stop, so the trade of the mirror is the trade reversed.
LEMMA ConstructAlike ==
  ASSUME NEW m \in Readings, NEW d \in Directions, NEW setup, NEW confidence,
         NEW p \in [ParamKeys -> Int]
  PROVE  LET s == Construct(d, setup, confidence, m, p)
         IN  /\ Construct(Opposite(d), setup, confidence, Mirror(m), p) = Reversed(s)
             /\ s # NoTrade => TurnedTrade(s, Reversed(s)) /\ s.direction = d /\ s.setup = setup
                               /\ s.confidence = confidence
<1> DEFINE o == Opposite(d)
           w == Mirror(m)
           entry == Side(d, m)
           levels == Candidates(d, m, p)
           valid == {i \in DOMAIN levels : Size(entry - levels[i]) \in p.slMin .. p.slMax}
           sl == levels[Min(valid)]
           delta == Size(entry - sl)
           tp1 == Target(d, entry, delta, p.tp1)
           tp2 == Target(d, entry, delta, p.tp2)
           rr == (Size(tp1 - entry) * 100) \div delta
           entryW == Side(o, w)
           levelsW == Candidates(o, w, p)
           validW == {i \in DOMAIN levelsW : Size(entryW - levelsW[i]) \in p.slMin .. p.slMax}
           slW == levelsW[Min(validW)]
           deltaW == Size(entryW - slW)
           tp1W == Target(o, entryW, deltaW, p.tp1)
           tp2W == Target(o, entryW, deltaW, p.tp2)
           rrW == (Size(tp1W - entryW) * 100) \div deltaW
           s == Construct(d, setup, confidence, m, p)
           r == Construct(o, setup, confidence, w, p)
<1>1. entry \in Int /\ entryW = Axis - entry
  BY EntryAlike
<1>2. levels \in Seq(Int) /\ levelsW = Refl(levels)
  BY CandidatesAlike
<1>3. DOMAIN levels \subseteq 1 .. 3
  BY CandidatesAreListed
<1>4. s = IF valid = {} THEN NoTrade
          ELSE [setup |-> setup, direction |-> d, entry |-> entry, sl |-> sl, tp1 |-> tp1, tp2 |-> tp2,
                rr |-> rr, confidence |-> confidence]
  BY DEF Construct
<1>5. r = IF validW = {} THEN NoTrade
          ELSE [setup |-> setup, direction |-> o, entry |-> entryW, sl |-> slW, tp1 |-> tp1W,
                tp2 |-> tp2W, rr |-> rrW, confidence |-> confidence]
  BY DEF Construct
<1>6. p.tp1 \in Int /\ p.tp2 \in Int
  BY ParamNumbers
<1> HIDE DEF entry, levels, entryW, levelsW, s, r
<1>7. DOMAIN levelsW = DOMAIN levels /\ \A i \in DOMAIN levels : levelsW[i] = Axis - levels[i]
  BY <1>2 DEF Refl
<1>8. \A i \in DOMAIN levels : levels[i] \in Int
  BY <1>2, SeqElements
<1>9. validW = valid
  <2>1. \A i \in DOMAIN levels : Size(entryW - levelsW[i]) = Size(entry - levels[i])
    BY <1>1, <1>7, <1>8, SizeOfTurned
  <2> QED
    BY <1>7, <2>1
<1>10. CASE valid = {}
  BY <1>4, <1>5, <1>9, <1>10 DEF s, r, o, w, Reversed
<1>11. CASE valid # {}
  <2>1. Min(valid) \in DOMAIN levels
    <3>1. valid \in SUBSET (1 .. 3)
      BY <1>3
    <3> HIDE DEF valid
    <3>2. Min(valid) \in valid
      BY <1>11, <3>1, MinOfThree
    <3> QED
      BY <3>2 DEF valid
  <2>2. sl \in Int /\ slW = Axis - sl
    BY <1>7, <1>8, <1>9, <2>1
  <2> HIDE DEF valid, validW, sl, slW
  <2>3. delta \in Int /\ deltaW = delta
    BY <1>1, <2>2, SizeOfTurned
  <2> HIDE DEF delta, deltaW
  <2>4. tp1 \in Int /\ tp1W = Axis - tp1 /\ tp2 \in Int /\ tp2W = Axis - tp2
    BY <1>1, <1>6, <2>3, TargetAlike
  <2> HIDE DEF tp1, tp1W, tp2, tp2W
  <2>5. rrW = rr
    BY <1>1, <2>3, <2>4, SizeOfTurned
  <2> HIDE DEF rr, rrW
  <2>6. s = [setup |-> setup, direction |-> d, entry |-> entry, sl |-> sl, tp1 |-> tp1, tp2 |-> tp2,
             rr |-> rr, confidence |-> confidence]
    BY <1>4, <1>11
  <2>7. r = [setup |-> setup, direction |-> o, entry |-> Axis - entry, sl |-> Axis - sl,
             tp1 |-> Axis - tp1, tp2 |-> Axis - tp2, rr |-> rr, confidence |-> confidence]
    BY <1>1, <1>5, <1>9, <1>11, <2>2, <2>3, <2>4, <2>5
  <2>8. s # NoTrade
    <3>1. "direction" \in DOMAIN s /\ "direction" \notin DOMAIN NoTrade
      BY <2>6 DEF NoTrade
    <3> QED
      BY <3>1
  <2>9. Inverted(d) = o
    BY DEF Inverted, Directions, o
  <2> HIDE DEF o
  <2>10. Reversed(s) = [s EXCEPT !.direction = o, !.entry = Axis - entry, !.sl = Axis - sl,
                                 !.tp1 = Axis - tp1, !.tp2 = Axis - tp2]
    BY <2>6, <2>8, <2>9 DEF Reversed
  <2>11. r = Reversed(s)
    BY <2>6, <2>7, <2>10
  <2>12. /\ s.direction = d /\ s.setup = setup /\ s.confidence = confidence
         /\ s.entry = entry /\ s.sl = sl /\ s.tp1 = tp1 /\ s.rr = rr
    BY <2>6
  <2>13. /\ r.direction = o /\ r.setup = setup /\ r.confidence = confidence
         /\ r.entry = Axis - entry /\ r.sl = Axis - sl /\ r.tp1 = Axis - tp1 /\ r.rr = rr
    BY <2>7
  <2>14. TurnedTrade(s, r)
    BY <1>1, <2>2, <2>4, <2>12, <2>13 DEF TurnedTrade, o
  <2> QED
    BY <2>11, <2>12, <2>14 DEF s, r, o, w
<1> QED
  BY <1>10, <1>11

-----------------------------------------------------------------------------
\* Structural checks

LEMMA GeometryAlike ==
  ASSUME NEW s, NEW r, TurnedTrade(s, r), NEW p
  PROVE  GeometryFailures(r, p) = GeometryFailures(s, p)
<1>1. /\ s.direction \in Directions /\ s.entry \in Int /\ s.sl \in Int /\ s.tp1 \in Int
      /\ r.direction = Opposite(s.direction) /\ r.rr = s.rr
      /\ r.entry = Axis - s.entry /\ r.sl = Axis - s.sl /\ r.tp1 = Axis - s.tp1 /\ Axis \in Int
  BY DEF TurnedTrade, Axis
<1>2. Behind(r, r.sl) <=> Behind(s, s.sl)
  BY <1>1 DEF Behind, Directions, Opposite
<1>3. Ahead(r, r.tp1) <=> Ahead(s, s.tp1)
  BY <1>1 DEF Ahead, Directions, Opposite
<1>4. RRFailure(r) = RRFailure(s)
  BY <1>1 DEF RRFailure
<1>5. DistanceFailure(r, p) = DistanceFailure(s, p)
  <2>1. Size(r.entry - r.sl) = Size(s.entry - s.sl)
    <3>1. r.entry = Axis - s.entry /\ r.sl = Axis - s.sl
      BY <1>1
    <3>2. Size((Axis - s.entry) - (Axis - s.sl)) = Size(s.entry - s.sl)
      BY <1>1, SizeOfTurned
    <3> QED
      BY <3>1, <3>2, Zenon
  <2> QED
    BY <2>1 DEF DistanceFailure
<1> QED
  BY <1>2, <1>3, <1>4, <1>5 DEF GeometryFailures, When

\* The checks that a setup asks for.
LEMMA SetupAlike ==
  ASSUME NEW s, NEW r, TurnedTrade(s, r), NEW m \in Readings, NEW on
  PROVE  SetupFailures(r, Mirror(m), on) = SetupFailures(s, m, on)
<1> DEFINE w == Mirror(m)
<1>1. /\ w.missing = m.missing /\ w.atr = m.atr
      /\ w.bos.bullish = m.bos.bearish /\ w.bos.bearish = m.bos.bullish
      /\ w.bos.bullBreak = m.bos.bearBreak /\ w.bos.bearBreak = m.bos.bullBreak
      /\ w.ema200 = Axis - m.ema200 /\ w.pctB = 100 - m.pctB
      /\ w.ff.up = m.ff.down /\ w.ff.down = m.ff.up /\ w.ff.score = m.ff.score
      /\ w.swing = Inverted(m.swing)
  BY MirrorKeeps, MirrorTurns, MirrorTurnsRest
<1>2. /\ s.direction \in Directions /\ r.direction = Opposite(s.direction) /\ r.setup = s.setup
  BY DEF TurnedTrade
<1>3. m.ema200 \in Int /\ m.pctB \in Int /\ m.swing \in {"bullish", "bearish", "ranging"}
  BY DEF Readings
<1>4. \A x : Has(w, x) <=> Has(m, x)
  BY <1>1 DEF Has
<1>5. Side(s.direction, m) \in Int /\ Side(r.direction, w) = Axis - Side(s.direction, m)
  BY <1>2, EntryAlike
<1>0. Axis \in Int
  BY DEF Axis
<1>d. \/ s.direction = "BUY" /\ r.direction = "SELL"
      \/ s.direction = "SELL" /\ r.direction = "BUY"
  BY <1>2 DEF Directions, Opposite
<1> HIDE DEF w
<1>6. BOSFailure(r, w) = BOSFailure(s, m)
  BY <1>1, <1>4, <1>d DEF BOSFailure
<1>7. EMA200Failure(r, w) = EMA200Failure(s, m)
  <2> DEFINE x == Side(s.direction, m)
             y == Side(r.direction, w)
  <2>1. Size(y - w.ema200) = Size(x - m.ema200)
    <3>1. y = Axis - x /\ w.ema200 = Axis - m.ema200
      BY <1>1, <1>5
    <3> HIDE DEF x, y
    <3>2. x \in Int
      BY <1>5 DEF x
    <3>3. Size((Axis - x) - (Axis - m.ema200)) = Size(x - m.ema200)
      BY <1>3, <3>2, SizeOfTurned
    <3> QED
      BY <3>1, <3>3, Zenon
  <2>2. (y < w.ema200 <=> x > m.ema200) /\ (y > w.ema200 <=> x < m.ema200)
    BY <1>0, <1>1, <1>3, <1>5
  <2> HIDE DEF x, y
  <2>3. EMA200Failure(s, m) =
          When(Has(m, "ema200") /\ (IF s.direction = "BUY" THEN x < m.ema200 ELSE x > m.ema200),
               IF 10 * Size(x - m.ema200) < 3 * m.atr THEN Soft("ema200_filter") ELSE Hard("ema200_filter"))
    BY DEF EMA200Failure, x
  <2>4. EMA200Failure(r, w) =
          When(Has(w, "ema200") /\ (IF r.direction = "BUY" THEN y < w.ema200 ELSE y > w.ema200),
               IF 10 * Size(y - w.ema200) < 3 * w.atr THEN Soft("ema200_filter") ELSE Hard("ema200_filter"))
    BY DEF EMA200Failure, y
  <2>5. (IF r.direction = "BUY" THEN y < w.ema200 ELSE y > w.ema200)
          <=> (IF s.direction = "BUY" THEN x < m.ema200 ELSE x > m.ema200)
    BY <1>d, <2>2
  <2> QED
    BY <1>1, <1>4, <2>1, <2>3, <2>4, <2>5 DEF When
<1>8. SwingFailure(r, w) = SwingFailure(s, m)
  <2>1. w.swing = (CASE m.swing = "bullish" -> "bearish" [] m.swing = "bearish" -> "bullish"
                     [] OTHER -> "ranging")
    BY <1>1, <1>3 DEF Inverted, Directions
  <2>2. (w.swing = "ranging" <=> m.swing = "ranging") /\ (w.swing = "bullish" <=> m.swing = "bearish")
        /\ (w.swing = "bearish" <=> m.swing = "bullish")
    BY <1>3, <2>1
  <2> QED
    BY <1>4, <1>d, <2>2 DEF SwingFailure, When
<1>9. ExhaustionFailure(r, w) = ExhaustionFailure(s, m)
  BY <1>1, <1>4, <1>d DEF ExhaustionFailure
<1>10. BollingerFailure(r, w) = BollingerFailure(s, m)
  <2>1. /\ w.pctB > 65 <=> m.pctB < 35
        /\ w.pctB < 35 <=> m.pctB > 65
        /\ w.pctB \in 45 .. 55 <=> m.pctB \in 45 .. 55
    BY <1>1, <1>3
  <2> QED
    BY <1>4, <1>d, <2>1 DEF BollingerFailure, When
<1>11. (w.swing # "ranging") <=> (m.swing # "ranging")
  BY <1>1, <1>3 DEF Inverted, Directions
<1>12. SetupFailures(r, w, on) = SetupFailures(s, m, on)
  BY <1>2, <1>4, <1>6, <1>7, <1>8, <1>9, <1>10, <1>11 DEF SetupFailures
<1> QED
  BY <1>12 DEF w

LEMMA FailuresAlike ==
  ASSUME NEW s, NEW r, TurnedTrade(s, r), NEW m \in Readings, NEW p, NEW setups, NEW on, NEW required
  PROVE  Failures(r, Mirror(m), p, setups, on, required) = Failures(s, m, p, setups, on, required)
<1>1. GeometryFailures(r, p) = GeometryFailures(s, p)
  BY GeometryAlike
<1>2. SetupFailures(r, Mirror(m), required) = SetupFailures(s, m, required)
  BY SetupAlike
<1>3. ToolFailures(r, Mirror(m), on) = ToolFailures(s, m, on)
  <2>1. StageTools.invalidation \subseteq Tools
    BY DEF StageTools, Tools
  <2>2. s.direction \in Directions /\ r.direction = Opposite(s.direction)
    BY DEF TurnedTrade
  <2>3. \A t \in StageTools.invalidation : Gate(t, r.direction, Mirror(m)) = Gate(t, s.direction, m)
    BY <2>1, <2>2, GatesAlike
  <2> QED
    BY <2>3 DEF ToolFailures
<1>4. r.confidence = s.confidence /\ r.setup = s.setup
  BY DEF TurnedTrade
<1> QED
  BY <1>1, <1>2, <1>3, <1>4 DEF Failures

-----------------------------------------------------------------------------
\* The trade that is judged was built from the readings and the parameters of the cycle.
BuiltHere ==
    /\ card.params \in [ParamKeys -> Int]
    /\ stage = "invalidation" =>
          /\ signal # NoTrade
          /\ \E h \in Hypotheses : signal = Construct(h.direction, h.setup, h.confidence, market, card.params)

LEMMA BaseIsSane == Sane(BaseParams) \in [ParamKeys -> Int]
BY ParamAssumption, SaneIsTyped

LEMMA BuiltHereInv == PipelineSpec => []BuiltHere
<1>1. PipelineInit => BuiltHere
  BY BaseIsSane DEF PipelineInit, BuiltHere
<1>2. BuiltHere /\ [PipelineNext]_pipelineVars => BuiltHere'
  <2> SUFFICES ASSUME BuiltHere, [PipelineNext]_pipelineVars PROVE BuiltHere'
    OBVIOUS
  <2>1. CASE UNCHANGED pipelineVars
    BY <2>1 DEF pipelineVars, BuiltHere
  <2>2. CASE CheckMarket
    <3>1. stage' \in {"regime", "done"}
      BY <2>2 DEF CheckMarket, End
    <3>2. PICK mode \in Modes, on \in Toggles, layers \in Layers, t \in Thresholds :
            card' = [mode |-> mode, on |-> on, params |-> ConstructionParams(BaseParams, layers),
                     thresholds |-> t]
      BY <2>2 DEF CheckMarket
    <3>3. card'.params \in [ParamKeys -> Int]
      BY <3>2, ParamsAreNumbers
    <3> QED
      BY <3>1, <3>3 DEF BuiltHere
  <2>3. CASE ConstructTrade
    BY <2>3 DEF ConstructTrade, End, BuiltHere
  <2>4. CASE ReadRegime \/ NoSignal \/ Invalidate \/ Convince
    <3>1. card' = card /\ stage' \in {"signal", "done", "conviction", "validator"}
      BY <2>4 DEF ReadRegime, NoSignal, Invalidate, Convince, End
    <3> QED
      BY <3>1 DEF BuiltHere
  <2>5. CASE Validate \/ CheckRisk \/ GuardExecution \/ SizeTrade \/ Shadow
    <3>1. card' = card /\ stage' \in {"risk", "done", "guard", "sizing"}
      BY <2>5 DEF Validate, CheckRisk, GuardExecution, SizeTrade, Shadow, End
    <3> QED
      BY <3>1 DEF BuiltHere
  <2> QED
    BY <2>1, <2>2, <2>3, <2>4, <2>5 DEF PipelineNext
<1> QED
  BY <1>1, <1>2, PTL DEF PipelineSpec

\* For all readings that are typed, every card and every hypothesis: each gate and each
\* scored feature that takes a direction gives a trade what it gives its mirror image, the
\* constructor builds the image of the trade, and the invalidator finds the same failures.
THEOREM NeitherSideIsFavoured == PipelineSpec => []DirectionsAreTreatedAlike
<1>1. PipelineInv /\ BuiltHere => DirectionsAreTreatedAlike
  <2> SUFFICES ASSUME PipelineInv, BuiltHere PROVE DirectionsAreTreatedAlike
    OBVIOUS
  <2> DEFINE twin == Mirror(market)
  <2>1. stage # "idle" => market \in Readings
    BY MarketAssumption DEF PipelineInv
  <2>2. ASSUME stage = "regime", NEW d \in Directions
        PROVE  /\ \A t \in Tools : Gate(t, d, market) = Gate(t, Opposite(d), twin)
               /\ \A t \in DirectionAware : Features(t, d, market) = Features(t, Opposite(d), twin)
    BY <2>1, <2>2, GatesAlike, FeaturesAlike
  <2>3. ASSUME stage = "invalidation"
        PROVE  /\ Construct(Opposite(signal.direction), signal.setup, signal.confidence, twin, card.params)
                    = Reversed(signal)
               /\ FailuresNow = Failures(Reversed(signal), twin, card.params,
                                         RegimeTable[snapshot].setups, card.on,
                                         Required(card.mode, card.on))
    <3>1. market \in Readings /\ card.params \in [ParamKeys -> Int] /\ signal # NoTrade
      BY <2>1, <2>3 DEF BuiltHere
    <3>2. PICK h \in Hypotheses :
            signal = Construct(h.direction, h.setup, h.confidence, market, card.params)
      BY <2>3 DEF BuiltHere
    <3>3. h.direction \in Directions
      BY PipelineAssumption
    <3>4. /\ Construct(Opposite(h.direction), h.setup, h.confidence, twin, card.params) = Reversed(signal)
          /\ TurnedTrade(signal, Reversed(signal)) /\ signal.direction = h.direction
          /\ signal.setup = h.setup /\ signal.confidence = h.confidence
      BY <3>1, <3>2, <3>3, ConstructAlike
    <3>5. FailuresNow = Failures(Reversed(signal), twin, card.params, RegimeTable[snapshot].setups,
                                 card.on, Required(card.mode, card.on))
      BY <3>1, <3>4, FailuresAlike DEF FailuresNow
    <3> QED
      BY <3>4, <3>5
  <2> QED
    BY <2>2, <2>3 DEF DirectionsAreTreatedAlike
<1> QED
  BY <1>1, PipelineInvariant, BuiltHereInv, PTL

-----------------------------------------------------------------------------
(* The filters of a backtest *)

LEMMA PassedOrNot ==
  /\ Pass.passed = TRUE /\ Warn.passed = FALSE /\ Block.passed = FALSE
  /\ \A x : Sized(x).passed = TRUE
  /\ \A c \in BOOLEAN : PassIf(c).passed = c
BY DEF Pass, Warn, Block, Sized, PassIf

\* Without an AI the signal function refuses what the common rule refuses.
LEMMA SignalFnInAlgoOnly ==
  ASSUME NEW m \in Readings, ~(m.bos.bullish /\ m.bos.bearish), NEW d \in Directions,
         NEW t \in DOMAIN ReadingOf, Has(m, ReadingOf[t]), NEW price
  PROVE  SignalFnRefuses(t, d, "algo_only", m, price) = FilterRefuses(t, d, m, price)
<1>1. m.bos.bullish \in BOOLEAN /\ m.bos.bearish \in BOOLEAN
  BY DEF Readings
<1>2. t = "bos_guard" /\ d = "SELL" /\ m.bos.bullish => FilterRefuses(t, d, m, price)
  BY <1>1 DEF FilterRefuses
<1>3. SignalFnRefuses(t, d, "algo_only", m, price)
        = (\/ FilterRefuses(t, d, m, price)
           \/ t = "bos_guard" /\ d = "SELL" /\ m.bos.bullish
           \/ t = "swing_structure" /\ ~Has(m, "swing"))
  BY DEF SignalFnRefuses
<1>5. ~(t = "swing_structure" /\ ~Has(m, "swing"))
  BY DEF ReadingOf
<1>4. FilterRefuses(t, d, m, price) \in BOOLEAN
  <2>1. CASE t = "volatility_filter"
    <3>1. FilterRefuses(t, d, m, price) = (m.atrPct > 2500 \/ m.atrPct < 50)
      BY <2>1 DEF FilterRefuses
    <3> QED
      BY <3>1
  <2>2. CASE t = "ema200_filter"
    <3>1. FilterRefuses(t, d, m, price) = (Has(m, "ema200") /\ AgainstLevel(d, price, m.ema200))
      BY <2>2 DEF FilterRefuses
    <3> QED
      BY <3>1
  <2>3. CASE t = "tick_jump_guard"
    <3>1. FilterRefuses(t, d, m, price) = (m.tickJump > 80)
      BY <2>3 DEF FilterRefuses
    <3> QED
      BY <3>1
  <2>4. CASE t = "liq_vacuum_guard"
    <3>1. FilterRefuses(t, d, m, price) = (m.liq.range > 250 /\ m.liq.body < 30)
      BY <2>4 DEF FilterRefuses
    <3> QED
      BY <3>1
  <2>5. CASE t = "macd_filter"
    <3>1. FilterRefuses(t, d, m, price) = (Has(m, "macd") /\ AgainstLevel(d, m.macd, 0))
      BY <2>5 DEF FilterRefuses
    <3> QED
      BY <3>1
  <2>6. CASE t = "bollinger_filter"
    <3>1. FilterRefuses(t, d, m, price) = (Has(m, "pctB") /\ (d = "BUY" => m.pctB > 70) /\ (d # "BUY" => m.pctB < 30))
      BY <2>6 DEF FilterRefuses
    <3> QED
      BY <3>1
  <2>7. CASE t = "swing_structure"
    <3>1. FilterRefuses(t, d, m, price) = (Has(m, "swing") /\ m.swing # (IF d = "BUY" THEN "bullish" ELSE "bearish"))
      BY <2>7 DEF FilterRefuses
    <3> QED
      BY <3>1
  <2>8. CASE t = "bos_guard"
    <3>1. FilterRefuses(t, d, m, price) = (~(Has(m, "bos") /\ IF d = "BUY" THEN m.bos.bullish ELSE m.bos.bearish))
      BY <2>8 DEF FilterRefuses
    <3> QED
      BY <3>1
  <2>9. CASE t = "fvg_guard"
    <3>1. FilterRefuses(t, d, m, price) = (~Has(m, "fvg") \/ Gaps(d, m) = <<>>)
      BY <2>9 DEF FilterRefuses
    <3> QED
      BY <3>1
  <2> QED
    BY <2>1, <2>2, <2>3, <2>4, <2>5, <2>6, <2>7, <2>8, <2>9 DEF ReadingOf
<1> QED
  BY <1>2, <1>3, <1>4, <1>5

\* A vectorised backtest with this filter alone.
LEMMA VectorWithOne ==
  ASSUME NEW m, NEW d, NEW price, NEW t \in DOMAIN ReadingOf
  PROVE  VectorBar({t}, d, m, price) =
           IF FilterRefuses(t, d, m, price) /\ t # "bollinger_filter" THEN "skipped" ELSE "passed"
<1> DEFINE refusing == {u \in {t} \ NeverRefuse : FilterRefuses(u, d, m, price)}
<1>1. t # "session_filter" /\ t # "adx_filter"
  BY DEF ReadingOf
<1>2. t \in NeverRefuse <=> t = "bollinger_filter"
  BY <1>1 DEF NeverRefuse
<1>3. refusing = IF FilterRefuses(t, d, m, price) /\ t # "bollinger_filter" THEN {t} ELSE {}
  BY <1>2
<1>4. VectorBar({t}, d, m, price) =
        CASE "volatility_filter" \in refusing -> "skipped"
          [] "volatility_filter" \notin refusing /\ "session_filter" \in {t} -> "raised"
          [] OTHER -> IF refusing = {} THEN "passed" ELSE "skipped"
  BY DEF VectorBar
<1> HIDE DEF refusing
<1> QED
  BY <1>1, <1>3, <1>4

\* Filter by filter: a refusal is a failure of the tool, and the reverse except at the edges.
LEMMA FilterIsTool ==
  ASSUME NEW m \in Readings, NEW d \in Directions, NEW t \in DOMAIN ReadingOf, Has(m, ReadingOf[t])
  PROVE  LET fails == ~Gate(t, d, m).passed
             refuses == FilterRefuses(t, d, m, Side(d, m))
         IN  /\ refuses => fails
             /\ fails => refuses \/ OnTheEdge(t, d, m)
<1> DEFINE fails == ~Gate(t, d, m).passed
           refuses == FilterRefuses(t, d, m, Side(d, m))
           goal == (refuses => fails) /\ (fails => refuses \/ OnTheEdge(t, d, m))
<1>1. d # Unknown /\ d \in {"BUY", "SELL"}
  BY DEF Directions, Unknown
<1>2. CASE t = "volatility_filter"
  <2>1. Has(m, "atrPct") /\ m.atrPct \in Nat
    BY <1>2 DEF ReadingOf, Readings
  <2>2. Gate(t, d, m) = VolatilityGate(m)
    BY <1>1, <1>2 DEF Gate
  <2>3. refuses <=> m.atrPct > 2500 \/ m.atrPct < 50
    BY <1>2 DEF FilterRefuses
  <2>4. VolatilityGate(m).passed <=> ~(m.atrPct > 2500 \/ m.atrPct < 50)
    BY <2>1, PassedOrNot DEF VolatilityGate
  <2> QED
    BY <2>2, <2>3, <2>4
<1>3. CASE t = "ema200_filter"
  <2>1. Has(m, "ema200") /\ m.ema200 \in Int /\ m.ask \in Int /\ m.bid \in Int
    BY <1>3 DEF ReadingOf, Readings
  <2>2. Gate(t, d, m) = LevelGate(d, m, "ema200", m.ema200)
    BY <1>1, <1>3 DEF Gate
  <2>3. refuses <=> AgainstLevel(d, Side(d, m), m.ema200)
    BY <1>3, <2>1 DEF FilterRefuses
  <2>4. fails <=> IF d = "BUY" THEN ~(m.ask > m.ema200) ELSE ~(m.bid < m.ema200)
    BY <1>1, <2>1, <2>2 DEF LevelGate, PassIf, Pass, Warn
  <2> QED
    BY <1>1, <1>3, <2>1, <2>3, <2>4 DEF AgainstLevel, Side, OnTheEdge
<1>4. CASE t = "tick_jump_guard"
  <2>1. Has(m, "tickJump") /\ m.tickJump \in Nat
    BY <1>4 DEF ReadingOf, Readings
  <2>2. Gate(t, d, m) = TickJumpGate(m)
    BY <1>1, <1>4 DEF Gate
  <2>3. refuses <=> m.tickJump > 80
    BY <1>4 DEF FilterRefuses
  <2>4. TickJumpGate(m).passed <=> m.tickJump <= 80
    BY <2>1, PassedOrNot DEF TickJumpGate
  <2> QED
    BY <2>1, <2>2, <2>3, <2>4
<1>5. CASE t = "liq_vacuum_guard"
  <2>1. Has(m, "liq")
    BY <1>5 DEF ReadingOf
  <2>2. Gate(t, d, m) = VacuumGate(m)
    BY <1>1, <1>5 DEF Gate
  <2>3. refuses <=> m.liq.range > 250 /\ m.liq.body < 30
    BY <1>5 DEF FilterRefuses
  <2>4. VacuumGate(m).passed <=> ~(m.liq.range > 250 /\ m.liq.body < 30)
    BY <2>1, PassedOrNot DEF VacuumGate
  <2> QED
    BY <2>2, <2>3, <2>4
<1>6. CASE t = "macd_filter"
  <2>1. Has(m, "macd") /\ m.macd \in Int
    BY <1>6 DEF ReadingOf, Readings
  <2>2. Gate(t, d, m) = MACDGate(d, m)
    BY <1>1, <1>6 DEF Gate
  <2>3. refuses <=> AgainstLevel(d, m.macd, 0)
    BY <1>6, <2>1 DEF FilterRefuses
  <2>4. fails <=> IF d = "BUY" THEN ~(m.macd > 0) ELSE ~(m.macd < 0)
    BY <1>1, <2>1, <2>2 DEF MACDGate, PassIf, Pass, Warn
  <2> QED
    BY <1>1, <1>6, <2>1, <2>3, <2>4 DEF AgainstLevel, OnTheEdge
<1>7. CASE t = "bollinger_filter"
  <2>1. Has(m, "pctB") /\ m.pctB \in Int
    BY <1>7 DEF ReadingOf, Readings
  <2>2. Gate(t, d, m) = BollingerGate(d, m)
    BY <1>1, <1>7 DEF Gate
  <2>3. refuses <=> IF d = "BUY" THEN m.pctB > 70 ELSE m.pctB < 30
    BY <1>7, <2>1 DEF FilterRefuses
  <2>4. fails <=> IF d = "BUY" THEN ~(m.pctB < 70) ELSE ~(m.pctB > 30)
    BY <1>1, <2>1, <2>2 DEF BollingerGate, PassIf, Pass, Warn
  <2> QED
    BY <1>1, <1>7, <2>1, <2>3, <2>4 DEF OnTheEdge
<1>8. CASE t = "swing_structure"
  <2>1. Has(m, "swing") /\ m.swing \in {"bullish", "bearish", "ranging"}
    BY <1>8 DEF ReadingOf, Readings
  <2>2. Gate(t, d, m) = SwingGate(d, m)
    BY <1>1, <1>8 DEF Gate
  <2>3. refuses <=> m.swing # (IF d = "BUY" THEN "bullish" ELSE "bearish")
    BY <1>8, <2>1 DEF FilterRefuses
  <2>4. fails <=> m.swing # (IF d = "BUY" THEN "bullish" ELSE "bearish")
    BY <1>1, <2>1, <2>2, PassedOrNot DEF SwingGate
  <2> QED
    BY <2>3, <2>4
<1>9. CASE t = "bos_guard"
  <2>1. Has(m, "bos") /\ m.bos.bullish \in BOOLEAN /\ m.bos.bearish \in BOOLEAN
    BY <1>9 DEF ReadingOf, Readings
  <2>2. Gate(t, d, m) = BOSGate(d, m)
    BY <1>1, <1>9 DEF Gate
  <2>3. refuses <=> ~(IF d = "BUY" THEN m.bos.bullish ELSE m.bos.bearish)
    BY <1>9, <2>1 DEF FilterRefuses
  <2>4. fails <=> ~(IF d = "BUY" THEN m.bos.bullish ELSE m.bos.bearish)
    BY <1>1, <2>1, <2>2, PassedOrNot DEF BOSGate
  <2> QED
    BY <2>3, <2>4
<1>10. CASE t = "fvg_guard"
  <2> DEFINE g == Gaps(d, m)
             wide == \E i \in DOMAIN g : g[i].size >= 15
  <2>1. Has(m, "fvg")
    BY <1>10 DEF ReadingOf
  <2>2. Gate(t, d, m) = FVGGate(d, m)
    BY <1>1, <1>10 DEF Gate
  <2>3. refuses <=> g = <<>>
    BY <1>10, <2>1 DEF FilterRefuses
  <2>4. FVGGate(d, m) = PassIf(~Has(m, "fvg") \/ wide)
    BY DEF FVGGate
  <2>5. fails <=> ~wide
    BY <2>1, <2>2, <2>4, PassedOrNot
  <2>6. OnTheEdge(t, d, m) <=> g # <<>>
    BY <1>10 DEF OnTheEdge
  <2>7. g = <<>> => ~wide
    OBVIOUS
  <2> HIDE DEF g, wide
  <2> QED
    BY <2>3, <2>5, <2>6, <2>7
<1>11. t \in {"volatility_filter", "ema200_filter", "tick_jump_guard", "liq_vacuum_guard", "macd_filter",
              "bollinger_filter", "swing_structure", "bos_guard", "fvg_guard"}
  BY DEF ReadingOf
<1>12. goal
  BY <1>2, <1>3, <1>4, <1>5, <1>6, <1>7, <1>8, <1>9, <1>10, <1>11
<1> QED
  BY <1>12

\* In algo_only mode the stages of the replay are the filters of the signal function.
LEMMA ReplayExecutes ==
  ASSUME NEW d, NEW m, NEW price
  PROVE  (ReplayBar(d, "algo_only", m, price) = "10_execute")
           = \A t \in BacktestTools : ~SignalFnRefuses(t, d, "algo_only", m, price)
<1> DEFINE Refuses(t) == SignalFnRefuses(t, d, "algo_only", m, price)
           blocking == {i \in DOMAIN ReplayStages :
                           \E t \in ReplayStages[i].tools \cap ReplayFilters("algo_only") : Refuses(t)}
<1>1. DOMAIN ReplayStages = 1 .. 5
  BY DEF ReplayStages
<1>2. ReplayFilters("algo_only") = BacktestTools
  BY DEF ReplayFilters
<1>3. \A t \in BacktestTools : \E i \in 1 .. 5 : t \in ReplayStages[i].tools
  <2>1. /\ ReplayStages[1].tools = {"session_filter"} /\ ReplayStages[2].tools = {"volatility_filter"}
        /\ ReplayStages[3].tools = {"ema200_filter"}
        /\ ReplayStages[4].tools = {"bos_guard", "fvg_guard", "tick_jump_guard", "liq_vacuum_guard",
                                    "vwap_guard"}
        /\ ReplayStages[5].tools = {"macd_filter", "bollinger_filter", "adx_filter", "swing_structure"}
    BY DEF ReplayStages
  <2>2. /\ 1 \in 1 .. 5 /\ 2 \in 1 .. 5 /\ 3 \in 1 .. 5 /\ 4 \in 1 .. 5 /\ 5 \in 1 .. 5
    OBVIOUS
  <2> QED
    BY <2>1, <2>2 DEF BacktestTools
<1>4. \A i \in 1 .. 5 : ReplayStages[i].key # "10_execute"
  <2>1. /\ ReplayStages[1].key = "2_session" /\ ReplayStages[2].key = "3_volatility"
        /\ ReplayStages[3].key = "5_ema200_trend" /\ ReplayStages[4].key = "6_structural"
        /\ ReplayStages[5].key = "7_secondary"
    BY DEF ReplayStages
  <2> TAKE i \in 1 .. 5
  <2>2. i = 1 \/ i = 2 \/ i = 3 \/ i = 4 \/ i = 5
    OBVIOUS
  <2> QED
    BY <2>1, <2>2
<1>5. ReplayBar(d, "algo_only", m, price) =
        CASE blocking # {} -> ReplayStages[Min(blocking)].key
          [] blocking = {} /\ AiProxyRefuses("algo_only", m, price) -> "9_ai_validator"
          [] OTHER -> "10_execute"
  BY DEF ReplayBar
<1>6. ~AiProxyRefuses("algo_only", m, price)
  BY DEF AiProxyRefuses
<1>7. blocking = {} <=> \A t \in BacktestTools : ~Refuses(t)
  BY <1>1, <1>2, <1>3
<1>8. blocking \in SUBSET (1 .. 5)
  BY <1>1
<1> HIDE DEF blocking, Refuses
<1>9. blocking # {} => Min(blocking) \in 1 .. 5
  <2>1. 1 \in Int /\ \A i \in blocking : i >= 1
    BY <1>8
  <2>2. blocking \in SUBSET Int
    BY <1>8
  <2>3. blocking # {} => Min(blocking) \in blocking
    BY <2>1, <2>2, Smallest
  <2> QED
    BY <1>8, <2>3
<1>10. (ReplayBar(d, "algo_only", m, price) = "10_execute") <=> blocking = {}
  BY <1>4, <1>5, <1>6, <1>9
<1> QED
  BY <1>7, <1>10 DEF Refuses

\* For all readings that are typed: at the price of the order, a filter of the signal function
\* refuses exactly what the live tool of its name fails, edges apart; the vectorised backtest
\* skips for the same readings but for bollinger_filter, which never refuses there; and the
\* replay executes a bar in algo_only mode exactly when no filter refuses.
THEOREM BacktestsFilterAsTheToolsDo == PipelineSpec => []FilterParity
<1>1. PipelineInv => FilterParity
  <2> DEFINE Alike(t, d, price) ==
               LET fails == ~Gate(t, d, market).passed
                   refuses == SignalFnRefuses(t, d, "algo_only", market, price)
               IN  /\ refuses => fails
                   /\ fails => refuses \/ OnTheEdge(t, d, market)
                   /\ VectorBar({t}, d, market, price)
                         = IF refuses /\ t # "bollinger_filter" THEN "skipped" ELSE "passed"
             Replays(d, price) ==
               (ReplayBar(d, "algo_only", market, price) = "10_execute")
                 = \A t \in BacktestTools : ~SignalFnRefuses(t, d, "algo_only", market, price)
  <2> SUFFICES ASSUME PipelineInv, stage = "regime", NEW d \in Directions
               PROVE  /\ \A t \in DOMAIN ReadingOf :
                            Has(market, ReadingOf[t]) => Alike(t, d, Side(d, market))
                      /\ Replays(d, Side(d, market))
    BY DEF FilterParity
  <2>1. market \in Readings /\ ~(market.bos.bullish /\ market.bos.bearish)
    BY MarketAssumption DEF PipelineInv
  <2>2. ASSUME NEW t \in DOMAIN ReadingOf, Has(market, ReadingOf[t])
        PROVE  Alike(t, d, Side(d, market))
    <3> DEFINE price == Side(d, market)
               common == FilterRefuses(t, d, market, price)
    <3>1. SignalFnRefuses(t, d, "algo_only", market, price) = common
      BY <2>1, <2>2, SignalFnInAlgoOnly
    <3>2. /\ common => ~Gate(t, d, market).passed
          /\ ~Gate(t, d, market).passed => common \/ OnTheEdge(t, d, market)
      BY <2>1, <2>2, FilterIsTool
    <3>3. VectorBar({t}, d, market, price)
            = IF common /\ t # "bollinger_filter" THEN "skipped" ELSE "passed"
      BY VectorWithOne
    <3> QED
      BY <3>1, <3>2, <3>3
  <2>3. Replays(d, Side(d, market))
    BY ReplayExecutes
  <2> QED
    BY <2>2, <2>3
<1> QED
  BY <1>1, PipelineInvariant, PTL
===============================================================================
