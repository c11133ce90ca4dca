------------------------- MODULE KaboomMathTheorems -------------------------
(***************************************************************************)
(* What the arithmetic of KaboomMath returns for every board, edge and     *)
(* amount (naturals, within the bounds that the handlers rely on), and     *)
(* what Total computes for every length.  Each induction is an argument on *)
(* a least counterexample (NatMin).                                        *)
(***************************************************************************)
EXTENDS KaboomMath, Totals, WellFoundedInduction, TLAPS

\* A non-empty set of naturals has a least element.
LEMMA NatMin ==
  ASSUME NEW T, T \subseteq Nat, T # {}
  PROVE  \E x \in T : \A y \in T : x <= y
<1> DEFINE R == {ss \in Nat \X Nat : ss[1] < ss[2]}
<1>1. IsWellFoundedOn(R, Nat)
  BY NatLessThanWellFounded DEF OpToRel
<1>2. PICK x \in T : \A y \in T : ~(<<y, x>> \in R)
  BY <1>1, WFMin
<1>3. ASSUME NEW y \in T PROVE x <= y
  <2>1. x \in Nat /\ y \in Nat OBVIOUS
  <2>2. <<y, x>> \in R <=> y < x BY <2>1
  <2>3. QED BY <1>2, <2>1, <2>2
<1>4. QED BY <1>3

-----------------------------------------------------------------------------
(* Totals *)

\* g holds the partial sums of f up to n.
IsSum(g, f, n) ==
    /\ g \in [0..n -> Nat]
    /\ g[0] = 0
    /\ \A i \in 1..n : g[i] = g[i-1] + f[i]

\* Partial sums can be extended by one summand.
LEMMA SumExtends ==
  ASSUME NEW n \in Nat \ {0}, NEW f, f[n] \in Nat, NEW g, IsSum(g, f, n - 1)
  PROVE  \E h : IsSum(h, f, n)
<1> DEFINE h == [i \in 0..n |-> IF i = n THEN g[n-1] + f[n] ELSE g[i]]
<1>1. g[n-1] \in Nat BY DEF IsSum
<1>2. h \in [0..n -> Nat]
  <2>1. ASSUME NEW i \in 0..n PROVE h[i] \in Nat
    <3>1. CASE i = n BY <3>1, <1>1
    <3>2. CASE i # n
      <4>1. i \in 0..(n-1) BY <3>2
      <4>2. g[i] \in Nat BY <4>1 DEF IsSum
      <4>3. QED BY <3>2, <4>2
    <3>3. QED BY <3>1, <3>2
  <2>2. QED BY <2>1
<1>3. h[0] = 0 BY DEF IsSum
<1>4. ASSUME NEW i \in 1..n PROVE h[i] = h[i-1] + f[i]
  <2>1. i - 1 \in 0..(n-1) /\ i - 1 # n /\ i - 1 \in 0..n OBVIOUS
  <2>2. h[i-1] = g[i-1] BY <2>1
  <2>3. CASE i = n BY <2>2, <2>3
  <2>4. CASE i # n
    <3>1. i \in 1..(n-1) BY <2>4
    <3>2. g[i] = g[i-1] + f[i] BY <3>1 DEF IsSum
    <3>3. h[i] = g[i] BY <2>4
    <3>4. QED BY <2>2, <3>2, <3>3
  <2>5. QED BY <2>3, <2>4
<1>5. IsSum(h, f, n) BY <1>2, <1>3, <1>4 DEF IsSum
<1>6. QED BY <1>5

\* Partial sums exist for every length.
LEMMA SumExists ==
  ASSUME NEW n \in Nat, NEW f \in [1..n -> Nat]
  PROVE  \E g : IsSum(g, f, n)
<1> DEFINE Bad == {m \in 0..n : ~ \E g : IsSum(g, f, m)}
<1>1. SUFFICES ASSUME Bad # {} PROVE FALSE
  <2>1. n \in 0..n OBVIOUS
  <2>2. QED BY <1>1, <2>1
<1>2. PICK m \in Bad : \A k \in Bad : m <= k
  <2>1. Bad \subseteq Nat OBVIOUS
  <2>2. QED BY <1>1, <2>1, NatMin
<1>3. m # 0
  <2>1. IsSum([i \in 0..0 |-> 0], f, 0) BY DEF IsSum
  <2>2. QED BY <2>1, <1>2
<1>4. m - 1 \in 0..n /\ m - 1 \notin Bad
  BY <1>2, <1>3
<1>5. PICK g : IsSum(g, f, m - 1)
  BY <1>4
<1>6. m \in Nat \ {0} /\ f[m] \in Nat
  BY <1>2, <1>3
<1>7. \E h : IsSum(h, f, m)
  BY <1>5, <1>6, SumExtends
<1>8. QED BY <1>2, <1>7

\* The recursive function of Totals is that function.
LEMMA RunningTotal ==
  ASSUME NEW n \in Nat, NEW f \in [1..n -> Nat]
  PROVE  IsSum(running_total(f, n), f, n)
<1>1. PICK g : IsSum(g, f, n) BY SumExists
<1> DEFINE s == running_total(f, n)
<1>2. g = [i \in 0..n |-> IF i = 0 THEN 0 ELSE g[i-1] + f[i]]
  <2>1. ASSUME NEW i \in 0..n PROVE g[i] = IF i = 0 THEN 0 ELSE g[i-1] + f[i]
    <3>1. CASE i = 0 BY <1>1, <3>1 DEF IsSum
    <3>2. CASE i # 0
      <4>1. i \in 1..n BY <3>2
      <4>2. QED BY <1>1, <4>1 DEF IsSum
    <3>3. QED BY <3>1, <3>2
  <2>2. g \in [0..n -> Nat] BY <1>1 DEF IsSum
  <2>3. QED BY <2>1, <2>2
<1>3. s = [i \in 0..n |-> IF i = 0 THEN 0 ELSE s[i-1] + f[i]]
  BY <1>2 DEF running_total
<1>4. s[0] = 0 BY <1>3
<1>5. \A i \in 1..n : s[i] = s[i-1] + f[i] BY <1>3
<1> HIDE DEF s
<1>6. s \in [0..n -> Nat]
  <2> DEFINE Bad == {m \in 0..n : s[m] \notin Nat}
  <2>1. SUFFICES Bad = {} BY <1>3
  <2>2. SUFFICES ASSUME Bad # {} PROVE FALSE OBVIOUS
  <2>3. PICK m \in Bad : \A k \in Bad : m <= k
    <3>1. Bad \subseteq Nat OBVIOUS
    <3>2. QED BY <2>2, <3>1, NatMin
  <2>4. m # 0 BY <2>3, <1>4
  <2>5. m - 1 \in 0..n /\ m - 1 \notin Bad BY <2>3, <2>4
  <2>6. s[m-1] \in Nat /\ f[m] \in Nat BY <2>3, <2>4, <2>5
  <2>7. s[m] \in Nat BY <1>5, <2>3, <2>4, <2>6
  <2>8. QED BY <2>3, <2>7
<1>7. QED BY <1>4, <1>5, <1>6 DEF s, IsSum

\* A total of naturals is a natural.
LEMMA TotalNat ==
  ASSUME NEW n \in Nat, NEW f \in [1..n -> Nat]
  PROVE  Total(f, n) \in Nat
BY RunningTotal DEF Total, IsSum

\* A total of zeroes is zero.
LEMMA TotalZero ==
  ASSUME NEW n \in Nat, NEW f \in [1..n -> Nat], \A i \in 1..n : f[i] = 0
  PROVE  Total(f, n) = 0
<1> DEFINE s == running_total(f, n)
           Bad == {m \in 0..n : s[m] # 0}
<1>1. IsSum(s, f, n) BY RunningTotal
<1> HIDE DEF s
<1>2. SUFFICES ASSUME Bad # {} PROVE FALSE BY DEF Total, s
<1>3. PICK m \in Bad : \A k \in Bad : m <= k
  <2>1. Bad \subseteq Nat OBVIOUS
  <2>2. QED BY <1>2, <2>1, NatMin
<1>4. m # 0 BY <1>1, <1>3 DEF IsSum
<1>5. m - 1 \in 0..n /\ m - 1 \notin Bad BY <1>3, <1>4
<1>6. s[m] = s[m-1] + f[m] BY <1>1, <1>3, <1>4 DEF IsSum
<1>7. QED BY <1>3, <1>4, <1>5, <1>6

\* Two families that differ only at p have totals that differ by as much.
LEMMA TotalUpdate ==
  ASSUME NEW n \in Nat, NEW f \in [1..n -> Nat], NEW h \in [1..n -> Nat],
         NEW p \in 1..n, \A i \in 1..n \ {p} : h[i] = f[i]
  PROVE  Total(h, n) = Total(f, n) - f[p] + h[p]
<1> DEFINE s == running_total(f, n)
           t == running_total(h, n)
           Gap(m) == IF m < p THEN 0 ELSE h[p] - f[p]
           Bad == {m \in 0..n : t[m] # s[m] + Gap(m)}
<1>1. IsSum(s, f, n) /\ IsSum(t, h, n) BY RunningTotal
<1>2. SUFFICES n \notin Bad
  <2>1. s[n] \in Nat /\ t[n] \in Nat BY <1>1 DEF IsSum
  <2>2. QED BY <1>2, <2>1 DEF Total
<1> HIDE DEF s, t
<1>3. SUFFICES ASSUME Bad # {} PROVE FALSE OBVIOUS
<1>4. PICK m \in Bad : \A k \in Bad : m <= k
  <2>1. Bad \subseteq Nat OBVIOUS
  <2>2. QED BY <1>3, <2>1, NatMin
<1>5. m # 0 BY <1>1, <1>4 DEF IsSum
<1>6. m - 1 \in 0..n /\ m - 1 \notin Bad /\ m \in 1..n BY <1>4, <1>5
<1>7. /\ s[m] = s[m-1] + f[m]
      /\ t[m] = t[m-1] + h[m]
      /\ s[m-1] \in Nat /\ t[m-1] \in Nat /\ s[m] \in Nat /\ t[m] \in Nat
  BY <1>1, <1>6 DEF IsSum
<1>8. t[m-1] = s[m-1] + Gap(m-1) BY <1>6
<1>9. f[m] \in Nat /\ h[m] \in Nat /\ f[p] \in Nat /\ h[p] \in Nat BY <1>6
<1>10. t[m] = s[m] + Gap(m)
  <2>1. CASE m = p BY <2>1, <1>7, <1>8, <1>9
  <2>2. CASE m # p
    <3>1. h[m] = f[m] BY <2>2, <1>6
    <3>2. (m - 1 < p) <=> (m < p) BY <2>2, <1>6
    <3>3. Gap(m-1) = Gap(m) /\ Gap(m) \in Int BY <3>2, <1>9
    <3> HIDE DEF Gap
    <3>4. t[m] = (s[m-1] + Gap(m)) + f[m] BY <3>1, <3>3, <1>7, <1>8
    <3> DEFINE before == s[m-1]
               added == f[m]
               apart == Gap(m)
    <3>5. before \in Nat /\ added \in Nat /\ apart \in Int BY <3>3, <1>7, <1>9
    <3>6. t[m] = (before + apart) + added /\ s[m] = before + added BY <3>4, <1>7
    <3> HIDE DEF before, added, apart
    <3>7. t[m] = s[m] + apart BY <3>5, <3>6
    <3>8. QED BY <3>7 DEF apart
  <2>3. QED BY <2>1, <2>2
<1>11. QED BY <1>4, <1>10

\* A total bounds each of its summands.
LEMMA TotalBounds ==
  ASSUME NEW n \in Nat, NEW f \in [1..n -> Nat], NEW p \in 1..n
  PROVE  f[p] <= Total(f, n)
<1> DEFINE h == [f EXCEPT ![p] = 0]
<1>1. h \in [1..n -> Nat] /\ h[p] = 0 /\ \A i \in 1..n \ {p} : h[i] = f[i] OBVIOUS
<1>2. Total(h, n) = Total(f, n) - f[p] + h[p]
  <2> HIDE DEF h
  <2>1. QED BY <1>1, TotalUpdate
<1>3. Total(h, n) \in Nat /\ Total(f, n) \in Nat
  <2> HIDE DEF h
  <2>1. QED BY <1>1, TotalNat
<1> DEFINE part == f[p]
<1>4. part \in Nat OBVIOUS
<1>5. Total(h, n) = Total(f, n) - part + 0 BY <1>1, <1>2
<1> HIDE DEF h, part
<1>6. part <= Total(f, n) BY <1>3, <1>4, <1>5
<1>7. QED BY <1>6 DEF part

\* Families in proportion have totals in proportion.
LEMMA TotalScale ==
  ASSUME NEW n \in Nat, NEW f \in [1..n -> Nat], NEW h \in [1..n -> Nat],
         NEW a \in Nat, NEW b \in Nat, \A i \in 1..n : a * f[i] <= b * h[i]
  PROVE  a * Total(f, n) <= b * Total(h, n)
<1> DEFINE s == running_total(f, n)
           t == running_total(h, n)
           Bad == {m \in 0..n : ~(a * s[m] <= b * t[m])}
<1>1. IsSum(s, f, n) /\ IsSum(t, h, n) BY RunningTotal
<1>2. SUFFICES n \notin Bad BY DEF Total
<1> HIDE DEF s, t
<1>3. SUFFICES ASSUME Bad # {} PROVE FALSE OBVIOUS
<1>4. PICK m \in Bad : \A k \in Bad : m <= k
  <2>1. Bad \subseteq Nat OBVIOUS
  <2>2. QED BY <1>3, <2>1, NatMin
<1>5. m # 0
  <2>1. s[0] = 0 /\ t[0] = 0 BY <1>1 DEF IsSum
  <2>2. a * 0 <= b * 0 OBVIOUS
  <2>3. QED BY <1>4, <2>1, <2>2
<1>6. m - 1 \in 0..n /\ m - 1 \notin Bad /\ m \in 1..n BY <1>4, <1>5
<1> DEFINE x == s[m-1]
           y == t[m-1]
           u == f[m]
           v == h[m]
<1>7. /\ s[m] = x + u /\ t[m] = y + v
      /\ x \in Nat /\ y \in Nat /\ u \in Nat /\ v \in Nat
  BY <1>1, <1>6 DEF IsSum
<1>8. a * x <= b * y /\ a * u <= b * v /\ ~(a * (x + u) <= b * (y + v))
  BY <1>4, <1>6, <1>7
<1> HIDE DEF x, y, u, v
<1>9. a * (x + u) = a * x + a * u /\ b * (y + v) = b * y + b * v BY <1>7
<1>10. a * x \in Nat /\ a * u \in Nat /\ b * y \in Nat /\ b * v \in Nat BY <1>7
<1>11. QED BY <1>8, <1>9, <1>10

-----------------------------------------------------------------------------
(* Products and quotients *)

\* Multiplying both sides keeps an inequality, dividing by a positive factor too.
LEMMA TimesMonotone ==
  ASSUME NEW x \in Nat, NEW y \in Nat, NEW k \in Nat, x <= y
  PROVE  x * k <= y * k
<1>1. y = x + (y - x) /\ y - x \in Nat OBVIOUS
<1>2. y * k = x * k + (y - x) * k BY <1>1
<1>3. (y - x) * k \in Nat /\ x * k \in Nat BY <1>1
<1>4. QED BY <1>2, <1>3

LEMMA TimesCancel ==
  ASSUME NEW x \in Nat, NEW y \in Nat, NEW k \in Nat \ {0}, x * k <= y * k
  PROVE  x <= y
<1>1. SUFFICES ASSUME x >= y + 1 PROVE FALSE OBVIOUS
<1>2. (y + 1) * k <= x * k BY <1>1, TimesMonotone
<1>3. (y + 1) * k = y * k + k OBVIOUS
<1>4. y * k \in Nat /\ x * k \in Nat OBVIOUS
<1>5. QED BY <1>2, <1>3, <1>4

\* A basis-point product rounds down to a natural.
LEMMA MulDivNat ==
  ASSUME NEW a \in Nat, NEW b \in Nat, NEW c \in Nat \ {0}
  PROVE  mul_div_floor(a, b, c) \in Nat
<1>1. a * b \in Nat OBVIOUS
<1>2. QED BY <1>1 DEF mul_div_floor

\* What makes it the floor: the largest natural whose product with the
\* denominator does not exceed the numerator.
LEMMA MulDivFloor ==
  ASSUME NEW a \in Nat, NEW b \in Nat, NEW c \in Nat \ {0}
  PROVE  /\ mul_div_floor(a, b, c) * c <= a * b
         /\ \A x \in Nat : x * c <= a * b => x <= mul_div_floor(a, b, c)
<1> DEFINE n == a * b
           q == n \div c
<1>1. n \in Nat OBVIOUS
<1>2. mul_div_floor(a, b, c) = q BY DEF mul_div_floor
<1>3. q \in Nat /\ c * q <= n /\ n < c * q + c
  <2> HIDE DEF n
  <2>1. QED BY <1>1
<1>4. q * c <= n BY <1>3
<1>5. ASSUME NEW x \in Nat, x * c <= n PROVE x <= q
  <2> HIDE DEF n, q
  <2>1. SUFFICES ASSUME x >= q + 1 PROVE FALSE BY <1>3
  <2>2. PICK d \in Nat : x = q + 1 + d
    <3>1. x - (q + 1) \in Nat BY <1>3, <2>1
    <3>2. x = q + 1 + (x - (q + 1)) BY <1>3
    <3>3. QED BY <3>1, <3>2
  <2>3. x * c = c * q + c + c * d BY <1>3, <2>2
  <2>4. c * d \in Nat OBVIOUS
  <2>5. c * q \in Nat /\ x * c \in Nat BY <1>3
  <2>6. QED BY <1>1, <1>3, <1>5, <2>3, <2>4, <2>5
<1>6. QED BY <1>2, <1>4, <1>5

LEMMA SaturatingSub ==
  ASSUME NEW a \in Nat, NEW b \in Nat
  PROVE  saturating_sub(a, b) \in Nat /\ saturating_sub(a, b) <= a
BY DEF saturating_sub

LEMMA Min2 ==
  ASSUME NEW a \in Nat, NEW b \in Nat
  PROVE  min2(a, b) \in Nat /\ min2(a, b) <= a /\ min2(a, b) <= b
BY DEF min2

\* The value of an LP position is a natural.
LEMMA UnitsToAssetsNat ==
  ASSUME NEW u \in Nat, NEW a \in Nat, NEW t \in Nat
  PROVE  units_to_assets(u, a, t) \in Nat
BY MulDivNat DEF units_to_assets

\* Quotients compare like the cross products.
LEMMA QuotientMonotone ==
  ASSUME NEW a \in Nat, NEW b \in Nat, NEW c \in Nat \ {0},
         NEW x \in Nat, NEW y \in Nat, NEW d \in Nat \ {0}, (a * b) * d <= (x * y) * c
  PROVE  mul_div_floor(a, b, c) <= mul_div_floor(x, y, d)
<1> DEFINE q == mul_div_floor(a, b, c)
           n == a * b
           m == x * y
<1>1. n \in Nat /\ m \in Nat /\ n * d <= m * c OBVIOUS
<1>2. q \in Nat /\ q * c <= n BY MulDivNat, MulDivFloor
<1>3. \A k \in Nat : k * d <= m => k <= mul_div_floor(x, y, d) BY MulDivFloor
<1> HIDE DEF q, n, m
<1>4. q * c \in Nat /\ q * d \in Nat /\ n * d \in Nat /\ m * c \in Nat /\ (q * d) * c \in Nat BY <1>1, <1>2
<1>5. (q * c) * d <= n * d BY <1>1, <1>2, <1>4, TimesMonotone
<1>6. (q * c) * d = (q * d) * c BY <1>2
<1>7. (q * d) * c <= m * c BY <1>1, <1>4, <1>5, <1>6
<1>8. q * d <= m BY <1>1, <1>4, <1>7, TimesCancel
<1>9. QED BY <1>2, <1>3, <1>8 DEF q

\* The rounded value of a holding does not fall when the assets behind all
\* units do not fall in proportion to the units.
LEMMA ValueKept ==
  ASSUME NEW u \in Nat, NEW a \in Nat, NEW t \in Nat, NEW b \in Nat, NEW s \in Nat,
         a * s <= b * t, u <= s
  PROVE  units_to_assets(u, a, t) <= units_to_assets(u, b, s)
<1>1. CASE t = 0 \/ u = 0
  <2>1. units_to_assets(u, a, t) = 0 BY <1>1 DEF units_to_assets
  <2>2. QED BY <2>1, UnitsToAssetsNat
<1>2. CASE t # 0 /\ u # 0
  <2>1. t \in Nat \ {0} /\ s \in Nat \ {0} BY <1>2
  <2>2. /\ units_to_assets(u, a, t) = mul_div_floor(u, a, t)
        /\ units_to_assets(u, b, s) = mul_div_floor(u, b, s)
    BY <1>2, <2>1 DEF units_to_assets
  <2>3. (a * s) * u <= (b * t) * u
    <3>1. a * s \in Nat /\ b * t \in Nat OBVIOUS
    <3>2. QED BY <3>1, TimesMonotone
  <2>4. (u * a) * s = (a * s) * u /\ (u * b) * t = (b * t) * u OBVIOUS
  <2>5. QED BY <2>1, <2>2, <2>3, <2>4, QuotientMonotone
<1>3. QED BY <1>1, <1>2

\* A share of the units is worth at most the assets.
LEMMA ShareBound ==
  ASSUME NEW u \in Nat, NEW t \in Nat, NEW a \in Nat, u <= t
  PROVE  units_to_assets(u, a, t) <= a
<1>1. CASE t = 0 \/ u = 0 BY <1>1 DEF units_to_assets
<1>2. CASE ~(t = 0 \/ u = 0)
  <2>1. units_to_assets(u, a, t) = (u * a) \div t BY <1>2 DEF units_to_assets, mul_div_floor
  <2>2. u * a <= t * a OBVIOUS
  <2>3. (u * a) \div t <= a
    <3>1. u * a \in Nat /\ t * a \in Nat /\ t \in Nat \ {0} BY <1>2
    <3>2. t * ((u * a) \div t) <= u * a BY <3>1
    <3>3. (u * a) \div t \in Nat BY <3>1
    <3>4. t * ((u * a) \div t) <= t * a BY <2>2, <3>1, <3>2, <3>3
    <3>5. QED BY <3>1, <3>3, <3>4
  <2>4. QED BY <2>1, <2>3
<1>3. QED BY <1>1, <1>2

\* Quotients by the same denominator grow with their factors.
LEMMA FloorGrows ==
  ASSUME NEW x \in Nat, NEW y \in Nat, NEW k \in Nat, NEW l \in Nat, NEW c \in Nat \ {0},
         x <= y, k <= l
  PROVE  mul_div_floor(x, k, c) <= mul_div_floor(y, l, c)
<1>1. x * k <= y * k BY TimesMonotone
<1>2. k * y <= l * y BY TimesMonotone
<1>3. x * k \in Nat /\ y * l \in Nat /\ k * y = y * k /\ l * y = y * l /\ y * k \in Nat OBVIOUS
<1>4. x * k <= y * l BY <1>1, <1>2, <1>3
<1>5. (x * k) * c <= (y * l) * c BY <1>3, <1>4, TimesMonotone
<1>6. QED BY <1>5, QuotientMonotone

\* A holder who buys m units for what a buys at the present price holds, at the
\* new price, no more than what was held and a.
LEMMA PositionGrows ==
  ASSUME NEW u \in Nat, NEW A \in Nat \ {0}, NEW T \in Nat \ {0}, NEW a \in Nat, u <= T
  PROVE  units_to_assets(u + mul_div_floor(a, T, A), A + a, T + mul_div_floor(a, T, A))
             <= units_to_assets(u, A, T) + a
<1> DEFINE m == mul_div_floor(a, T, A)
           v == mul_div_floor(u, A, T)
           w == mul_div_floor(u + m, A + a, T + m)
<1>1. m \in Nat /\ m * A <= a * T BY MulDivNat, MulDivFloor
<1> HIDE DEF m
<1>2. v \in Nat /\ (\A x \in Nat : x * T <= u * A => x <= v) BY MulDivNat, MulDivFloor
<1>3. w \in Nat /\ w * (T + m) <= (u + m) * (A + a)
  <2>1. u + m \in Nat /\ A + a \in Nat /\ T + m \in Nat \ {0} BY <1>1
  <2>2. QED BY <2>1, MulDivNat, MulDivFloor
<1>4. u * A < (v + 1) * T
  <2>1. ~((v + 1) * T <= u * A) BY <1>2
  <2>2. (v + 1) * T \in Nat /\ u * A \in Nat BY <1>2
  <2>3. QED BY <2>1, <2>2
<1> HIDE DEF v, w
<1>5. w <= v + a
  <2> SUFFICES ASSUME w >= v + a + 1 PROVE FALSE BY <1>2, <1>3
  <2> DEFINE d == a * T - m * A
             e == (v + 1) * T - u * A
  <2>1. (v + 1 + a) * (T + m) <= w * (T + m)
    <3>1. v + 1 + a \in Nat /\ T + m \in Nat /\ v + 1 + a <= w BY <1>1, <1>2, <1>3
    <3>2. QED BY <1>3, <3>1, TimesMonotone
  <2>2. d \in Nat /\ e \in Nat \ {0}
    <3>1. a * T \in Nat /\ m * A \in Nat /\ (v + 1) * T \in Nat /\ u * A \in Nat BY <1>1, <1>2
    <3>2. QED BY <1>1, <1>4, <3>1
  <2>3. (v + 1 + a) * (T + m) <= (u + m) * (A + a)
    <3>1. /\ (v + 1 + a) * (T + m) \in Nat /\ w * (T + m) \in Nat /\ (u + m) * (A + a) \in Nat
      BY <1>1, <1>2, <1>3
    <3>2. QED BY <1>3, <2>1, <3>1
  \* The difference of the two sides is e + (v + 1) * m + (T - u) * a - m * A.
  <2>4. (v + 1 + a) * (T + m) = (v + 1) * T + (v + 1) * m + a * T + a * m
    BY <1>1, <1>2
  <2>5. (u + m) * (A + a) = u * A + u * a + m * A + m * a
    BY <1>1
  <2>6. e + (v + 1) * m + a * T - u * a - m * A <= 0
    <3>1. /\ (v + 1) * T \in Int /\ (v + 1) * m \in Int /\ a * T \in Int /\ a * m \in Int
          /\ u * A \in Int /\ u * a \in Int /\ m * A \in Int /\ m * a = a * m
      BY <1>1, <1>2
    <3>2. QED BY <2>3, <2>4, <2>5, <3>1
  <2>7. (v + 1) * m \in Nat /\ u * a \in Nat /\ a * T \in Nat /\ m * A \in Nat BY <1>1, <1>2
  \* Times T: what it sells for is at least what it is sold for.
  <2>8. (e + (v + 1) * m + d - u * a) * T > 0
    <3>1. (e + (v + 1) * m + d - u * a) * T = e * T + m * ((v + 1) * T) + (d * T - (u * a) * T)
      BY <1>1, <1>2, <2>2
    <3>2. m * ((v + 1) * T) = m * (u * A) + m * e
      <4>1. (v + 1) * T = u * A + e /\ u * A \in Int BY <1>1, <1>2, <2>2
      <4> HIDE DEF e
      <4>2. QED BY <1>1, <2>2, <4>1
    <3>3. (u * a) * T = u * (a * T) BY <1>1
    <3>4. u * (a * T) = u * d + u * (m * A)
      <4> DEFINE p == m * A
      <4>1. a * T = d + p /\ p \in Int BY <1>1
      <4> HIDE DEF d, p
      <4>2. u * (d + p) = u * d + u * p BY <2>2, <4>1
      <4>3. QED BY <4>1, <4>2 DEF p
    <3>5. u * (m * A) = m * (u * A) BY <1>1
    <3>6. u * d <= d * T
      <4> HIDE DEF d
      <4>1. u * d <= T * d BY <2>2, TimesMonotone
      <4>2. QED BY <2>2, <4>1
    <3>7. e * T \in Nat \ {0}
      <4> HIDE DEF e
      <4>1. QED BY <2>2
    <3>8. m * e \in Nat
      <4> HIDE DEF e
      <4>1. QED BY <1>1, <2>2
    <3>9. u * d \in Nat /\ d * T \in Nat
      <4> HIDE DEF d
      <4>1. QED BY <2>2
    <3>10. m * (u * A) \in Nat /\ (u * a) * T \in Nat BY <1>1
    <3> HIDE DEF d, e
    <3> DEFINE s == (e + (v + 1) * m + d - u * a) * T
               g == m * ((v + 1) * T)
               h == (u * a) * T
               i == m * (u * A)
               k == e * T
               me == m * e
               ud == u * d
               dT == d * T
    <3>11. s = k + g + (dT - h) /\ g = i + me /\ h = ud + i BY <3>1, <3>2, <3>3, <3>4, <3>5
    <3>12. ud <= dT /\ k \in Nat \ {0} /\ me \in Nat /\ ud \in Nat /\ dT \in Nat /\ i \in Nat /\ h \in Nat
      BY <3>6, <3>7, <3>8, <3>9, <3>10
    <3> HIDE DEF s, g, h, i, k, me, ud, dT
    <3>13. s > 0 BY <3>11, <3>12
    <3>14. QED BY <3>13 DEF s
  <2>9. QED
    <3> DEFINE r == e + (v + 1) * m + d - u * a
    <3>1. r <= 0 /\ r \in Int
      <4>1. r = e + (v + 1) * m + a * T - u * a - m * A BY <1>1, <1>2, <2>2, <2>7
      <4>2. r \in Int BY <2>2, <2>7
      <4> HIDE DEF r
      <4>3. QED BY <2>6, <4>1, <4>2
    <3>2. r * T > 0 BY <2>8
    <3> HIDE DEF r
    <3>3. 0 - r \in Nat BY <3>1
    <3>4. (0 - r) * T \in Nat BY <3>3
    <3>5. (0 - r) * T = 0 - r * T /\ r * T \in Int BY <3>1
    <3>6. QED BY <3>2, <3>4, <3>5
<1>6. CASE u + m # 0
  <2>1. T + m # 0 BY <1>1
  <2>2. units_to_assets(u + m, A + a, T + m) = w BY <1>6, <2>1 DEF units_to_assets, w
  <2>3. units_to_assets(u, A, T) = v
    <3>1. CASE u # 0 BY <3>1 DEF units_to_assets, v
    <3>2. CASE u = 0
      <4>1. units_to_assets(u, A, T) = 0 BY <3>2 DEF units_to_assets
      <4>2. u * A = 0 BY <3>2
      <4>3. v = 0 BY <4>2 DEF v, mul_div_floor
      <4>4. QED BY <4>1, <4>3
    <3>3. QED BY <3>1, <3>2
  <2>4. QED BY <1>5, <2>2, <2>3 DEF m
<1>7. CASE u + m = 0
  <2>1. units_to_assets(u + m, A + a, T + m) = 0 BY <1>7 DEF units_to_assets
  <2>2. units_to_assets(u, A, T) \in Nat BY UnitsToAssetsNat
  <2>3. QED BY <2>1, <2>2 DEF m
<1>8. QED BY <1>6, <1>7

\* The units a deposit mints at most, when it stays below the amount that would
\* mint one more than k.
LEMMA MintedWithin ==
  ASSUME NEW a \in Nat, NEW T \in Nat, NEW A \in Nat \ {0}, NEW k \in Nat, a * T < (k + 1) * A
  PROVE  mul_div_floor(a, T, A) <= k
<1> DEFINE m == mul_div_floor(a, T, A)
<1>1. m \in Nat /\ m * A <= a * T BY MulDivNat, MulDivFloor
<1> HIDE DEF m
<1>2. SUFFICES ASSUME k + 1 <= m PROVE FALSE BY <1>1 DEF m
<1>3. (k + 1) * A <= m * A BY <1>1, <1>2, TimesMonotone
<1>4. (k + 1) * A \in Nat /\ m * A \in Nat /\ a * T \in Nat BY <1>1
<1>5. QED BY <1>1, <1>3, <1>4

-----------------------------------------------------------------------------
(* The multiplier ladder *)

\* g holds the falling products n, n(n-1), ... up to length k.
IsFalling(g, n, k) ==
    /\ g \in [0..k -> Nat \ {0}]
    /\ g[0] = 1
    /\ \A i \in 1..k : g[i] = g[i-1] * (n - (i-1))

\* Falling products of at most n factors exist and are positive.
LEMMA FallingExists ==
  ASSUME NEW n \in Nat, NEW k \in 0..n
  PROVE  \E g : IsFalling(g, n, k)
<1> DEFINE Bad == {m \in 0..k : ~ \E g : IsFalling(g, n, m)}
<1>1. SUFFICES ASSUME Bad # {} PROVE FALSE
  <2>1. k \in 0..k OBVIOUS
  <2>2. QED BY <1>1, <2>1
<1>2. PICK m \in Bad : \A j \in Bad : m <= j
  <2>1. Bad \subseteq Nat OBVIOUS
  <2>2. QED BY <1>1, <2>1, NatMin
<1>3. m # 0
  <2>1. IsFalling([i \in 0..0 |-> 1], n, 0) BY DEF IsFalling
  <2>2. QED BY <2>1, <1>2
<1>4. m - 1 \in 0..k /\ m - 1 \notin Bad /\ m \in 1..k BY <1>2, <1>3
<1>5. PICK g : IsFalling(g, n, m - 1) BY <1>4
<1> DEFINE last == g[m-1] * (n - (m-1))
           h == [i \in 0..m |-> IF i = m THEN last ELSE g[i]]
<1>6. last \in Nat \ {0}
  <2>1. g[m-1] \in Nat \ {0} BY <1>4, <1>5 DEF IsFalling
  <2>2. n - (m-1) \in Nat \ {0} BY <1>4
  <2>3. QED BY <2>1, <2>2
<1> HIDE DEF last
<1>7. h \in [0..m -> Nat \ {0}]
  <2>1. ASSUME NEW i \in 0..m PROVE h[i] \in Nat \ {0}
    <3>1. CASE i = m BY <3>1, <1>6
    <3>2. CASE i # m
      <4>1. i \in 0..(m-1) BY <3>2, <1>4
      <4>2. QED BY <1>5, <4>1, <3>2 DEF IsFalling
    <3>3. QED BY <3>1, <3>2
  <2>2. QED BY <2>1
<1>8. h[0] = 1 BY <1>3, <1>4, <1>5 DEF IsFalling
<1>9. ASSUME NEW i \in 1..m PROVE h[i] = h[i-1] * (n - (i-1))
  <2>1. i - 1 \in 0..(m-1) /\ i - 1 # m /\ i - 1 \in 0..m BY <1>4
  <2>2. h[i-1] = g[i-1] BY <2>1
  <2>3. CASE i = m BY <2>2, <2>3 DEF last
  <2>4. CASE i # m
    <3>1. i \in 1..(m-1) BY <2>4, <1>4
    <3>2. h[i] = g[i] BY <2>4
    <3>3. g[i] = g[i-1] * (n - (i-1)) BY <1>5, <3>1 DEF IsFalling
    <3>4. QED BY <2>2, <3>2, <3>3
  <2>5. QED BY <2>3, <2>4
<1>10. IsFalling(h, n, m) BY <1>7, <1>8, <1>9 DEF IsFalling
<1>11. QED BY <1>2, <1>10

\* The falling products of two lengths agree where both are defined.
LEMMA FallingAgree ==
  ASSUME NEW n \in Nat, NEW k \in Nat, NEW l \in Nat, NEW g, NEW h,
         IsFalling(g, n, k), IsFalling(h, n, l), k <= l
  PROVE  g[k] = h[k]
<1> DEFINE Bad == {m \in 0..k : g[m] # h[m]}
<1>1. SUFFICES ASSUME Bad # {} PROVE FALSE
  <2>1. k \in 0..k OBVIOUS
  <2>2. QED BY <1>1, <2>1
<1>2. PICK m \in Bad : \A j \in Bad : m <= j
  <2>1. Bad \subseteq Nat OBVIOUS
  <2>2. QED BY <1>1, <2>1, NatMin
<1>3. m # 0 BY <1>2 DEF IsFalling
<1>4. m - 1 \in 0..k /\ m - 1 \notin Bad /\ m \in 1..k /\ m \in 1..l BY <1>2, <1>3
<1>5. g[m] = g[m-1] * (n - (m-1)) /\ h[m] = h[m-1] * (n - (m-1)) BY <1>4 DEF IsFalling
<1>6. QED BY <1>2, <1>4, <1>5

\* The recursive function of falling(n, k) holds the falling products.
LEMMA FallingIs ==
  ASSUME NEW n \in Nat, NEW k \in 0..n, NEW g, IsFalling(g, n, k)
  PROVE  falling(n, k) = g[k]
<1> DEFINE Prod == CHOOSE prod : prod = [i \in 0..k |-> IF i = 0 THEN 1 ELSE prod[i-1] * (n - (i-1))]
<1>1. g = [i \in 0..k |-> IF i = 0 THEN 1 ELSE g[i-1] * (n - (i-1))]
  <2>1. ASSUME NEW i \in 0..k PROVE g[i] = IF i = 0 THEN 1 ELSE g[i-1] * (n - (i-1))
    <3>1. CASE i = 0 BY <3>1 DEF IsFalling
    <3>2. CASE i # 0
      <4>1. i \in 1..k BY <3>2
      <4>2. QED BY <4>1, <3>2 DEF IsFalling
    <3>3. QED BY <3>1, <3>2
  <2>2. QED BY <2>1 DEF IsFalling
<1>2. Prod = [i \in 0..k |-> IF i = 0 THEN 1 ELSE Prod[i-1] * (n - (i-1))] BY <1>1
<1>3. falling(n, k) = Prod[k] BY DEF falling
<1> HIDE DEF Prod
<1> DEFINE Bad == {m \in 0..k : Prod[m] # g[m]}
<1>4. SUFFICES ASSUME Bad # {} PROVE FALSE
  <2>1. k \in 0..k OBVIOUS
  <2>2. QED BY <1>3, <1>4, <2>1
<1>5. PICK m \in Bad : \A j \in Bad : m <= j
  <2>1. Bad \subseteq Nat OBVIOUS
  <2>2. QED BY <1>4, <2>1, NatMin
<1>6. m # 0
  <2>1. Prod[0] = 1 BY <1>2
  <2>2. QED BY <1>5, <2>1 DEF IsFalling
<1>7. m - 1 \in 0..k /\ m - 1 \notin Bad /\ m \in 1..k BY <1>5, <1>6
<1>8. g[m] = g[m-1] * (n - (m-1)) BY <1>7 DEF IsFalling
<1>9. Prod[m] = Prod[m-1] * (n - (m-1)) BY <1>2, <1>7
<1>10. QED BY <1>5, <1>7, <1>8, <1>9

\* One function for all lengths up to k.
LEMMA FallingTable ==
  ASSUME NEW n \in Nat, NEW k \in 0..n
  PROVE  \E g : IsFalling(g, n, k) /\ \A j \in 0..k : falling(n, j) = g[j]
<1>1. PICK g : IsFalling(g, n, k) BY FallingExists
<1>2. ASSUME NEW j \in 0..k PROVE falling(n, j) = g[j]
  <2>1. j \in 0..n /\ j \in Nat /\ k \in Nat /\ j <= k OBVIOUS
  <2>2. PICK h : IsFalling(h, n, j) BY <2>1, FallingExists
  <2>3. falling(n, j) = h[j] BY <2>1, <2>2, FallingIs
  <2>4. h[j] = g[j] BY <1>1, <2>1, <2>2, FallingAgree
  <2>5. QED BY <2>3, <2>4
<1>3. QED BY <1>1, <1>2

\* falling(n, k) is positive as long as the board holds k tiles.
LEMMA FallingPositive ==
  ASSUME NEW n \in Nat, NEW k \in 0..n
  PROVE  falling(n, k) \in Nat \ {0}
<1>1. PICK g : IsFalling(g, n, k) BY FallingExists
<1>2. falling(n, k) = g[k] BY <1>1, FallingIs
<1>3. QED BY <1>1, <1>2 DEF IsFalling

\* With at least one mine, n tiles cleared to the last safe one are worth at
\* least n times the chance: n (n-1) ... (m+1) against (n-m) ... 1, factor by
\* factor.
LEMMA FullClearRatio ==
  ASSUME NEW n \in Nat, NEW mines \in 1..(n - 1)
  PROVE  n * falling(n - mines, n - mines) <= falling(n, n - mines)
<1> DEFINE k == n - mines
<1>1. k \in Nat \ {0} /\ k \in 0..n /\ k \in 0..k /\ n - k = mines OBVIOUS
<1> HIDE DEF k
<1>2. PICK g : IsFalling(g, n, k) BY <1>1, FallingExists
<1>3. PICK h : IsFalling(h, k, k) BY <1>1, FallingExists
<1> DEFINE Bad == {m \in 1..k : ~(n * h[m-1] <= g[m])}
<1>4. Bad = {}
  <2>1. SUFFICES ASSUME Bad # {} PROVE FALSE OBVIOUS
  <2>2. PICK m \in Bad : \A j \in Bad : m <= j
    <3>1. Bad \subseteq Nat OBVIOUS
    <3>2. QED BY <2>1, <3>1, NatMin
  <2>3. g[m] = g[m-1] * (n - (m-1)) BY <1>2, <2>2 DEF IsFalling
  <2>4. CASE m = 1
    <3>1. g[0] = 1 /\ h[0] = 1 BY <1>2, <1>3 DEF IsFalling
    <3>2. QED BY <2>2, <2>3, <2>4, <3>1
  <2>5. CASE m # 1
    <3>1. m - 1 \in 1..k /\ m - 1 \notin Bad /\ m - 1 \in Nat /\ m - 2 \in 0..k /\ m - 1 \in 0..k
      BY <1>1, <2>2, <2>5
    <3>2. h[m-1] = h[m-2] * (k - (m-2))
      <4>1. (m - 1) - 1 = m - 2 BY <3>1
      <4>2. QED BY <1>3, <3>1, <4>1 DEF IsFalling
    <3> DEFINE x == h[m-2]
               y == g[m-1]
               a == k - (m-2)
               b == n - (m-1)
    <3>3. x \in Nat /\ y \in Nat BY <1>2, <1>3, <3>1 DEF IsFalling
    <3>4. a \in Nat /\ b \in Nat /\ a <= b BY <1>1, <3>1, <2>2
    <3>5. n * x <= y
      <4>1. (m - 1) - 1 = m - 2 BY <3>1
      <4>2. QED BY <3>1, <4>1
    <3>6. g[m] = y * b /\ h[m-1] = x * a BY <2>3, <3>2
    <3> HIDE DEF x, y, a, b
    <3>7. (n * x) * a <= y * a
      <4>1. n * x \in Nat BY <3>3
      <4>2. QED BY <3>3, <3>4, <3>5, <4>1, TimesMonotone
    <3>8. a * y <= b * y BY <3>3, <3>4, TimesMonotone
    <3>9. n * (x * a) = (n * x) * a /\ y * a = a * y /\ y * b = b * y BY <3>3, <3>4
    <3>10. n * (x * a) \in Nat /\ y * a \in Nat /\ y * b \in Nat BY <3>3, <3>4
    <3>11. n * (x * a) <= y * b BY <3>7, <3>8, <3>9, <3>10
    <3>12. QED BY <2>2, <3>6, <3>11
  <2>6. QED BY <2>4, <2>5
<1>5. k \in 1..k /\ k - 1 \in 0..k BY <1>1
<1>6. n * h[k-1] <= g[k] BY <1>4, <1>5
<1>7. h[k] = h[k-1]
  <2>1. h[k] = h[k-1] * (k - (k-1)) BY <1>3, <1>5 DEF IsFalling
  <2>2. k - (k-1) = 1 BY <1>1
  <2>3. h[k-1] \in Nat BY <1>3, <1>5 DEF IsFalling
  <2>4. QED BY <2>1, <2>2, <2>3
<1>8. falling(k, k) = h[k] /\ falling(n, k) = g[k] BY <1>1, <1>2, <1>3, FallingIs
<1>9. QED BY <1>6, <1>7, <1>8 DEF k

\* Every further safe tile raises the ratio of the two falling products.
LEMMA RatioGrows ==
  ASSUME NEW n \in Nat, NEW mines \in 0..n, NEW l \in 0..(n - mines), NEW i \in 0..l
  PROVE  falling(n, i) * falling(n - mines, l) <= falling(n, l) * falling(n - mines, i)
<1> DEFINE s == n - mines
<1>1. s \in Nat /\ l \in 0..n /\ l \in 0..s /\ s <= n OBVIOUS
<1> HIDE DEF s
<1>2. PICK g : IsFalling(g, n, l) /\ \A j \in 0..l : falling(n, j) = g[j] BY <1>1, FallingTable
<1>3. PICK h : IsFalling(h, s, l) /\ \A j \in 0..l : falling(s, j) = h[j] BY <1>1, FallingTable
<1>4. \A j \in 0..l : g[j] \in Nat /\ h[j] \in Nat BY <1>2, <1>3 DEF IsFalling
<1> DEFINE Bad == {m \in i..l : ~(g[i] * h[m] <= g[m] * h[i])}
<1>5. Bad = {}
  <2>1. SUFFICES ASSUME Bad # {} PROVE FALSE OBVIOUS
  <2>2. PICK m \in Bad : \A j \in Bad : m <= j
    <3>1. Bad \subseteq Nat OBVIOUS
    <3>2. QED BY <2>1, <3>1, NatMin
  <2>3. m # i
    <3>1. i \in 0..l BY <1>1
    <3>2. g[i] * h[i] \in Nat BY <1>4, <3>1
    <3>3. QED BY <2>2, <3>2
  <2>4. m - 1 \in i..l /\ m - 1 \notin Bad /\ m \in 1..l /\ m - 1 \in 0..l /\ i \in 0..l
    BY <2>2, <2>3
  <2> DEFINE a == s - (m-1)
             b == n - (m-1)
             gi == g[i]
             hi == h[i]
             gm == g[m-1]
             hm == h[m-1]
  <2>5. g[m] = gm * b /\ h[m] = hm * a BY <1>2, <1>3, <2>4 DEF IsFalling
  <2>6. gi \in Nat /\ hi \in Nat /\ gm \in Nat /\ hm \in Nat BY <1>4, <2>4
  <2>7. a \in Nat /\ b \in Nat /\ a <= b BY <1>1, <2>4
  <2>8. gi * hm <= gm * hi BY <2>4
  <2>9. ~(gi * (hm * a) <= (gm * b) * hi) BY <2>2, <2>5
  <2> HIDE DEF a, b, gi, hi, gm, hm
  <2>10. (gi * hm) * a <= (gm * hi) * a
    <3>1. gi * hm \in Nat /\ gm * hi \in Nat BY <2>6
    <3>2. QED BY <2>7, <2>8, <3>1, TimesMonotone
  <2>11. a * (gm * hi) <= b * (gm * hi)
    <3>1. gm * hi \in Nat BY <2>6
    <3>2. QED BY <2>7, <3>1, TimesMonotone
  <2>12. /\ gi * (hm * a) = (gi * hm) * a /\ a * (gm * hi) = (gm * hi) * a
         /\ b * (gm * hi) = (gm * b) * hi
    BY <2>6, <2>7
  <2>13. (gi * hm) * a \in Nat /\ (gm * hi) * a \in Nat /\ (gm * b) * hi \in Nat BY <2>6, <2>7
  <2>14. QED BY <2>9, <2>10, <2>11, <2>12, <2>13
<1>6. l \in i..l /\ l \in 0..l /\ i \in 0..l OBVIOUS
<1>7. g[i] * h[l] <= g[l] * h[i] BY <1>5, <1>6
<1>8. QED BY <1>2, <1>3, <1>6, <1>7 DEF s

\* The ladder returns a natural wherever it is defined.
LEMMA CalcMultiplierNat ==
  ASSUME NEW safe \in Nat, NEW mines \in Nat, NEW edge \in 0..BPS,
         multiplier_defined(safe, mines)
  PROVE  calc_multiplier(safe, mines, edge) \in Nat
<1> USE GridAssumption, BpsAssumption
<1>1. CASE safe = 0 BY <1>1 DEF calc_multiplier
<1>2. CASE safe # 0
  <2>1. safe \in 0..GRID_SIZE /\ safe \in 0..(GRID_SIZE - mines) /\ GRID_SIZE - mines \in Nat
    BY <1>2 DEF multiplier_defined
  <2> DEFINE num == falling(GRID_SIZE, safe)
             den == falling(GRID_SIZE - mines, safe)
             raw == (num * BPS) \div den
  <2>2. num \in Nat /\ den \in Nat \ {0} BY <2>1, FallingPositive
  <2>3. calc_multiplier(safe, mines, edge) = mul_div_floor(raw, BPS - edge, BPS)
    BY <1>2 DEF calc_multiplier
  <2>4. raw = mul_div_floor(num, BPS, den) BY DEF mul_div_floor
  <2> HIDE DEF num, den, raw
  <2>5. raw \in Nat BY <2>2, <2>4, MulDivNat
  <2>6. BPS - edge \in Nat OBVIOUS
  <2>7. QED BY <2>3, <2>5, <2>6, MulDivNat
<1>3. QED BY <1>1, <1>2

\* So does the reservation of a round the program accepts.
LEMMA WorstCasePayoutNat ==
  ASSUME NEW bet \in Nat, NEW mines \in 1..(GRID_SIZE - 1), NEW edge \in 0..BPS
  PROVE  worst_case_payout(bet, mines, edge) \in Nat
<1> USE GridAssumption, BpsAssumption
<1>1. GRID_SIZE - mines \in Nat /\ mines \in Nat /\ multiplier_defined(GRID_SIZE - mines, mines)
  BY DEF multiplier_defined
<1>2. calc_multiplier(GRID_SIZE - mines, mines, edge) \in Nat BY <1>1, CalcMultiplierNat
<1>3. QED BY <1>2, MulDivNat DEF worst_case_payout

\* The multiplier of a reveal count, with names for its parts.
LEMMA CalcParts ==
  ASSUME NEW safe \in Nat \ {0}, NEW mines \in Nat, safe + mines <= GRID_SIZE, NEW edge \in 0..BPS
  PROVE  LET num == falling(GRID_SIZE, safe)
             den == falling(GRID_SIZE - mines, safe)
             raw == mul_div_floor(num, BPS, den)
         IN  /\ num \in Nat \ {0} /\ den \in Nat \ {0} /\ raw \in Nat
             /\ calc_multiplier(safe, mines, edge) = mul_div_floor(raw, BPS - edge, BPS)
<1> USE GridAssumption, BpsAssumption
<1> DEFINE num == falling(GRID_SIZE, safe)
           den == falling(GRID_SIZE - mines, safe)
           raw == mul_div_floor(num, BPS, den)
<1>1. safe \in 0..GRID_SIZE /\ safe \in 0..(GRID_SIZE - mines) /\ GRID_SIZE - mines \in Nat OBVIOUS
<1>2. num \in Nat \ {0} /\ den \in Nat \ {0} BY <1>1, FallingPositive
<1>3. calc_multiplier(safe, mines, edge) = mul_div_floor(raw, BPS - edge, BPS)
  BY DEF calc_multiplier, mul_div_floor
<1> HIDE DEF num, den
<1>4. raw \in Nat BY <1>2, MulDivNat
<1>5. QED BY <1>2, <1>3, <1>4 DEF num, den

\* The ladder rises: a further safe tile never lowers the multiplier, rounding
\* included.  This is what makes the reservation a worst case.
LEMMA CalcMonotone ==
  ASSUME NEW mines \in Nat, NEW l \in 1..(GRID_SIZE - mines), NEW safe \in 1..l, NEW edge \in 0..BPS
  PROVE  calc_multiplier(safe, mines, edge) <= calc_multiplier(l, mines, edge)
<1> USE GridAssumption, BpsAssumption
<1> DEFINE num(k) == falling(GRID_SIZE, k)
           den(k) == falling(GRID_SIZE - mines, k)
           raw(k) == mul_div_floor(num(k), BPS, den(k))
<1>1. /\ safe \in Nat \ {0} /\ l \in Nat \ {0} /\ safe + mines <= GRID_SIZE /\ l + mines <= GRID_SIZE
      /\ mines \in 0..GRID_SIZE /\ l \in 0..(GRID_SIZE - mines) /\ safe \in 0..l
  OBVIOUS
<1>2. /\ num(safe) \in Nat \ {0} /\ den(safe) \in Nat \ {0} /\ raw(safe) \in Nat
      /\ calc_multiplier(safe, mines, edge) = mul_div_floor(raw(safe), BPS - edge, BPS)
  BY <1>1, CalcParts
<1>3. /\ num(l) \in Nat \ {0} /\ den(l) \in Nat \ {0} /\ raw(l) \in Nat
      /\ calc_multiplier(l, mines, edge) = mul_div_floor(raw(l), BPS - edge, BPS)
  BY <1>1, CalcParts
<1>4. num(safe) * den(l) <= num(l) * den(safe) BY <1>1, RatioGrows
<1> DEFINE a == num(safe)
           c == den(safe)
           x == num(l)
           d == den(l)
           lower == raw(safe)
           upper == raw(l)
<1>5. a \in Nat /\ x \in Nat /\ c \in Nat \ {0} /\ d \in Nat \ {0} /\ a * d <= x * c
      /\ lower = mul_div_floor(a, BPS, c) /\ upper = mul_div_floor(x, BPS, d)
      /\ lower \in Nat /\ upper \in Nat
  BY <1>2, <1>3, <1>4
<1>6. /\ calc_multiplier(safe, mines, edge) = mul_div_floor(lower, BPS - edge, BPS)
      /\ calc_multiplier(l, mines, edge) = mul_div_floor(upper, BPS - edge, BPS)
  BY <1>2, <1>3
<1> HIDE DEF a, c, x, d, lower, upper
<1>7. lower <= upper
  <2>1. a * d \in Nat /\ x * c \in Nat BY <1>5
  <2>2. (a * d) * BPS <= (x * c) * BPS BY <1>5, <2>1, TimesMonotone
  <2>3. (a * BPS) * d = (a * d) * BPS /\ (x * BPS) * c = (x * c) * BPS BY <1>5
  <2>4. QED BY <1>5, <2>2, <2>3, QuotientMonotone
<1>8. BPS - edge \in Nat OBVIOUS
<1>9. (lower * (BPS - edge)) * BPS <= (upper * (BPS - edge)) * BPS
  <2> DEFINE e == BPS - edge
  <2>1. lower * e <= upper * e
    <3> HIDE DEF e
    <3>1. e \in Nat BY <1>8 DEF e
    <3>2. QED BY <1>5, <1>7, <3>1, TimesMonotone
  <2>2. lower * e \in Nat /\ upper * e \in Nat BY <1>5, <1>8
  <2> HIDE DEF e
  <2>3. (lower * e) * BPS <= (upper * e) * BPS BY <2>1, <2>2, TimesMonotone
  <2>4. QED BY <2>3 DEF e
<1>10. mul_div_floor(lower, BPS - edge, BPS) <= mul_div_floor(upper, BPS - edge, BPS)
  <2> DEFINE e == BPS - edge
  <2>1. e \in Nat /\ (lower * e) * BPS <= (upper * e) * BPS BY <1>8, <1>9
  <2>2. lower \in Nat /\ upper \in Nat BY <1>5
  <2> HIDE DEF e
  <2>3. mul_div_floor(lower, e, BPS) <= mul_div_floor(upper, e, BPS) BY <2>1, <2>2, QuotientMonotone
  <2>4. QED BY <2>3 DEF e
<1>11. QED BY <1>6, <1>10

\* A cleared board pays at least GRID_SIZE times the bet, less the edge.
LEMMA FullClearMultiplier ==
  ASSUME NEW mines \in 1..(GRID_SIZE - 1), NEW edge \in 0..BPS
  PROVE  GRID_SIZE * (BPS - edge) <= calc_multiplier(GRID_SIZE - mines, mines, edge)
<1> USE GridAssumption, BpsAssumption
<1> DEFINE full == GRID_SIZE - mines
           num == falling(GRID_SIZE, full)
           den == falling(full, full)
           raw == mul_div_floor(num, BPS, den)
           e == BPS - edge
<1>1. full \in Nat \ {0} /\ mines \in Nat /\ full + mines <= GRID_SIZE OBVIOUS
<1>2. /\ num \in Nat \ {0} /\ den \in Nat \ {0} /\ raw \in Nat
      /\ calc_multiplier(full, mines, edge) = mul_div_floor(raw, e, BPS)
  <2> HIDE DEF full
  <2>1. GRID_SIZE - mines = full BY DEF full
  <2>2. QED BY <1>1, <2>1, CalcParts
<1>3. GRID_SIZE * den <= num BY FullClearRatio
<1>4. e \in Nat /\ GRID_SIZE \in Nat /\ BPS \in Nat \ {0} OBVIOUS
<1> HIDE DEF full, num, den, e
<1>5. GRID_SIZE * BPS <= raw
  <2>1. (GRID_SIZE * den) * BPS <= num * BPS
    <3>1. GRID_SIZE * den \in Nat BY <1>2
    <3>2. QED BY <1>2, <1>3, <3>1, TimesMonotone
  <2>2. (GRID_SIZE * BPS) * den = (GRID_SIZE * den) * BPS BY <1>2
  <2>3. GRID_SIZE * BPS \in Nat OBVIOUS
  <2>4. QED BY <1>2, <2>1, <2>2, <2>3, MulDivFloor
<1> HIDE DEF raw
<1>6. (GRID_SIZE * BPS) * e <= raw * e
  <2>1. GRID_SIZE * BPS \in Nat OBVIOUS
  <2>2. QED BY <1>2, <1>4, <1>5, <2>1, TimesMonotone
<1>7. (GRID_SIZE * e) * BPS = (GRID_SIZE * BPS) * e /\ GRID_SIZE * e \in Nat BY <1>4
<1>8. GRID_SIZE * e <= mul_div_floor(raw, e, BPS) BY <1>2, <1>4, <1>6, <1>7, MulDivFloor
<1>9. QED BY <1>2, <1>8 DEF full, e

\* No verdict of a round pays more than the reservation made for it.
LEMMA WorstCaseIsWorst ==
  ASSUME NEW bet \in Nat, NEW mines \in 1..(GRID_SIZE - 1), NEW safe \in 1..(GRID_SIZE - mines),
         NEW edge \in 0..BPS
  PROVE  mul_div_floor(bet, calc_multiplier(safe, mines, edge), BPS)
             <= worst_case_payout(bet, mines, edge)
<1> USE GridAssumption, BpsAssumption
<1> DEFINE full == GRID_SIZE - mines
           m == calc_multiplier(safe, mines, edge)
           w == calc_multiplier(full, mines, edge)
<1>1. /\ full \in 1..(GRID_SIZE - mines) /\ safe \in 1..full /\ mines \in Nat /\ safe \in Nat /\ full \in Nat
      /\ multiplier_defined(safe, mines) /\ multiplier_defined(full, mines)
  BY DEF multiplier_defined
<1>2. m \in Nat /\ w \in Nat
  <2> HIDE DEF full
  <2>1. QED BY <1>1, CalcMultiplierNat
<1>3. m <= w
  <2> HIDE DEF full
  <2>1. QED BY <1>1, CalcMonotone
<1>4. worst_case_payout(bet, mines, edge) = mul_div_floor(bet, w, BPS) BY DEF worst_case_payout
<1> HIDE DEF full, m, w
<1>5. (bet * m) * BPS <= (bet * w) * BPS
  <2>1. m * bet <= w * bet BY <1>2, <1>3, TimesMonotone
  <2>2. m * bet = bet * m /\ w * bet = bet * w /\ bet * m \in Nat /\ bet * w \in Nat BY <1>2
  <2>3. bet * m <= bet * w BY <2>1, <2>2
  <2>4. QED BY <2>2, <2>3, TimesMonotone
<1>6. mul_div_floor(bet, m, BPS) <= mul_div_floor(bet, w, BPS) BY <1>2, <1>5, QuotientMonotone
<1>7. QED BY <1>4, <1>6 DEF m

\* A reservation is at least the bet times the whole part of the smallest
\* multiplier of a cleared board.
LEMMA WorstCaseCovers ==
  ASSUME NEW bet \in Nat, NEW mines \in 1..(GRID_SIZE - 1), NEW edge \in 0..BPS
  PROVE  bet * ((GRID_SIZE * (BPS - edge)) \div BPS) <= worst_case_payout(bet, mines, edge)
<1> USE GridAssumption, BpsAssumption
<1> DEFINE e == BPS - edge
           k == mul_div_floor(GRID_SIZE, e, BPS)
           w == calc_multiplier(GRID_SIZE - mines, mines, edge)
<1>1. e \in Nat /\ GRID_SIZE \in Nat OBVIOUS
<1>2. GRID_SIZE * e <= w BY FullClearMultiplier
<1>3. w \in Nat
  <2>1. GRID_SIZE - mines \in Nat /\ mines \in Nat /\ multiplier_defined(GRID_SIZE - mines, mines)
    BY DEF multiplier_defined
  <2>2. QED BY <2>1, CalcMultiplierNat
<1>4. (GRID_SIZE * (BPS - edge)) \div BPS = k BY DEF mul_div_floor
<1>5. worst_case_payout(bet, mines, edge) = mul_div_floor(bet, w, BPS) BY DEF worst_case_payout
<1> HIDE DEF e, w
<1>6. k \in Nat /\ k * BPS <= GRID_SIZE * e BY <1>1, MulDivNat, MulDivFloor
<1> HIDE DEF k
<1>7. k * BPS <= w
  <2>1. k * BPS \in Nat /\ GRID_SIZE * e \in Nat BY <1>1, <1>6
  <2>2. QED BY <1>2, <1>3, <1>6, <2>1
<1>8. (bet * k) * BPS <= bet * w
  <2>1. k * BPS \in Nat BY <1>6
  <2>2. (k * BPS) * bet <= w * bet BY <1>3, <1>7, <2>1, TimesMonotone
  <2>3. (k * BPS) * bet = (bet * k) * BPS /\ w * bet = bet * w BY <1>3, <1>6
  <2>4. QED BY <2>2, <2>3
<1>9. bet * k \in Nat BY <1>6
<1>10. bet * k <= mul_div_floor(bet, w, BPS) BY <1>3, <1>8, <1>9, MulDivFloor
<1>11. QED BY <1>4, <1>5, <1>10

\* The treasury's part never exceeds what the vault holds.
LEMMA TreasuryFee ==
  ASSUME NEW bet \in Nat, NEW edge \in Nat, NEW split \in Nat, NEW held \in Nat,
         NEW out \in Nat, NEW pend \in Nat, NEW total \in Nat
  PROVE  /\ treasury_fee(bet, edge, split, held, out, pend, total) \in Nat
         /\ treasury_fee(bet, edge, split, held, out, pend, total) <= held
<1> DEFINE share == mul_div_floor(mul_div_floor(bet, edge, BPS), split, BPS)
           owed == units_to_assets(pend, held, total)
           rest == saturating_sub(held, out)
           free == saturating_sub(rest, owed)
<1>1. share \in Nat
  <2>1. mul_div_floor(bet, edge, BPS) \in Nat BY BpsAssumption, MulDivNat
  <2>2. QED BY <2>1, BpsAssumption, MulDivNat
<1>2. owed \in Nat BY UnitsToAssetsNat
<1>3. rest \in Nat /\ rest <= held BY SaturatingSub
<1>4. free \in Nat /\ free <= rest
  <2> HIDE DEF owed, rest
  <2>1. QED BY <1>2, <1>3, SaturatingSub
<1>5. treasury_fee(bet, edge, split, held, out, pend, total) = IF split > 0 THEN min2(share, free) ELSE 0
  BY DEF treasury_fee
<1> HIDE DEF share, owed, rest, free
<1>6. min2(share, free) \in Nat /\ min2(share, free) <= free BY <1>1, <1>4, Min2
<1>7. QED BY <1>3, <1>4, <1>5, <1>6

-----------------------------------------------------------------------------
(* The health factor *)

\* What is free is at most what is not reserved.
LEMMA FreeBelow ==
  ASSUME NEW a \in Nat, NEW out \in Nat, NEW pend \in Nat, NEW total \in Nat
  PROVE  /\ free_assets(a, out, pend, total) \in Nat
         /\ free_assets(a, out, pend, total) <= saturating_sub(a, out)
<1> DEFINE owed == units_to_assets(pend, a, total)
<1>1. owed \in Nat BY UnitsToAssetsNat
<1>2. free_assets(a, out, pend, total) = saturating_sub(a, out + owed) BY DEF free_assets
<1> HIDE DEF owed
<1>3. QED BY <1>1, <1>2 DEF saturating_sub

\* A vault of positive assets holds its health factor free.
LEMMA HealthIsFree ==
  ASSUME NEW a \in Nat, NEW out \in Nat, NEW pend \in Nat, NEW total \in Nat
  PROVE  LET h == calc_health_bps(a, out, pend, total)
         IN  h \in Nat /\ h * a <= free_assets(a, out, pend, total) * BPS
<1> USE BpsAssumption
<1> DEFINE free == free_assets(a, out, pend, total)
           h == calc_health_bps(a, out, pend, total)
           q == mul_div_floor(free, BPS, a)
<1>1. free \in Nat BY FreeBelow
<1>2. h = IF a = 0 THEN 0 ELSE min2(BPS, q) BY DEF calc_health_bps
<1>3. CASE a = 0
  <2>1. h = 0 BY <1>2, <1>3
  <2> HIDE DEF free, h
  <2>2. free * BPS \in Nat /\ h * a = 0 BY <1>1, <1>3, <2>1
  <2>3. QED BY <2>1, <2>2 DEF free, h
<1>4. CASE a # 0
  <2> HIDE DEF free
  <2>1. q \in Nat /\ q * a <= free * BPS BY <1>1, <1>4, MulDivNat, MulDivFloor
  <2> HIDE DEF q, h
  <2>2. h \in Nat /\ h <= q BY <1>2, <1>4, <2>1, Min2
  <2>3. h * a <= q * a BY <2>1, <2>2, TimesMonotone
  <2>4. h * a \in Nat /\ q * a \in Nat /\ free * BPS \in Nat BY <1>1, <2>1, <2>2
  <2>5. QED BY <2>1, <2>2, <2>3, <2>4 DEF free, h
<1>5. QED BY <1>3, <1>4

\* A cap of at most all assets, shrunk by the health factor, stays within what
\* is free.
LEMMA CapIsFree ==
  ASSUME NEW a \in Nat, NEW out \in Nat, NEW pend \in Nat, NEW total \in Nat, NEW bps \in 0..BPS
  PROVE  mul_div_floor(a, (bps * calc_health_bps(a, out, pend, total)) \div BPS, BPS)
             <= free_assets(a, out, pend, total)
<1> USE BpsAssumption
<1> DEFINE free == free_assets(a, out, pend, total)
           h == calc_health_bps(a, out, pend, total)
           cap == mul_div_floor(bps, h, BPS)
           q == mul_div_floor(a, cap, BPS)
<1>1. free \in Nat /\ h \in Nat /\ h * a <= free * BPS BY FreeBelow, HealthIsFree
<1>2. (bps * h) \div BPS = cap BY DEF mul_div_floor
<1> HIDE DEF free, h
<1>3. cap \in Nat /\ cap * BPS <= bps * h BY <1>1, MulDivNat, MulDivFloor
<1>4. cap <= h
  <2> HIDE DEF cap
  <2>1. bps * h <= BPS * h BY <1>1, TimesMonotone
  <2>2. BPS * h = h * BPS /\ h * BPS \in Nat /\ bps * h \in Nat /\ cap * BPS \in Nat BY <1>1, <1>3
  <2>3. cap * BPS <= h * BPS BY <1>3, <2>1, <2>2
  <2>4. QED BY <1>1, <1>3, <2>3, TimesCancel
<1> HIDE DEF cap
<1>5. q \in Nat /\ q * BPS <= a * cap BY <1>3, MulDivNat, MulDivFloor
<1> HIDE DEF q
<1>6. q * BPS <= free * BPS
  <2>1. cap * a <= h * a BY <1>1, <1>3, <1>4, TimesMonotone
  <2>2. cap * a = a * cap /\ cap * a \in Nat /\ h * a \in Nat /\ q * BPS \in Nat /\ free * BPS \in Nat
    BY <1>1, <1>3, <1>5
  <2>3. QED BY <1>1, <1>5, <2>1, <2>2
<1>7. q <= free BY <1>1, <1>5, <1>6, TimesCancel
<1>8. QED BY <1>2, <1>7 DEF q, free, h

\* The health floor: the reservations are covered, and what is left over is at
\* least the floor's share of all assets.
LEMMA HealthFloor ==
  ASSUME NEW a \in Nat, NEW out \in Nat, NEW pend \in Nat, NEW total \in Nat, NEW least \in Nat,
         enforce_min_health(least, a, out, pend, total), out <= a
  PROVE  least * a <= (a - out) * BPS
<1> USE BpsAssumption
<1> DEFINE free == free_assets(a, out, pend, total)
           h == calc_health_bps(a, out, pend, total)
           rest == a - out
<1>1. h \in Nat /\ h * a <= free * BPS BY HealthIsFree
<1>2. rest \in Nat /\ free \in Nat /\ free <= rest BY FreeBelow DEF saturating_sub
<1>3. least = 0 \/ least <= h BY <1>1 DEF enforce_min_health
<1> HIDE DEF free, h, rest
<1>4. free * BPS <= rest * BPS BY <1>2, TimesMonotone
<1>5. least * a <= h * a BY <1>1, <1>3, TimesMonotone
<1>6. least * a \in Nat /\ h * a \in Nat /\ free * BPS \in Nat /\ rest * BPS \in Nat BY <1>1, <1>2
<1>7. QED BY <1>1, <1>4, <1>5, <1>6 DEF rest

\* The health factor does not fall when what is owed does not become a larger
\* share of the assets.
LEMMA HealthMonotone ==
  ASSUME NEW b \in Nat \ {0}, NEW a \in Nat \ {0}, NEW outb \in Nat, NEW outa \in Nat,
         NEW pb \in Nat, NEW pa \in Nat, NEW tb \in Nat, NEW ta \in Nat,
         (outa + units_to_assets(pa, a, ta)) * b <= (outb + units_to_assets(pb, b, tb)) * a
  PROVE  calc_health_bps(b, outb, pb, tb) <= calc_health_bps(a, outa, pa, ta)
<1> USE BpsAssumption
<1> DEFINE oa == outa + units_to_assets(pa, a, ta)
           ob == outb + units_to_assets(pb, b, tb)
           fa == saturating_sub(a, oa)
           fb == saturating_sub(b, ob)
<1>1. oa \in Nat /\ ob \in Nat /\ oa * b <= ob * a
  <2>1. units_to_assets(pa, a, ta) \in Nat /\ units_to_assets(pb, b, tb) \in Nat BY UnitsToAssetsNat
  <2>2. QED BY <2>1
<1>2. /\ calc_health_bps(a, outa, pa, ta) = min2(BPS, mul_div_floor(fa, BPS, a))
      /\ calc_health_bps(b, outb, pb, tb) = min2(BPS, mul_div_floor(fb, BPS, b))
  BY DEF calc_health_bps, free_assets
<1> HIDE DEF oa, ob
<1>3. fa \in Nat /\ fb \in Nat BY <1>1 DEF saturating_sub
<1>4. fb * a <= fa * b
  <2>1. CASE ob >= b
    <3>1. fb = 0 BY <1>1, <2>1 DEF saturating_sub
    <3>2. fb * a = 0 /\ fa * b \in Nat BY <1>3, <3>1
    <3>3. QED BY <3>2
  <2>2. CASE ob < b
    <3>1. fb = b - ob BY <1>1, <2>2 DEF saturating_sub
    <3>2. ob * a <= b * a BY <1>1, <2>2, TimesMonotone
    <3>3. oa * b \in Nat /\ ob * a \in Nat /\ b * a \in Nat /\ b * a = a * b BY <1>1
    <3>4. oa * b <= a * b BY <1>1, <3>2, <3>3
    <3>5. oa <= a BY <1>1, <3>4, TimesCancel
    <3>6. fa = a - oa BY <1>1, <3>5 DEF saturating_sub
    <3>7. (b - ob) * a = b * a - ob * a /\ (a - oa) * b = a * b - oa * b BY <1>1
    <3>8. b * a - ob * a <= a * b - oa * b BY <1>1, <3>3
    <3>9. QED BY <3>1, <3>6, <3>7, <3>8
  <2>3. QED BY <1>1, <2>1, <2>2
<1> HIDE DEF fa, fb
<1>5. (fb * BPS) * a <= (fa * BPS) * b
  <2>1. fb * a \in Nat /\ fa * b \in Nat BY <1>3
  <2>2. (fb * a) * BPS <= (fa * b) * BPS BY <1>4, <2>1, TimesMonotone
  <2>3. (fb * BPS) * a = (fb * a) * BPS /\ (fa * BPS) * b = (fa * b) * BPS BY <1>3
  <2>4. QED BY <2>2, <2>3
<1>6. mul_div_floor(fb, BPS, b) <= mul_div_floor(fa, BPS, a) BY <1>3, <1>5, QuotientMonotone
<1>7. mul_div_floor(fb, BPS, b) \in Nat /\ mul_div_floor(fa, BPS, a) \in Nat BY <1>3, MulDivNat
<1>8. QED BY <1>2, <1>6, <1>7 DEF min2

\* Dividing an inequality of integers by a positive factor.
LEMMA IntTimesCancel ==
  ASSUME NEW x \in Int, NEW y \in Int, NEW k \in Nat \ {0}, x * k <= y * k
  PROVE  x <= y
<1>1. SUFFICES ASSUME x >= y + 1 PROVE FALSE OBVIOUS
<1>2. PICK d \in Nat : x = y + 1 + d
  <2>1. x - (y + 1) \in Nat /\ x = y + 1 + (x - (y + 1)) BY <1>1
  <2>2. QED BY <2>1
<1>3. x * k = y * k + k + d * k BY <1>2
<1>4. d * k \in Nat /\ y * k \in Int OBVIOUS
<1>5. QED BY <1>3, <1>4

\* A vault with more in it keeps a lower floor: pending units of p in t are worth ua of a
\* and ub of b, rounded down, and one lamport of rounding is less than what the two floors
\* are apart.
LEMMA MoreKeepsFloor ==
  ASSUME NEW a \in Nat \ {0}, NEW b \in Nat, a <= b, NEW out \in Nat, NEW p \in Nat, NEW t \in Nat \ {0},
         NEW ua \in Nat, NEW ub \in Nat, p * a < (ua + 1) * t, ub * t <= p * b,
         NEW least \in Nat, NEW seen \in Nat, BPS <= a * (seen - least),
         seen * a <= (a - (out + ua)) * BPS
  PROVE  least * b <= (b - (out + ub)) * BPS
<1> DEFINE K == BPS * t - p * BPS - least * t
           C == (out * BPS) * t
<1>1. BPS \in Nat \ {0} BY BpsAssumption
<1>2. (seen * a) * t <= ((a - (out + ua)) * BPS) * t
  <2>1. seen * a \in Nat /\ (a - (out + ua)) * BPS \in Int BY <1>1
  <2>2. (a - (out + ua)) * BPS \in Nat BY <2>1
  <2>3. QED BY <2>1, <2>2, TimesMonotone
<1>3. (p * a) * BPS <= ((ua + 1) * t) * BPS
  <2>1. p * a \in Nat /\ (ua + 1) * t \in Nat /\ p * a <= (ua + 1) * t OBVIOUS
  <2>2. QED BY <1>1, <2>1, TimesMonotone
<1>4. BPS * t <= (a * (seen - least)) * t
  <2>1. a * (seen - least) \in Int BY <1>1
  <2>2. a * (seen - least) \in Nat BY <1>1, <2>1
  <2>3. QED BY <1>1, <2>2, TimesMonotone
<1>5. C <= a * K
  <2>1. ((a - (out + ua)) * BPS) * t = (a * BPS) * t - C - (ua * t) * BPS BY <1>1
  <2>2. ((ua + 1) * t) * BPS = (ua * t) * BPS + BPS * t BY <1>1
  <2>3. (a * (seen - least)) * t = (seen * a) * t - (a * least) * t OBVIOUS
  <2>4. a * K = (a * BPS) * t - (p * a) * BPS - (a * least) * t BY <1>1
  <2>5. /\ C \in Int /\ a * K \in Int /\ (a * BPS) * t \in Int /\ (p * a) * BPS \in Int /\ (a * least) * t \in Int
        /\ (seen * a) * t \in Int /\ (ua * t) * BPS \in Int /\ BPS * t \in Int
    BY <1>1
  <2>6. (seen * a) * t <= (a * BPS) * t - C - (ua * t) * BPS BY <1>2, <2>1
  <2>7. (p * a) * BPS <= (ua * t) * BPS + BPS * t BY <1>3, <2>2
  <2>8. BPS * t <= (seen * a) * t - (a * least) * t BY <1>4, <2>3
  <2> HIDE DEF C, K
  <2>9. C <= (a * BPS) * t - (p * a) * BPS - (a * least) * t BY <2>5, <2>6, <2>7, <2>8
  <2>10. QED BY <2>4, <2>9
<1>6. C \in Nat /\ K \in Int BY <1>1
<1>7. K \in Nat
  <2> HIDE DEF C, K
  <2>1. SUFFICES ASSUME K <= -1 PROVE FALSE BY <1>6
  <2>2. K * a <= (-1) * a => FALSE
    <3>1. K * a = a * K /\ (-1) * a < 0 BY <1>6
    <3>2. QED BY <1>5, <1>6, <3>1
  <2>3. PICK d \in Nat : K = -1 - d
    <3>1. -1 - K \in Nat /\ K = -1 - (-1 - K) BY <1>6, <2>1
    <3>2. QED BY <3>1
  <2>4. K * a = (-1) * a - d * a /\ d * a \in Nat BY <2>3
  <2>5. QED BY <2>2, <2>4
<1>8. C <= b * K
  <2> HIDE DEF C, K
  <2>1. a * K <= b * K BY <1>7, TimesMonotone
  <2>2. a * K \in Int /\ b * K \in Int BY <1>7
  <2>3. QED BY <1>5, <1>6, <2>1, <2>2
<1>9. (ub * t) * BPS <= (p * b) * BPS
  <2>1. ub * t \in Nat /\ p * b \in Nat OBVIOUS
  <2>2. QED BY <1>1, <2>1, TimesMonotone
<1>10. (least * b) * t <= ((b - (out + ub)) * BPS) * t
  <2>1. ((b - (out + ub)) * BPS) * t = (b * BPS) * t - C - (ub * t) * BPS BY <1>1
  <2>2. b * K = (b * BPS) * t - (p * b) * BPS - (least * b) * t BY <1>1
  <2>3. /\ b * K \in Int /\ (b * BPS) * t \in Int /\ (p * b) * BPS \in Int /\ (least * b) * t \in Int
        /\ (ub * t) * BPS \in Int
    BY <1>1
  <2> HIDE DEF C, K
  <2>4. (least * b) * t <= (b * BPS) * t - C - (ub * t) * BPS BY <1>6, <1>8, <1>9, <2>2, <2>3
  <2>5. QED BY <2>1, <2>4
<1>11. least * b \in Int /\ (b - (out + ub)) * BPS \in Int BY <1>1
<1>12. QED BY <1>10, <1>11, IntTimesCancel

\* What a reader's copy of the health factor says of a vault that it takes for poorer than
\* it is: where it finds a floor kept, a lower one is kept.
LEMMA HealthWithMore ==
  ASSUME NEW a \in Nat \ {0}, NEW b \in Nat, a <= b, NEW out \in Nat, NEW pend \in Nat, NEW total \in Nat,
         NEW least \in Nat, NEW seen \in Nat, BPS <= a * (seen - least),
         seen <= calc_health_bps(a, out, pend, total)
  PROVE  least <= calc_health_bps(b, out, pend, total)
<1> DEFINE ua == units_to_assets(pend, a, total)
           ub == units_to_assets(pend, b, total)
           fa == free_assets(a, out, pend, total)
           fb == free_assets(b, out, pend, total)
           h == calc_health_bps(a, out, pend, total)
<1>1. BPS \in Nat \ {0} /\ ua \in Nat /\ ub \in Nat BY BpsAssumption, UnitsToAssetsNat
<1>2. fa = saturating_sub(a, out + ua) /\ fb = saturating_sub(b, out + ub) BY DEF free_assets
<1>3. /\ h = min2(BPS, mul_div_floor(fa, BPS, a))
      /\ calc_health_bps(b, out, pend, total) = min2(BPS, mul_div_floor(fb, BPS, b))
  BY DEF calc_health_bps
<1>4. h \in Nat /\ h * a <= fa * BPS BY HealthIsFree
<1>5. PICK p \in Nat, t \in Nat \ {0} : p * a < (ua + 1) * t /\ ub * t <= p * b
  <2>1. CASE total = 0 \/ pend = 0
    <3>1. ua = 0 /\ ub = 0 BY <2>1 DEF units_to_assets
    <3> HIDE DEF ua, ub
    <3>2. 0 * a < (ua + 1) * 1 /\ ub * 1 <= 0 * b BY <3>1
    <3>3. QED BY <3>2
  <2>2. CASE ~(total = 0 \/ pend = 0)
    <3>1. ua = mul_div_floor(pend, a, total) /\ ub = mul_div_floor(pend, b, total) /\ total \in Nat \ {0}
      BY <2>2 DEF units_to_assets
    <3> HIDE DEF ua, ub
    <3>2. ub * total <= pend * b BY <3>1, MulDivFloor
    <3>3. ~((ua + 1) * total <= pend * a)
      <4>1. (ua + 1) * total <= pend * a => ua + 1 <= ua BY <1>1, <3>1, MulDivFloor
      <4>2. QED BY <1>1, <4>1
    <3>4. (ua + 1) * total \in Int /\ pend * a \in Int BY <1>1, <3>1
    <3>5. pend * a < (ua + 1) * total BY <3>3, <3>4
    <3>6. QED BY <3>1, <3>2, <3>5
  <2>3. QED BY <2>1, <2>2
<1> HIDE DEF ua, ub, fa, fb, h
<1>6. seen > least
  <2>1. SUFFICES ASSUME seen <= least PROVE FALSE OBVIOUS
  <2>2. least - seen \in Nat /\ a * (least - seen) \in Nat BY <2>1
  <2>3. a * (seen - least) = -(a * (least - seen)) OBVIOUS
  <2>4. QED BY <1>1, <2>2, <2>3
<1>7. fa = a - (out + ua) /\ seen * a <= fa * BPS
  <2>1. fa \in Nat BY <1>1, <1>2 DEF saturating_sub
  <2>2. seen * a <= h * a BY <1>4, TimesMonotone DEF h
  <2>3. seen * a \in Nat /\ h * a \in Nat /\ fa * BPS \in Nat BY <1>1, <1>4, <2>1
  <2>4. seen * a <= fa * BPS BY <1>4, <2>2, <2>3
  <2>5. fa # 0
    <3>1. fa = 0 => fa * BPS = 0 BY <1>1
    <3>2. 1 * a <= seen * a BY <1>6, TimesMonotone
    <3>3. QED BY <2>3, <2>4, <3>1, <3>2
  <2>6. QED BY <1>1, <1>2, <2>4, <2>5 DEF saturating_sub
<1>8. least * b <= (b - (out + ub)) * BPS BY <1>1, <1>5, <1>7, MoreKeepsFloor
<1>9. fb \in Nat /\ b - (out + ub) \in Int /\ b - (out + ub) <= fb BY <1>1, <1>2 DEF saturating_sub
<1>10. least * b <= fb * BPS
  <2>1. PICK d \in Nat : fb = (b - (out + ub)) + d
    <3>1. fb - (b - (out + ub)) \in Nat /\ fb = (b - (out + ub)) + (fb - (b - (out + ub))) BY <1>9
    <3>2. QED BY <3>1
  <2> DEFINE r == b - (out + ub)
  <2> HIDE DEF r
  <2>2. r \in Int /\ fb = r + d /\ least * b <= r * BPS BY <1>8, <1>9, <2>1 DEF r
  <2>3. fb * BPS = r * BPS + d * BPS /\ d * BPS \in Nat /\ r * BPS \in Int /\ least * b \in Int BY <1>1, <2>2
  <2>4. QED BY <2>2, <2>3
<1>11. least <= BPS
  <2>1. fa \in Nat BY <1>1, <1>2 DEF saturating_sub
  <2>2. mul_div_floor(fa, BPS, a) \in Nat BY <1>1, <2>1, MulDivNat
  <2>3. h <= BPS BY <1>1, <1>3, <2>2, Min2
  <2>4. QED BY <1>1, <1>4, <1>6, <2>3 DEF h
<1>12. b \in Nat \ {0} OBVIOUS
<1>13. least <= mul_div_floor(fb, BPS, b) /\ mul_div_floor(fb, BPS, b) \in Nat
  BY <1>1, <1>9, <1>10, <1>12, MulDivNat, MulDivFloor
<1>14. calc_health_bps(b, out, pend, total) = min2(BPS, mul_div_floor(fb, BPS, b)) BY <1>3, <1>12
<1>15. QED BY <1>1, <1>11, <1>13, <1>14 DEF min2

=============================================================================
