------------------------- MODULE InstallmentProofs --------------------------
(***************************************************************************)
(* The two loops over the installments of a loan, whatever the terms, the  *)
(* amounts and the number of installments.  The loop that builds a         *)
(* schedule repays the principal exactly, in level installments that fall  *)
(* due one after the other, and rounds away half a cent of each at most.   *)
(* The loop that spreads a payment never gives away more than the payment  *)
(* pays, fills the oldest installment first and assigns all interest.      *)
(***************************************************************************)
EXTENDS ScheduleBuilder, Distribution, DataLemmas

(***************************************************************************)
(* Powers.                                                                 *)
(***************************************************************************)
\* What Power defines recursively.
Powers(x, n, power) ==
  power = [k \in 0..n |-> IF k = 0 THEN 1 ELSE x * power[k - 1]]

\* The prover sees a recursive function as the choice of one.
LEMMA PowerIsChosen ==
  ASSUME NEW x, NEW n
  PROVE  Power(x, n) = (CHOOSE power : Powers(x, n, power))[n]
BY Zenon DEF Power, Powers

\* There is such a function.
LEMMA PowersExist ==
  ASSUME NEW x, NEW n \in Nat
  PROVE  \E power : Powers(x, n, power)
<1> DEFINE S == {k \in Nat : \E power : Powers(x, k, power)}
<1>1. 0 \in S
  <2>1. PICK f : f = [k \in 0..0 |-> 1]
    OBVIOUS
  <2>2. Powers(x, 0, f)
    BY <2>1 DEF Powers
  <2> QED
    BY <2>2
<1>2. ASSUME NEW m \in Nat, m \in S PROVE m + 1 \in S
  <2>1. PICK f : Powers(x, m, f)
    BY <1>2
  <2>2. PICK g : g = [k \in 0..(m + 1) |-> IF k = 0 THEN 1 ELSE x * f[k - 1]]
    OBVIOUS
  <2>3. \A k \in 0..m : g[k] = f[k]
    BY <2>1, <2>2 DEF Powers
  <2>4. \A k \in 0..(m + 1) : k # 0 => k - 1 \in 0..m
    OBVIOUS
  <2>5. g = [k \in 0..(m + 1) |-> IF k = 0 THEN 1 ELSE x * g[k - 1]]
    BY <2>2, <2>3, <2>4
  <2> QED
    BY <2>5 DEF Powers
<1> HIDE DEF S
<1>3. Nat \subseteq S
  BY <1>1, <1>2, Counting
<1> QED
  BY <1>3 DEF S

\* And only one.
LEMMA PowersAgree ==
  ASSUME NEW x, NEW n \in Nat, NEW m \in Nat, NEW f, NEW g,
         Powers(x, n, f), Powers(x, m, g), NEW k \in Nat, k <= n, k <= m
  PROVE  f[k] = g[k]
<1> DEFINE S == {j \in Nat : j <= n /\ j <= m => f[j] = g[j]}
<1>1. 0 \in S
  BY DEF Powers
<1>2. ASSUME NEW j \in Nat, j \in S PROVE j + 1 \in S
  <2> SUFFICES ASSUME j + 1 <= n, j + 1 <= m PROVE f[j + 1] = g[j + 1]
    OBVIOUS
  <2>1. f[j] = g[j]
    BY <1>2
  <2>2. /\ j + 1 \in 0..n /\ j + 1 \in 0..m /\ j + 1 # 0 /\ (j + 1) - 1 = j
    OBVIOUS
  <2>3. f[j + 1] = x * f[j]
    BY <2>2 DEF Powers
  <2>4. g[j + 1] = x * g[j]
    BY <2>2 DEF Powers
  <2> QED
    BY <2>1, <2>3, <2>4
<1> HIDE DEF S
<1>3. Nat \subseteq S
  BY <1>1, <1>2, Counting
<1> QED
  BY <1>3 DEF S

\* Powers, one after the other.
LEMMA PowerUnfolds ==
  ASSUME NEW x, NEW n \in Nat
  PROVE  Power(x, 0) = 1 /\ Power(x, n + 1) = x * Power(x, n)
<1>1. \A k \in Nat : \E f : Powers(x, k, f) /\ Power(x, k) = f[k]
  BY PowersExist, PowerIsChosen
<1>2. Power(x, 0) = 1
  <2>1. PICK f : Powers(x, 0, f) /\ Power(x, 0) = f[0]
    BY <1>1
  <2> QED
    BY <2>1 DEF Powers
<1>3. Power(x, n + 1) = x * Power(x, n)
  <2>1. PICK f : Powers(x, n, f) /\ Power(x, n) = f[n]
    BY <1>1
  <2>2. PICK g : Powers(x, n + 1, g) /\ Power(x, n + 1) = g[n + 1]
    BY <1>1
  <2>3. n + 1 \in 0..(n + 1) /\ n + 1 # 0 /\ (n + 1) - 1 = n
    OBVIOUS
  <2>4. g[n + 1] = x * g[n]
    BY <2>2, <2>3 DEF Powers
  <2>5. f[n] = g[n]
    BY <2>1, <2>2, PowersAgree
  <2> QED
    BY <2>1, <2>2, <2>4, <2>5
<1> QED
  BY <1>2, <1>3

\* Powers of positive numbers are positive.
LEMMA PowerPositive ==
  ASSUME NEW x \in Nat \ {0}
  PROVE  \A n \in Nat : Power(x, n) \in Nat \ {0}
<1> DEFINE S == {n \in Nat : Power(x, n) \in Nat \ {0}}
<1>1. 0 \in S
  BY PowerUnfolds
<1>2. ASSUME NEW n \in Nat, n \in S PROVE n + 1 \in S
  <2>1. Power(x, n + 1) = x * Power(x, n)
    BY PowerUnfolds
  <2>2. PICK y \in Nat \ {0} : y = Power(x, n)
    BY <1>2
  <2>3. x * y \in Nat \ {0}
    OBVIOUS
  <2> QED
    BY <2>1, <2>2, <2>3
<1> HIDE DEF S
<1>3. Nat \subseteq S
  BY <1>1, <1>2, Counting
<1> QED
  BY <1>3 DEF S

\* Greater numbers have greater powers.
LEMMA PowerGreater ==
  ASSUME NEW x \in Nat \ {0}, NEW y \in Nat \ {0}, x < y
  PROVE  \A n \in Nat : /\ Power(x, n) <= Power(y, n)
                        /\ n # 0 => Power(x, n) < Power(y, n)
<1> DEFINE S == {n \in Nat : /\ Power(x, n) <= Power(y, n)
                             /\ n # 0 => Power(x, n) < Power(y, n)}
<1>1. 0 \in S
  BY PowerUnfolds
<1>2. ASSUME NEW n \in Nat, n \in S PROVE n + 1 \in S
  <2>1. Power(x, n + 1) = x * Power(x, n) /\ Power(y, n + 1) = y * Power(y, n)
    BY PowerUnfolds
  <2>2. PICK u, v \in Nat \ {0} : u = Power(x, n) /\ v = Power(y, n)
    BY PowerPositive
  <2>3. u <= v
    BY <1>2, <2>2
  <2>4. x * u < y * v
    <3>1. x * u < y * u
      OBVIOUS
    <3>2. y * u <= y * v
      BY <2>3
    <3>3. x * u \in Int /\ y * u \in Int /\ y * v \in Int
      OBVIOUS
    <3> QED
      BY <3>1, <3>2, <3>3
  <2>5. x * u \in Int /\ y * v \in Int
    OBVIOUS
  <2> QED
    BY <2>1, <2>2, <2>4, <2>5
<1> HIDE DEF S
<1>3. Nat \subseteq S
  BY <1>1, <1>2, Counting
<1> QED
  BY <1>3 DEF S

-----------------------------------------------------------------------------
(***************************************************************************)
(* Rounding.                                                               *)
(***************************************************************************)
\* What toFixed gives is half a cent off at most.
LEMMA RoundedNear ==
  ASSUME NEW t, Parts(t) \in Nat \ {0}, NEW x \in Int, NEW y \in ToFixed(t, x)
  PROVE  /\ y \in Int /\ 2 * Parts(t) * y \in Int
         /\ 2 * x - Parts(t) <= 2 * Parts(t) * y
         /\ 2 * Parts(t) * y <= 2 * x + Parts(t)
<1>1. PICK p, d : p = Parts(t) /\ d = 2 * p
  OBVIOUS
<1>2. /\ p \in Nat \ {0} /\ d \in Nat \ {0}
      /\ 2 * x + p \in Int /\ 2 * x + p - 1 \in Int
  BY <1>1
<1>3. y = (2 * x + p) \div d \/ y = (2 * x + p - 1) \div d
  BY <1>1 DEF ToFixed
<1>4. y \in Int /\ d * y <= 2 * x + p /\ 2 * x + p - 1 < d * y + d
  <2>1. CASE y = (2 * x + p) \div d
    <3>1. y \in Int /\ d * y <= 2 * x + p /\ 2 * x + p < d * y + d
      BY <1>2, <2>1, QuotientBounds
    <3> QED
      BY <1>2, <3>1, Multiples
  <2>2. CASE y = (2 * x + p - 1) \div d
    <3>1. y \in Int /\ d * y <= 2 * x + p - 1 /\ 2 * x + p - 1 < d * y + d
      BY <1>2, <2>2, QuotientBounds
    <3> QED
      BY <1>2, <3>1, Multiples
  <2> QED
    BY <1>3, <2>1, <2>2
<1>5. d * y \in Int /\ d = p + p
  BY <1>1, <1>2, <1>4, Multiples
<1>6. 2 * x - p <= d * y
  BY <1>2, <1>4, <1>5
<1> QED
  BY <1>1, <1>4, <1>5, <1>6

\* The smaller of two numbers is not rounded to more than the greater.
LEMMA RoundedInOrder ==
  ASSUME NEW t, Parts(t) \in Nat \ {0}, NEW x \in Int, NEW z \in Int, x < z,
         NEW y \in ToFixed(t, x), NEW u \in ToFixed(t, z)
  PROVE  y <= u
<1>1. PICK p, d : p = Parts(t) /\ d = 2 * p
  OBVIOUS
<1>2. p \in Nat \ {0} /\ d \in Nat \ {0} /\ d = p + p
  BY <1>1
<1>3. /\ y \in Int /\ d * y <= 2 * x + p /\ u \in Int /\ 2 * z - p <= d * u
  BY <1>1, RoundedNear
<1>4. d * y \in Int /\ d * u \in Int /\ d * (u + 1) = d * u + d
  BY <1>2, <1>3
<1>5. d * y < d * (u + 1)
  BY <1>2, <1>3, <1>4
<1>6. y < u + 1
  BY <1>2, <1>3, <1>5, Multiples
<1> QED
  BY <1>3, <1>6

-----------------------------------------------------------------------------
(***************************************************************************)
(* The annuity.                                                            *)
(***************************************************************************)
\* A multiple is divided exactly.
LEMMA Divided ==
  ASSUME NEW d \in Nat \ {0}, NEW z \in Int
  PROVE  (d * z) \div d = z
<1>1. PICK y : y = (d * z) \div d
  OBVIOUS
<1>2. d * z \in Int
  OBVIOUS
<1>3. y \in Int /\ d * y <= d * z /\ d * z < d * y + d
  BY <1>1, <1>2, QuotientBounds
<1>4. d * (y + 1) = d * y + d
  BY <1>3
<1>5. y <= z /\ z < y + 1
  BY <1>3, <1>4, Multiples
<1> QED
  BY <1>1, <1>3, <1>5

\* One turn of the loop, in numbers: v is what amount, tenor and the turns before
\* make of a cent, q and q + r give the monthly growth, d and e are their powers
\* still to come.
LEMMA OneTurn ==
  ASSUME NEW v \in Nat \ {0}, NEW q \in Nat \ {0}, NEW r \in Nat \ {0},
         NEW d \in Nat \ {0}, NEW e \in Nat \ {0}, e <= d
  PROVE  LET c        == q + r
             rest     == q * (v * (c * d - q * e))
             interest == r * (v * (c * d - q * e))
             payment  == r * (v * (c * d))
             next     == q * (v * (c * (d - e)))
         IN
         /\ rest \in Nat /\ interest \in Nat /\ payment \in Nat /\ next \in Nat
         /\ rest - (payment - interest) = next
         /\ r * (v * (c * (d - e))) \in Nat
         /\ r * (v * (c * (d - e))) < interest
<1>1. PICK c, x, y, z : c = q + r /\ x = c * d /\ y = q * e /\ z = r * e
  OBVIOUS
<1>2. /\ c \in Nat \ {0} /\ x \in Nat /\ y \in Nat /\ z \in Nat \ {0}
      /\ c * e = y + z
  BY <1>1
<1>3. c * e <= c * d
  BY <1>2
<1>4. c * (d - e) = x - (y + z) /\ d - e \in Nat /\ x - (y + z) \in Nat
      /\ x - y \in Nat
  BY <1>1, <1>2, <1>3
<1>5. PICK vx, vy, vz : vx = v * x /\ vy = v * y /\ vz = v * z
  OBVIOUS
<1>6. vx \in Nat /\ vy \in Nat /\ vz \in Nat \ {0} /\ r * vy = q * vz
  <2>1. vx \in Nat /\ vy \in Nat /\ vz \in Nat \ {0}
    BY <1>2, <1>5
  <2>2. r * (v * (q * e)) = q * (v * (r * e))
    OBVIOUS
  <2> QED
    BY <1>1, <1>5, <2>1, <2>2
<1>7. v * (x - y) = vx - vy /\ v * (x - (y + z)) = (vx - vy) - vz
  BY <1>2, <1>5
<1>8. PICK a, b : a = vx - vy /\ b = (vx - vy) - vz
  OBVIOUS
<1>9. a \in Nat /\ b \in Nat /\ b < a /\ a - b = vz /\ vx - a = vy
  BY <1>2, <1>4, <1>6, <1>7, <1>8
<1>10. /\ q * a \in Nat /\ q * b \in Nat /\ r * a \in Nat /\ r * b \in Nat
       /\ r * vx \in Nat /\ r * b < r * a
       /\ r * vx - r * a = r * vy /\ q * a - q * b = q * vz
  BY <1>6, <1>9
<1>11. q * a - (r * vx - r * a) = q * b
  BY <1>6, <1>10
<1> QED
  BY <1>1, <1>4, <1>5, <1>7, <1>8, <1>10, <1>11

\* What is left of the principal after k turns.
Monthly(t) == t.per + t.rate
Rest(t, k) ==
  t.amount * Unit(t) * Power(Monthly(t), k)
    * (Power(Monthly(t), t.tenor - k) - Power(t.per, t.tenor - k))

\* The growth over the whole term is that before month k and that after it.
Grown(t, k) == Growth(t) = Power(Monthly(t), k) * Power(Monthly(t), t.tenor - k)

\* The terms are positive numbers, and so are the parts of a cent.
LEMMA TermsPositive ==
  ASSUME NEW t \in Terms
  PROVE  /\ t.amount \in Nat \ {0} /\ t.rate \in Nat \ {0} /\ t.per \in Nat \ {0}
         /\ t.tenor \in Nat \ {0} /\ t.month \in 1..12 /\ t.day \in Int
         /\ Monthly(t) \in Nat \ {0} /\ t.per < Monthly(t)
         /\ Unit(t) \in Nat \ {0} /\ Parts(t) \in Nat \ {0}
<1>1. /\ t.amount \in Nat \ {0} /\ t.rate \in Nat \ {0} /\ t.per \in Nat \ {0}
      /\ t.tenor \in Nat \ {0} /\ t.month \in 1..12
  BY TermsAssumption
<1>2. t.day \in Int
  <2>1. t.day \in 1..DaysIn(t.month) /\ DaysIn(t.month) \in Int
    BY <1>1, TermsAssumption DEF DaysIn
  <2> QED
    BY <2>1
<1>3. Monthly(t) \in Nat \ {0} /\ t.per < Monthly(t)
  BY <1>1 DEF Monthly
<1>4. PICK g, u : g = Growth(t) /\ u = Unit(t)
  OBVIOUS
<1>5. g \in Nat \ {0} /\ u \in Nat \ {0} /\ u < g
  <2>1. g = Power(Monthly(t), t.tenor) /\ u = Power(t.per, t.tenor)
    BY <1>4 DEF Growth, Unit, Monthly
  <2>2. /\ Power(Monthly(t), t.tenor) \in Nat \ {0}
        /\ Power(t.per, t.tenor) \in Nat \ {0}
    BY <1>1, <1>3, PowerPositive
  <2>3. Power(t.per, t.tenor) < Power(Monthly(t), t.tenor)
    BY <1>1, <1>3, PowerGreater
  <2> QED
    BY <2>1, <2>2, <2>3
<1>6. (g - u) * u \in Nat \ {0}
  <2>1. g - u \in Nat \ {0}
    BY <1>5
  <2> QED
    BY <1>5, <2>1
<1> QED
  BY <1>1, <1>2, <1>3, <1>4, <1>5, <1>6 DEF Parts

\* Before the first turn everything is left.
LEMMA RestStarts ==
  ASSUME NEW t \in Terms
  PROVE  Rest(t, 0) = t.amount * Parts(t) /\ Grown(t, 0)
<1>1. /\ t.amount \in Int /\ t.tenor \in Nat /\ t.tenor - 0 = t.tenor
      /\ Monthly(t) \in Nat \ {0} /\ t.per \in Nat \ {0}
  BY TermsPositive
<1>2. PICK a, g, u : a = t.amount /\ g = Growth(t) /\ u = Unit(t)
  OBVIOUS
<1>3. g = Power(Monthly(t), t.tenor) /\ u = Power(t.per, t.tenor)
  BY <1>2 DEF Growth, Unit, Monthly
<1>4. a \in Int /\ g \in Int /\ u \in Int
  BY <1>1, <1>2, <1>3, PowerPositive
<1>5. Power(Monthly(t), 0) = 1
  BY PowerUnfolds
<1>6. Rest(t, 0) = a * u * 1 * (g - u)
  BY <1>1, <1>2, <1>3, <1>5 DEF Rest
<1>7. a * u * 1 * (g - u) = a * ((g - u) * u)
  BY <1>4
<1>8. g = 1 * g
  BY <1>4
<1> QED
  BY <1>1, <1>2, <1>3, <1>5, <1>6, <1>7, <1>8 DEF Parts, Grown

\* After the last turn nothing is left.
LEMMA RestEnds ==
  ASSUME NEW t \in Terms
  PROVE  Rest(t, t.tenor) = 0
<1>1. /\ t.amount \in Nat /\ t.tenor \in Nat /\ t.tenor - t.tenor = 0
      /\ Unit(t) \in Nat /\ Monthly(t) \in Nat \ {0}
  BY TermsPositive
<1>2. Power(Monthly(t), 0) = 1 /\ Power(t.per, 0) = 1
  BY PowerUnfolds
<1>3. PICK x : x = t.amount * Unit(t) * Power(Monthly(t), t.tenor)
  OBVIOUS
<1>4. x \in Int
  <2>1. Power(Monthly(t), t.tenor) \in Nat
    BY <1>1, PowerPositive
  <2>2. \A i, j, k \in Nat : i * j * k \in Int
    OBVIOUS
  <2> QED
    BY <1>1, <1>3, <2>1, <2>2
<1>5. Rest(t, t.tenor) = x * (1 - 1)
  BY <1>1, <1>2, <1>3 DEF Rest
<1> QED
  BY <1>4, <1>5

\* A turn of the loop takes the rest one month on; interest falls.
LEMMA RestFalls ==
  ASSUME NEW t \in Terms, NEW k \in Nat, k < t.tenor, Grown(t, k)
  PROVE  /\ Grown(t, k + 1)
         /\ MonthlyPayment(t) \in Nat
         /\ Rest(t, k) \in Nat /\ Interest(t, Rest(t, k)) \in Nat
         /\ Rest(t, k + 1) \in Nat /\ Interest(t, Rest(t, k + 1)) \in Nat
         /\ Rest(t, k) - (MonthlyPayment(t) - Interest(t, Rest(t, k))) = Rest(t, k + 1)
         /\ Interest(t, Rest(t, k + 1)) < Interest(t, Rest(t, k))
<1>1. PICK a, r, q, n, m, c :
        /\ a = t.amount /\ r = t.rate /\ q = t.per /\ n = t.tenor /\ c = Monthly(t)
        /\ m = n - (k + 1)
  OBVIOUS
<1>2. /\ a \in Nat \ {0} /\ r \in Nat \ {0} /\ q \in Nat \ {0} /\ n \in Nat \ {0}
      /\ c \in Nat \ {0} /\ q < c /\ c = q + r
  BY <1>1, TermsPositive DEF Monthly
<1>3. m \in Nat /\ n - 1 \in Nat /\ n - k = m + 1 /\ n = (n - 1) + 1
  BY <1>1, <1>2
<1>4. PICK u, s, d, e : /\ u = Power(q, n - 1) /\ s = Power(c, k)
                        /\ d = Power(c, m) /\ e = Power(q, m)
  OBVIOUS
<1>5. /\ u \in Nat \ {0} /\ s \in Nat \ {0} /\ d \in Nat \ {0} /\ e \in Nat \ {0}
      /\ e <= d
  BY <1>2, <1>3, <1>4, PowerPositive, PowerGreater
<1>6. /\ Power(c, n - k) = c * d /\ Power(q, n - k) = q * e
      /\ Power(c, k + 1) = c * s /\ Power(q, n) = q * u
  BY <1>3, <1>4, PowerUnfolds
<1>7. Unit(t) = q * u /\ Growth(t) = s * (c * d)
  BY <1>1, <1>4, <1>6 DEF Unit, Grown
<1>8. PICK v : v = a * (u * s)
  OBVIOUS
<1>9. v \in Nat \ {0}
  BY <1>2, <1>5, <1>8
<1>10. Rest(t, k) = q * (v * (c * d - q * e))
  <2>1. Rest(t, k) = a * (q * u) * s * (c * d - q * e)
    BY <1>1, <1>4, <1>6, <1>7 DEF Rest
  <2>2. PICK x \in Int : x = c * d - q * e
    BY <1>2, <1>5
  <2>3. a * (q * u) * s * x = q * ((a * (u * s)) * x)
    BY <1>2, <1>5
  <2> QED
    BY <1>8, <2>1, <2>2, <2>3
<1>11. Rest(t, k + 1) = q * (v * (c * (d - e)))
  <2>1. Rest(t, k + 1) = a * (q * u) * (c * s) * (d - e)
    BY <1>1, <1>4, <1>6, <1>7 DEF Rest
  <2>2. PICK x \in Int : x = d - e
    BY <1>5
  <2>3. a * (q * u) * (c * s) * x = q * ((a * (u * s)) * (c * x))
    BY <1>2, <1>5
  <2> QED
    BY <1>8, <2>1, <2>2, <2>3
<1>12. MonthlyPayment(t) = r * (v * (c * d))
  <2>1. MonthlyPayment(t) = (a * r * (s * (c * d)) * (q * u)) \div q
    BY <1>1, <1>7 DEF MonthlyPayment
  <2>2. PICK x \in Int : x = c * d
    BY <1>2, <1>5
  <2>3. a * r * (s * x) * (q * u) = q * (r * ((a * (u * s)) * x))
    BY <1>2, <1>5
  <2>4. PICK y \in Int : y = r * (v * x)
    BY <1>2, <1>9
  <2>5. MonthlyPayment(t) = (q * y) \div q
    BY <1>8, <2>1, <2>2, <2>3, <2>4
  <2> QED
    BY <1>2, <2>2, <2>4, <2>5, Divided
<1>13. ASSUME NEW x \in Int
       PROVE  Interest(t, q * (v * x)) = r * (v * x)
  <2>1. PICK y \in Int : y = r * (v * x)
    BY <1>2, <1>9
  <2>2. (q * (v * x)) * r = q * y
    BY <1>2, <1>9, <2>1
  <2> QED
    BY <1>1, <1>2, <2>1, <2>2, Divided DEF Interest
<1>14. /\ Interest(t, Rest(t, k)) = r * (v * (c * d - q * e))
       /\ Interest(t, Rest(t, k + 1)) = r * (v * (c * (d - e)))
  <2>1. c * d - q * e \in Int /\ c * (d - e) \in Int
    BY <1>2, <1>5
  <2> QED
    BY <1>10, <1>11, <1>13, <2>1
<1>15. Grown(t, k + 1)
  <2>1. s * (c * d) = (c * s) * d
    BY <1>2, <1>5
  <2> QED
    BY <1>1, <1>4, <1>6, <1>7, <2>1 DEF Grown
<1>16. PICK rest, interest, payment, next, after :
         /\ rest = Rest(t, k) /\ interest = Interest(t, Rest(t, k))
         /\ payment = MonthlyPayment(t) /\ next = Rest(t, k + 1)
         /\ after = Interest(t, Rest(t, k + 1))
  OBVIOUS
<1>17. /\ rest \in Nat /\ interest \in Nat /\ payment \in Nat /\ next \in Nat
       /\ rest - (payment - interest) = next
       /\ after \in Nat /\ after < interest
  BY <1>2, <1>5, <1>9, <1>10, <1>11, <1>12, <1>14, <1>16, OneTurn
<1> QED
  BY <1>15, <1>16, <1>17

-----------------------------------------------------------------------------
(***************************************************************************)
(* Sums over the months.                                                   *)
(***************************************************************************)
\* A sum with one more member.
LEMMA SumOneMore ==
  ASSUME NEW n, n \in Nat, NEW f, NEW g, DOMAIN f = 1..n, DOMAIN g = 1..(n + 1),
         \A i \in 1..n : f[i] \in Int /\ g[i] = f[i], g[n + 1] \in Int
  PROVE  SumFunction(f) \in Int /\ SumFunction(g) = SumFunction(f) + g[n + 1]
<1>1. PICK S, x : S = 1..n /\ x = n + 1
  OBVIOUS
<1>2. IsFiniteSet(S) /\ x \notin S /\ S \cup {x} = 1..(n + 1)
  <2>1. IsFiniteSet(1..n)
    BY FS_Interval
  <2> QED
    BY <1>1, <2>1
<1>3. SumFunctionOnSet(g, S \cup {x}) = g[x] + SumFunctionOnSet(g, S)
  <2>1. \A y \in S \cup {x} : g[y] \in Int
    BY <1>1
  <2> QED
    BY <1>2, <2>1, SumWith
<1>4. /\ SumFunctionOnSet(f, S) = SumFunctionOnSet(g, S)
      /\ SumFunctionOnSet(f, S) \in Int
  <2>1. \A y \in S : f[y] \in Int /\ f[y] = g[y]
    BY <1>1
  <2> QED
    BY <1>2, <2>1, SumAgree, SumType
<1>5. SumFunction(f) = SumFunctionOnSet(f, S) /\ SumFunction(g) = SumFunctionOnSet(g, S \cup {x})
  BY <1>1, <1>2 DEF SumFunction
<1> QED
  BY <1>1, <1>3, <1>4, <1>5

Dates == [month : Int, day : Int]

\* A month has 28 to 31 days, and a day that it does not have is one of the first
\* three of the next.
LEMMA DueDateIs ==
  ASSUME NEW t \in Terms, NEW i \in Nat
  PROVE  /\ DueDate(t, i) \in Dates
         /\ \/ DueDate(t, i).month = t.month + i /\ DueDate(t, i).day = t.day
            \/ /\ DueDate(t, i).month = t.month + i + 1
               /\ DueDate(t, i).day \in 1..3 /\ t.day > 28
         /\ DueDate(t, 0) = [month |-> t.month, day |-> t.day]
<1>1. /\ t.month \in 1..12 /\ t.month + 0 = t.month
      /\ t.day \in 1..DaysIn(t.month)
  BY TermsAssumption
<1>2. \A m : DaysIn(m) \in 28..31
  BY DEF DaysIn
<1>3. PICK m, n : m = t.month + i /\ n = DaysIn(m)
  OBVIOUS
<1>4. m \in Int /\ n \in 28..31 /\ t.day \in 1..31 /\ t.day <= DaysIn(t.month)
  <2>1. m \in Int
    BY <1>1, <1>3
  <2>2. DaysIn(t.month) \in 28..31 /\ n \in 28..31
    BY <1>2, <1>3
  <2> QED
    BY <1>1, <2>1, <2>2
<1>5. DueDate(t, 0) = [month |-> t.month, day |-> t.day]
  BY <1>1, <1>4 DEF DueDate
<1>6. CASE t.day <= n
  <2>1. DueDate(t, i) = [month |-> m, day |-> t.day]
    BY <1>3, <1>6 DEF DueDate
  <2> QED
    BY <1>3, <1>4, <1>5, <2>1 DEF Dates
<1>7. CASE ~(t.day <= n)
  <2>1. DueDate(t, i) = [month |-> m + 1, day |-> t.day - n]
    BY <1>3, <1>7 DEF DueDate
  <2>2. t.day - n \in 1..3 /\ t.day > 28 /\ m + 1 \in Int
    BY <1>4, <1>7
  <2> QED
    BY <1>3, <1>5, <2>1, <2>2 DEF Dates
<1> QED
  BY <1>6, <1>7

\* A date that runs over does not reach the next one.
LEMMA DatesApart ==
  ASSUME NEW t \in Terms, NEW i \in Nat \ {0}
  PROVE  /\ Earlier(DueDate(t, i - 1), DueDate(t, i))
         /\ DueDate(t, i).month - DueDate(t, i - 1).month \in 0..2
         /\ i > 1 => DueDate(t, i - 2).month < DueDate(t, i).month
<1>1. /\ t.month \in Int /\ t.day \in Int /\ i \in Nat /\ i - 1 \in Nat
      /\ t.month + (i - 1) + 1 = t.month + i
      /\ i > 1 => i - 2 \in Nat /\ t.month + (i - 2) + 1 < t.month + i
  BY TermsPositive
<1>2. PICK d, e : d = DueDate(t, i) /\ e = DueDate(t, i - 1)
  OBVIOUS
<1>3. /\ \/ d.month = t.month + i /\ d.day = t.day
         \/ d.month = t.month + i + 1 /\ d.day \in 1..3 /\ t.day > 28
      /\ \/ e.month = t.month + i - 1 /\ e.day = t.day
         \/ e.month = t.month + i /\ e.day \in 1..3 /\ t.day > 28
  <2>1. t.month + (i - 1) = t.month + i - 1
    BY <1>1
  <2> QED
    BY <1>1, <1>2, <2>1, DueDateIs
<1>4. Earlier(e, d) /\ d.month - e.month \in 0..2
  BY <1>1, <1>3 DEF Earlier
<1>5. ASSUME i > 1 PROVE DueDate(t, i - 2).month < d.month
  <2>1. PICK c : c = DueDate(t, i - 2)
    OBVIOUS
  <2>2. c.month = t.month + (i - 2) \/ c.month = t.month + (i - 2) + 1
    BY <1>1, <1>5, <2>1, DueDateIs
  <2>3. c.month < t.month + i
    BY <1>1, <1>5, <2>2
  <2>4. d.month = t.month + i \/ d.month = t.month + i + 1
    BY <1>3
  <2> QED
    BY <1>1, <1>5, <2>1, <2>2, <2>3, <2>4
<1> QED
  BY <1>2, <1>4, <1>5

\* The principal of the installments pushed.
Scheduled(s) == SumFunction([i \in DOMAIN s |-> s[i].principal])

Rows == [due : Dates, interest : Int, principal : Int]

\* One more is pushed.
LEMMA OnePushed ==
  ASSUME NEW s \in Seq(Rows), NEW row \in Rows
  PROVE  /\ Scheduled(s) \in Int
         /\ Scheduled(Append(s, row)) = Scheduled(s) + row.principal
         /\ Append(s, row) \in Seq(Rows)
         /\ Len(s) \in Nat /\ Len(Append(s, row)) = Len(s) + 1
         /\ DOMAIN s = 1..Len(s) /\ DOMAIN Append(s, row) = 1..(Len(s) + 1)
         /\ \A i \in 1..Len(s) : s[i] \in Rows /\ Append(s, row)[i] = s[i]
         /\ Append(s, row)[Len(s) + 1] = row
<1>1. PICK n, more : n = Len(s) /\ more = Append(s, row)
  OBVIOUS
<1>2. /\ n \in Nat /\ DOMAIN s = 1..n /\ \A i \in 1..n : s[i] \in Rows
  BY <1>1, LenProperties, ElementOfSeq
<1>3. /\ more \in Seq(Rows) /\ Len(more) = n + 1 /\ DOMAIN more = 1..(n + 1)
      /\ \A i \in 1..n : more[i] = s[i]
      /\ more[n + 1] = row
  BY <1>1, <1>2, AppendProperties
<1>4. PICK f, g : /\ f = [i \in DOMAIN s |-> s[i].principal]
                  /\ g = [i \in DOMAIN more |-> more[i].principal]
  OBVIOUS
<1>5. /\ DOMAIN f = 1..n /\ DOMAIN g = 1..(n + 1)
      /\ \A i \in 1..n : f[i] \in Int /\ g[i] = f[i]
      /\ g[n + 1] \in Int /\ g[n + 1] = row.principal
  BY <1>2, <1>3, <1>4 DEF Rows
<1>6. SumFunction(f) \in Int /\ SumFunction(g) = SumFunction(f) + g[n + 1]
  BY <1>2, <1>5, SumOneMore
<1>7. SumFunction(f) = Scheduled(s) /\ SumFunction(g) = Scheduled(more)
  BY <1>4 DEF Scheduled
<1> QED
  BY <1>1, <1>2, <1>3, <1>5, <1>6, <1>7

-----------------------------------------------------------------------------
(***************************************************************************)
(* The loop.                                                               *)
(***************************************************************************)
\* The installments so far miss the principal they stand for by half a cent each.
Near(t, k, rest, sum) ==
  /\ 2 * (t.amount * Parts(t) - rest) - k * Parts(t) <= 2 * Parts(t) * sum
  /\ 2 * Parts(t) * sum <= 2 * (t.amount * Parts(t) - rest) + k * Parts(t)

\* What an installment was rounded from: its interest is more than is due next.
Before(t, row, rest) ==
  \E x \in Nat : /\ row.interest \in ToFixed(t, x)
                 /\ row.principal \in ToFixed(t, MonthlyPayment(t) - x)
                 /\ Interest(t, rest) < x

(***************************************************************************)
(* After k turns what remains is the rest of month k, in closed form; that *)
(* is what makes the last turn end at zero.  The installments so far are   *)
(* rounded from what they should be.                                       *)
(***************************************************************************)
BuilderInv ==
  LET k == Len(schedules) IN
  /\ terms \in Terms /\ schedules \in Seq(Rows) /\ k <= terms.tenor
  /\ Grown(terms, k) /\ remaining = Rest(terms, k)
  /\ Near(terms, k, remaining, Scheduled(schedules))
  /\ k # 0 => Before(terms, schedules[k], remaining)
  /\ \A i \in DOMAIN schedules : schedules[i].due = DueDate(terms, i)
  /\ LevelInstallments /\ InterestFalls

\* It holds before the first turn.
LEMMA BuilderStarts == BuilderInit => BuilderInv
<1> SUFFICES ASSUME BuilderInit PROVE BuilderInv
  OBVIOUS
<1>1. /\ terms \in Terms /\ schedules = <<>> /\ schedules \in Seq(Rows)
      /\ Len(schedules) = 0 /\ DOMAIN schedules = {}
      /\ remaining = terms.amount * Parts(terms)
  BY DEF BuilderInit
<1>2. /\ terms.amount \in Nat /\ Parts(terms) \in Nat /\ terms.tenor \in Nat
  BY <1>1, TermsPositive
<1>3. remaining = Rest(terms, 0) /\ Grown(terms, 0)
  BY <1>1, RestStarts
<1>4. Scheduled(schedules) = 0
  <2>1. PICK f : f = [i \in DOMAIN schedules |-> schedules[i].principal]
    OBVIOUS
  <2>2. SumFunctionOnSet(f, {}) = 0
    BY SumOfNone
  <2> QED
    BY <1>1, <2>1, <2>2 DEF Scheduled, SumFunction
<1>5. Near(terms, 0, remaining, 0)
  <2>1. PICK a, p : a = terms.amount * Parts(terms) /\ p = Parts(terms)
    OBVIOUS
  <2>2. a \in Int /\ p \in Int
    BY <1>2, <2>1
  <2>3. /\ 2 * (a - a) - 0 * p <= 2 * p * 0
        /\ 2 * p * 0 <= 2 * (a - a) + 0 * p
    BY <2>2
  <2> QED
    BY <1>1, <2>1, <2>3 DEF Near
<1>6. LevelInstallments /\ InterestFalls
  BY <1>1 DEF LevelInstallments, InterestFalls
<1> QED
  BY <1>1, <1>2, <1>3, <1>4, <1>5, <1>6 DEF BuilderInv

\* What one turn pushes and leaves, when k were made.
Pushed(t, k, row) ==
  LET interest == Interest(t, Rest(t, k)) IN
  /\ row \in Rows /\ row.due = DueDate(t, k + 1)
  /\ row.interest \in ToFixed(t, interest)
  /\ row.principal \in ToFixed(t, MonthlyPayment(t) - interest)

LEMMA PushEffect ==
  ASSUME BuilderInv, Push
  PROVE  \E row : /\ Pushed(terms, Len(schedules), row)
                  /\ schedules' = Append(schedules, row)
                  /\ remaining' = Rest(terms, Len(schedules) + 1)
                  /\ terms' = terms
<1>1. PICK t, k, x, y : /\ t = terms /\ k = Len(schedules) /\ x = Interest(t, Rest(t, k))
                        /\ y = MonthlyPayment(t) - x
  OBVIOUS
<1>2. t \in Terms /\ k \in Nat /\ k < t.tenor /\ Grown(t, k) /\ remaining = Rest(t, k)
  BY <1>1, LenProperties DEF BuilderInv, Push
<1>3. /\ x \in Nat /\ y \in Int /\ Rest(t, k + 1) \in Nat
      /\ remaining - y = Rest(t, k + 1)
  BY <1>1, <1>2, RestFalls
<1>4. PICK i \in ToFixed(t, x), p \in ToFixed(t, y) :
        schedules' = Append(schedules,
          [due |-> DueDate(t, k + 1), interest |-> i, principal |-> p])
  BY <1>1, <1>2 DEF Push
<1>5. remaining' = Rest(t, k + 1) /\ terms' = t
  <2>1. remaining' = NotNegative(remaining - y) /\ terms' = t
    BY <1>1, <1>2 DEF Push
  <2> QED
    BY <1>3, <2>1 DEF NotNegative
<1>6. i \in Int /\ p \in Int
  BY <1>2, <1>3, <1>4, TermsPositive, RoundedNear
<1>7. DueDate(t, k + 1) \in Dates
  <2>1. k + 1 \in Nat
    BY <1>2
  <2> QED
    BY <1>2, <2>1, DueDateIs
<1>8. PICK row : row = [due |-> DueDate(t, k + 1), interest |-> i, principal |-> p]
  OBVIOUS
<1>9. Pushed(t, k, row)
  BY <1>1, <1>4, <1>6, <1>7, <1>8 DEF Pushed, Rows
<1> QED
  BY <1>1, <1>4, <1>5, <1>8, <1>9

\* The rounding of one more installment.
LEMMA NearKept ==
  ASSUME NEW t \in Terms, NEW k \in Nat, NEW rest \in Int, NEW sum \in Int, NEW y \in Int,
         NEW p \in ToFixed(t, y), Near(t, k, rest, sum)
  PROVE  Near(t, k + 1, rest - y, sum + p)
<1>1. PICK a, d : a = t.amount * Parts(t) /\ d = Parts(t)
  OBVIOUS
<1>2. a \in Int /\ d \in Nat \ {0}
  BY <1>1, TermsPositive
<1>3. p \in Int /\ 2 * y - d <= 2 * d * p /\ 2 * d * p <= 2 * y + d /\ 2 * d * p \in Int
  BY <1>1, <1>2, RoundedNear
<1>4. 2 * (a - rest) - k * d <= 2 * d * sum /\ 2 * d * sum <= 2 * (a - rest) + k * d
  BY <1>1 DEF Near
<1>5. /\ 2 * d * (sum + p) = 2 * d * sum + 2 * d * p /\ 2 * d * sum \in Int
      /\ (k + 1) * d = k * d + d /\ k * d \in Int
  BY <1>2, <1>3
<1>6. /\ 2 * (a - (rest - y)) - (k + 1) * d <= 2 * d * (sum + p)
      /\ 2 * d * (sum + p) <= 2 * (a - (rest - y)) + (k + 1) * d
  BY <1>2, <1>3, <1>4, <1>5
<1> QED
  BY <1>1, <1>6 DEF Near

\* What is rounded in two parts is a cent off at most.
LEMMA PartsNear ==
  ASSUME NEW t \in Terms, NEW x \in Int, NEW y \in Int,
         NEW i \in ToFixed(t, x), NEW p \in ToFixed(t, y)
  PROVE  Distance((p + i) * Parts(t), x + y) <= Parts(t)
<1>1. PICK d : d = Parts(t)
  OBVIOUS
<1>2. d \in Nat \ {0}
  BY <1>1, TermsPositive
<1>3. /\ i \in Int /\ 2 * x - d <= 2 * d * i /\ 2 * d * i <= 2 * x + d
      /\ p \in Int /\ 2 * y - d <= 2 * d * p /\ 2 * d * p <= 2 * y + d
  BY <1>1, <1>2, RoundedNear
<1>4. PICK m, n : m = d * i /\ n = d * p
  OBVIOUS
<1>5. /\ m \in Int /\ n \in Int /\ 2 * d * i = 2 * m /\ 2 * d * p = 2 * n
      /\ (p + i) * d = n + m
  BY <1>2, <1>3, <1>4
<1>6. x + y - d <= n + m /\ n + m <= x + y + d
  BY <1>2, <1>3, <1>5
<1> QED
  BY <1>1, <1>2, <1>5, <1>6 DEF Distance

\* Every turn keeps the invariant.
LEMMA PushKeeps ==
  ASSUME BuilderInv, Push
  PROVE  BuilderInv'
<1>1. PICK t, k, s : t = terms /\ k = Len(schedules) /\ s = schedules
  OBVIOUS
<1>2. PICK row : /\ Pushed(t, k, row) /\ schedules' = Append(s, row)
                 /\ remaining' = Rest(t, k + 1) /\ terms' = t
  BY <1>1, PushEffect
<1>3. /\ t \in Terms /\ s \in Seq(Rows) /\ k \in Nat /\ k < t.tenor /\ t.tenor \in Nat
      /\ Grown(t, k) /\ remaining = Rest(t, k) /\ row \in Rows
      /\ Near(t, k, Rest(t, k), Scheduled(s))
  BY <1>1, <1>2, LenProperties, TermsPositive DEF BuilderInv, Push, Pushed
<1>4. PICK x, y, rest, next :
        /\ x = Interest(t, Rest(t, k)) /\ y = MonthlyPayment(t) - x
        /\ rest = Rest(t, k) /\ next = Rest(t, k + 1)
  OBVIOUS
<1>5. /\ MonthlyPayment(t) \in Nat /\ x \in Nat /\ y \in Int
      /\ rest \in Nat /\ next \in Nat /\ rest - y = next
      /\ Grown(t, k + 1) /\ Interest(t, next) < x
  BY <1>3, <1>4, RestFalls
<1>6. PICK more : more = Append(s, row)
  OBVIOUS
<1>7. /\ more \in Seq(Rows) /\ Len(more) = k + 1 /\ DOMAIN more = 1..(k + 1)
      /\ DOMAIN s = 1..k /\ \A i \in 1..k : s[i] \in Rows /\ more[i] = s[i]
      /\ more[k + 1] = row
      /\ Scheduled(s) \in Int /\ Scheduled(more) = Scheduled(s) + row.principal
  BY <1>1, <1>3, <1>6, OnePushed
<1>8. /\ row.interest \in ToFixed(t, x) /\ row.principal \in ToFixed(t, y)
      /\ row.due = DueDate(t, k + 1)
  BY <1>2, <1>4 DEF Pushed
<1>9. Near(t, k + 1, next, Scheduled(more))
  <2>1. Near(t, k, rest, Scheduled(s)) /\ rest \in Int /\ row.principal \in ToFixed(t, y)
    BY <1>3, <1>4, <1>5, <1>8
  <2>2. Near(t, k + 1, rest - y, Scheduled(s) + row.principal)
    BY <1>3, <1>5, <1>7, <2>1, NearKept
  <2> QED
    BY <1>5, <1>7, <2>2
<1>10. Before(t, more[k + 1], next)
  BY <1>4, <1>5, <1>7, <1>8 DEF Before
<1>11. \A i \in 1..(k + 1) : i \in 1..k \/ i = k + 1
  BY <1>3
<1>12. \A i \in 1..(k + 1) : more[i].due = DueDate(t, i)
  BY <1>1, <1>7, <1>8, <1>11 DEF BuilderInv
<1>13. \A i \in 1..(k + 1) :
         Distance((more[i].principal + more[i].interest) * Parts(t), MonthlyPayment(t))
           <= Parts(t)
  <2>1. Distance((row.principal + row.interest) * Parts(t), x + y) <= Parts(t)
    BY <1>3, <1>5, <1>8, PartsNear
  <2>2. x + y = MonthlyPayment(t)
    BY <1>4, <1>5
  <2>3. \A i \in 1..k :
          Distance((s[i].principal + s[i].interest) * Parts(t), MonthlyPayment(t))
            <= Parts(t)
    BY <1>1, <1>7 DEF BuilderInv, LevelInstallments
  <2> QED
    BY <1>7, <1>11, <2>1, <2>2, <2>3
<1>14. \A i \in 2..(k + 1) : /\ more[i].interest <= more[i - 1].interest
                             /\ more[i].principal >= more[i - 1].principal
  <2>1. \A i \in 2..k : /\ s[i].interest <= s[i - 1].interest
                        /\ s[i].principal >= s[i - 1].principal
    BY <1>1 DEF BuilderInv, InterestFalls
  <2>2. CASE k = 0
    BY <2>2
  <2>3. CASE k # 0
    <3>1. PICK z \in Nat : /\ s[k].interest \in ToFixed(t, z)
                           /\ s[k].principal \in ToFixed(t, MonthlyPayment(t) - z)
                           /\ x < z
      BY <1>1, <1>3, <1>4, <2>3 DEF BuilderInv, Before
    <3>2. Parts(t) \in Nat \ {0} /\ MonthlyPayment(t) - z \in Int
      BY <1>3, <1>5, TermsPositive
    <3>3. row.interest <= s[k].interest
      BY <1>5, <1>8, <3>1, <3>2, RoundedInOrder
    <3>4. s[k].principal <= row.principal
      <4>1. MonthlyPayment(t) - z < y
        BY <1>4, <1>5, <3>1
      <4> QED
        BY <1>5, <1>8, <3>1, <3>2, <4>1, RoundedInOrder
    <3>5. \A i \in 2..(k + 1) : \/ i \in 2..k /\ i \in 1..k /\ i - 1 \in 1..k
                                \/ i = k + 1 /\ i - 1 = k /\ i - 1 \in 1..k
      BY <1>3, <2>3
    <3>6. s[k].principal \in Int /\ row.principal \in Int
      BY <1>3, <1>7, <2>3 DEF Rows
    <3>7. row.principal >= s[k].principal
      BY <3>4, <3>6
    <3> QED
      BY <1>7, <2>1, <3>3, <3>5, <3>7
  <2> QED
    BY <2>2, <2>3
<1>15. LevelInstallments' /\ InterestFalls'
  BY <1>2, <1>6, <1>7, <1>13, <1>14 DEF LevelInstallments, InterestFalls
<1>16. /\ terms' = t /\ schedules' = more /\ remaining' = next /\ Len(more) = k + 1
       /\ k + 1 # 0 /\ k + 1 <= t.tenor
  BY <1>2, <1>3, <1>4, <1>6, <1>7
<1> QED
  BY <1>3, <1>4, <1>5, <1>7, <1>9, <1>10, <1>12, <1>15, <1>16 DEF BuilderInv

\* And after every one.
LEMMA BuilderAlways == BuilderSpec => []BuilderInv
<1>1. BuilderInv /\ UNCHANGED builder => BuilderInv'
  BY DEF BuilderInv, builder, LevelInstallments, InterestFalls
<1>2. BuilderInv /\ [Push]_builder => BuilderInv'
  BY <1>1, PushKeeps
<1> QED
  BY <1>2, BuilderStarts, PTL DEF BuilderSpec

\* The last installment repays what is left of a loan exactly, whatever its terms.
THEOREM ScheduleRepays == BuilderSpec => []RepaidAtTheEnd
<1>1. BuilderInv => RepaidAtTheEnd
  BY RestEnds DEF BuilderInv, RepaidAtTheEnd, Done
<1> QED
  BY <1>1, BuilderAlways, PTL

\* What the installments of a schedule ask for in principal misses the amount by half
\* a cent for each of them at most.
THEOREM ScheduleNearAmount == BuilderSpec => []PrincipalNearAmount
<1>1. ASSUME BuilderInv, Done
      PROVE  2 * Distance(Scheduled(schedules), terms.amount) <= terms.tenor
  <2>1. PICK a, d, n, sum : /\ a = terms.amount /\ d = Parts(terms) /\ n = terms.tenor
                            /\ sum = Scheduled(schedules)
    OBVIOUS
  <2>2. a \in Nat /\ d \in Nat \ {0} /\ n \in Nat /\ sum \in Int
    <3>1. \E row : row \in Rows
      <4>1. [due |-> [month |-> 0, day |-> 0], interest |-> 0, principal |-> 0] \in Rows
        BY DEF Rows, Dates
      <4> QED
        BY <4>1
    <3> QED
      BY <1>1, <2>1, <3>1, TermsPositive, OnePushed DEF BuilderInv
  <2>3. 2 * (a * d - 0) - n * d <= 2 * d * sum /\ 2 * d * sum <= 2 * (a * d - 0) + n * d
    BY <1>1, <2>1, RestEnds DEF BuilderInv, Done, Near
  <2>4. d * (2 * a - n) <= d * (2 * sum) /\ d * (2 * sum) <= d * (2 * a + n)
    BY <2>2, <2>3
  <2>5. 2 * a - n <= 2 * sum /\ 2 * sum <= 2 * a + n
    BY <2>2, <2>4, Multiples
  <2> QED
    BY <2>1, <2>2, <2>5 DEF Distance
<1>2. BuilderInv => PrincipalNearAmount
  BY <1>1 DEF PrincipalNearAmount, Scheduled
<1> QED
  BY <1>2, BuilderAlways, PTL

\* A borrower pays the monthly payment every month, to the cent.
THEOREM ScheduleLevel == BuilderSpec => []LevelInstallments
<1>1. BuilderInv => LevelInstallments
  BY DEF BuilderInv
<1> QED
  BY <1>1, BuilderAlways, PTL

\* From month to month interest never rises and principal never falls.
THEOREM ScheduleInterestFalls == BuilderSpec => []InterestFalls
<1>1. BuilderInv => InterestFalls
  BY DEF BuilderInv
<1> QED
  BY <1>1, BuilderAlways, PTL

\* Installments fall due one after the other, the first after the disbursement; a
\* month has two of them at most, and of two months one has one at least: whatever
\* day a loan starts on, and over any number of years.
THEOREM ScheduleInOrder == BuilderSpec => []DueInOrder
<1> DEFINE dueOn(i) == IF i = 0 THEN [month |-> terms.month, day |-> terms.day]
                               ELSE schedules[i].due
<1>1. ASSUME BuilderInv, NEW i \in DOMAIN schedules
      PROVE  /\ Earlier(dueOn(i - 1), dueOn(i))
             /\ dueOn(i).month - dueOn(i - 1).month \in 0..2
             /\ i > 1 => dueOn(i - 2).month < dueOn(i).month
  <2>1. /\ i \in Nat \ {0} /\ terms \in Terms
        /\ i # 1 => i - 1 \in DOMAIN schedules /\ i - 1 # 0
        /\ i > 2 => i - 2 \in DOMAIN schedules /\ i - 2 # 0
    BY <1>1, LenProperties DEF BuilderInv
  <2>2. /\ \A j \in DOMAIN schedules : schedules[j].due = DueDate(terms, j)
        /\ DueDate(terms, 0) = [month |-> terms.month, day |-> terms.day]
    BY <1>1, <2>1, DueDateIs DEF BuilderInv
  <2>3. dueOn(i) = DueDate(terms, i)
    BY <1>1, <2>1, <2>2
  <2>4. dueOn(i - 1) = DueDate(terms, i - 1)
    BY <2>1, <2>2
  <2>5. i > 1 => dueOn(i - 2) = DueDate(terms, i - 2)
    BY <2>1, <2>2
  <2>6. /\ Earlier(DueDate(terms, i - 1), DueDate(terms, i))
        /\ DueDate(terms, i).month - DueDate(terms, i - 1).month \in 0..2
        /\ i > 1 => DueDate(terms, i - 2).month < DueDate(terms, i).month
    BY <2>1, DatesApart
  <2> QED
    BY <2>3, <2>4, <2>5, <2>6
<1>2. BuilderInv => DueInOrder
  BY <1>1 DEF DueInOrder
<1> QED
  BY <1>2, BuilderAlways, PTL

-----------------------------------------------------------------------------
(***************************************************************************)
(* The loop of processPayment.                                             *)
(***************************************************************************)
\* What the waterfall allocates to each part is a natural.
LEMMA AllocateType ==
  ASSUME NEW a \in Nat, NEW i \in Nat, NEW f \in Nat, NEW p \in Nat,
         NEW e \in Int
  PROVE  Allocate(a, i, f, p, e) \in Share3
BY DEF Allocate, Lesser, Greater, Share3

\* Each share of a turn lies between zero and what is left of its part, and
\* the last turn takes all the interest that is left.
LEMMA ShareBounds ==
  ASSUME NEW a \in Share3, NEW s \in Share3, NEW d \in Nat,
         NEW last \in BOOLEAN, NEW x \in Installment, x.before <= x.p,
         s.interest <= a.interest, s.fees <= a.fees,
         s.principal <= a.principal
  PROVE  LET h == Share(a, s, x.p, d, last, x.fee, x.before) IN
         /\ h \in Share3
         /\ h.interest <= a.interest - s.interest
         /\ h.fees <= a.fees - s.fees
         /\ h.fees <= x.fee
         /\ h.principal <= a.principal - s.principal
         /\ h.principal <= x.p - x.before
         /\ last => h.interest = a.interest - s.interest
         /\ h.principal < x.p - x.before
              => h.principal = a.principal - s.principal
<1> DEFINE i == InterestShare(a, s, x.p, d, last)
           f == FeeShare(a, s, x.fee)
           p == PrincipalShare(a, s, x.p, x.before)
<1>1. /\ i \in Nat /\ i <= a.interest - s.interest
      /\ last => i = a.interest - s.interest
  <2>1. a.interest \in Nat /\ s.interest \in Nat /\ x.p \in Nat
    BY DEF Share3, Installment
  <2>2. a.interest * x.p \in Nat
    BY <2>1, Products
  <2> DEFINE share == (a.interest * x.p) \div d
  <2>3. d # 0 => share \in Nat
    BY <2>2, Quotients
  <2>4. i = LET left == a.interest - s.interest IN
            IF left <= 0 THEN 0
            ELSE IF last \/ x.p = 0 \/ d = 0 THEN left ELSE Lesser(left, share)
    BY DEF InterestShare, share
  <2> HIDE DEF share
  <2> QED
    BY <2>1, <2>3, <2>4 DEF Lesser
<1>2. f \in Nat /\ f <= a.fees - s.fees /\ f <= x.fee
  BY DEF FeeShare, Lesser, Share3, Installment
<1>3. /\ p \in Nat /\ p <= a.principal - s.principal /\ p <= x.p - x.before
      /\ p < x.p - x.before => p = a.principal - s.principal
  BY DEF PrincipalShare, Lesser, Share3, Installment
<1>4. Share(a, s, x.p, d, last, x.fee, x.before)
        = [interest |-> i, fees |-> f, principal |-> p]
  BY DEF Share
<1> HIDE DEF i, f, p
<1> QED
  BY <1>1, <1>2, <1>3, <1>4 DEF Share3

-----------------------------------------------------------------------------
\* Once an installment is left short, no principal remains to give away.
ShortMeansExhausted ==
  \A n \in DOMAIN rows :
    rows[n].principal < due[n].p - due[n].before
      => spread.principal = alloc.principal

LoopInv == /\ LoopTypeOK /\ NeverOverspends /\ WithinInstallment
           /\ InterestAssigned /\ OldestFirst /\ ShortMeansExhausted

\* Before the first turn nothing is given away.
LEMMA LoopInit == DistributionInit => LoopInv
<1> SUFFICES ASSUME DistributionInit PROVE LoopInv
  OBVIOUS
<1>1. PICK amount, interest, fees, principal \in Values, e \in Error :
        /\ alloc = Allocate(amount, interest, fees, principal, e)
        /\ principalDue = principal
  BY DEF DistributionInit
<1>2. alloc \in Share3
  BY <1>1, AllocateType, DistributionAssumption
<1>3. Nothing \in Share3
  BY DEF Nothing, Share3
<1>4. /\ due \in Dues /\ Len(due) \in Nat
      /\ turn = 1 /\ spread = Nothing /\ rows = <<>>
  BY DistributionAssumption DEF DistributionInit
<1>5. LoopTypeOK
  BY <1>1, <1>2, <1>3, <1>4, DistributionAssumption DEF LoopTypeOK
<1>6. NeverOverspends
  BY <1>2, <1>4 DEF NeverOverspends, Nothing, Share3
<1>7. InterestAssigned
  <2> SUFFICES ASSUME turn > Len(due) PROVE due = <<>>
    BY DEF InterestAssigned
  <2>1. due \in Seq(Installment) /\ Len(due) = 0
    BY <1>4, DistributionAssumption
  <2> QED
    BY <2>1
<1> QED
  BY <1>4, <1>5, <1>6, <1>7
     DEF LoopInv, WithinInstallment, OldestFirst, ShortMeansExhausted

\* A turn of the loop keeps its invariant.
LEMMA LoopStep == LoopInv /\ [Turn]_loopVars => LoopInv'
<1> SUFFICES ASSUME LoopInv, [Turn]_loopVars PROVE LoopInv'
  OBVIOUS
<1> USE DEF LoopInv
<1>1. CASE Turn
  <2> DEFINE x == due[turn]
             h == Share(alloc, spread, x.p, principalDue, turn = Len(due),
                        x.fee, x.before)
  <2>1. /\ due \in Seq(Installment) /\ turn \in DOMAIN due
        /\ x \in Installment /\ x.before <= x.p
    BY <1>1, DistributionAssumption DEF Turn, LoopTypeOK
  <2>2. /\ h \in Share3
        /\ h.interest <= alloc.interest - spread.interest
        /\ h.fees <= alloc.fees - spread.fees
        /\ h.fees <= x.fee
        /\ h.principal <= alloc.principal - spread.principal
        /\ h.principal <= x.p - x.before
        /\ turn = Len(due) => h.interest = alloc.interest - spread.interest
        /\ h.principal < x.p - x.before
             => h.principal = alloc.principal - spread.principal
    BY <2>1, ShareBounds DEF LoopTypeOK, NeverOverspends
  <2>3. /\ spread' = Plus(spread, h) /\ rows' = Append(rows, h)
        /\ turn' = turn + 1 /\ UNCHANGED <<alloc, principalDue, due>>
    BY <1>1 DEF Turn
  <2> HIDE DEF h
  <2>n. /\ {alloc.interest, alloc.fees, alloc.principal} \subseteq Nat
        /\ {spread.interest, spread.fees, spread.principal} \subseteq Nat
        /\ {h.interest, h.fees, h.principal} \subseteq Nat
    BY <2>2 DEF Share3, LoopTypeOK
  <2>t. turn \in Nat /\ Len(due) \in Nat /\ turn <= Len(due)
    BY <2>1
  <2>4. /\ spread' \in Share3
        /\ spread'.interest = spread.interest + h.interest
        /\ spread'.fees = spread.fees + h.fees
        /\ spread'.principal = spread.principal + h.principal
    <3>1. spread' = [interest |-> spread.interest + h.interest,
                     fees |-> spread.fees + h.fees,
                     principal |-> spread.principal + h.principal]
      BY <2>3 DEF Plus
    <3> QED
      BY <2>n, <3>1 DEF Share3
  <2>5. /\ rows' \in Seq(Share3) /\ Len(rows') = turn
        /\ DOMAIN rows' = DOMAIN rows \cup {turn}
        /\ \A n \in DOMAIN rows : rows'[n] = rows[n] /\ n < turn
        /\ rows'[turn] = h
    BY <2>1, <2>2, <2>3 DEF LoopTypeOK
  <2>6. LoopTypeOK'
    BY <2>1, <2>3, <2>4, <2>5 DEF LoopTypeOK
  <2>7. NeverOverspends'
    <3>1. alloc' = alloc
      BY <2>3
    <3>2. spread'.interest <= alloc.interest
      BY <2>n, <2>2, <2>4
    <3>3. spread'.fees <= alloc.fees
      BY <2>n, <2>2, <2>4
    <3>4. spread'.principal <= alloc.principal
      BY <2>n, <2>2, <2>4
    <3> QED
      BY <3>1, <3>2, <3>3, <3>4 DEF NeverOverspends
  <2>8. WithinInstallment'
    BY <2>2, <2>3, <2>5 DEF WithinInstallment
  <2>9. InterestAssigned'
    <3>1. turn' > Len(due') => turn = Len(due)
      BY <2>3, <2>t
    <3>2. turn = Len(due) => h.interest = alloc.interest - spread.interest
      BY <2>2
    <3>3. turn = Len(due) => spread'.interest = alloc.interest
      BY <2>4, <2>n, <3>2
    <3> QED
      BY <2>3, <3>1, <3>3 DEF InterestAssigned
  <2>10. ShortMeansExhausted'
    <3> SUFFICES ASSUME NEW n \in DOMAIN rows',
                        rows'[n].principal < due[n].p - due[n].before
                 PROVE  spread'.principal = alloc.principal
      BY <2>3 DEF ShortMeansExhausted
    <3>1. CASE n = turn
      <4>1. h.principal = alloc.principal - spread.principal
        BY <2>2, <2>5, <3>1
      <4> QED
        BY <2>4, <2>n, <4>1
    <3>2. CASE n \in DOMAIN rows
      <4>1. spread.principal = alloc.principal
        BY <2>5, <3>2 DEF ShortMeansExhausted
      <4> QED
        BY <4>1, <2>2, <2>4, <2>n
    <3> QED
      BY <2>5, <3>1, <3>2
  <2>11. OldestFirst'
    <3> SUFFICES ASSUME NEW m \in DOMAIN rows', NEW n \in DOMAIN rows',
                        m < n, rows'[n].principal > 0
                 PROVE  rows'[m].principal = due[m].p - due[m].before
      BY <2>3 DEF OldestFirst
    <3>1. m \in DOMAIN rows
      <4>1. n <= turn /\ m \in Nat /\ n \in Nat
        BY <2>5, <2>t DEF LoopTypeOK
      <4> QED
        BY <2>5, <2>t, <4>1
    <3>2. CASE n = turn
      <4>1. spread.principal # alloc.principal
        BY <2>2, <2>5, <2>n, <3>2
      <4>2. ~(rows[m].principal < due[m].p - due[m].before)
        BY <3>1, <4>1 DEF ShortMeansExhausted
      <4>3. rows[m].principal <= due[m].p - due[m].before
        BY <3>1 DEF WithinInstallment
      <4>4. /\ m \in DOMAIN due /\ rows[m].principal \in Nat
            /\ due[m].p \in Nat /\ due[m].before \in Nat
        <5>1. m \in DOMAIN due
          BY <2>1, <2>5, <2>t, <3>1 DEF LoopTypeOK
        <5>2. due[m] \in Installment /\ rows[m] \in Share3
          BY <2>1, <3>1, <5>1 DEF LoopTypeOK
        <5> QED
          BY <5>1, <5>2 DEF Share3, Installment
      <4> QED
        BY <2>5, <3>1, <4>2, <4>3, <4>4
    <3>3. CASE n \in DOMAIN rows
      BY <2>5, <3>1, <3>3 DEF OldestFirst
    <3> QED
      BY <2>5, <3>2, <3>3
  <2> QED
    BY <2>6, <2>7, <2>8, <2>9, <2>10, <2>11
<1>2. CASE UNCHANGED loopVars
  BY <1>2 DEF loopVars, LoopTypeOK, NeverOverspends, WithinInstallment,
              InterestAssigned, OldestFirst, ShortMeansExhausted
<1> QED
  BY <1>1, <1>2

\* The state of the loop has its type (processPayment, for every payment and
\* every list of due installments).
THEOREM LoopTypes == DistributionSpec => []LoopTypeOK
BY LoopInit, LoopStep, PTL DEF DistributionSpec, LoopInv

\* The loop never gives away more interest, fees or principal than is paid.
THEOREM LoopWithinPayment == DistributionSpec => []NeverOverspends
BY LoopInit, LoopStep, PTL DEF DistributionSpec, LoopInv

\* Nor more to an installment than it owes.
THEOREM LoopWithinInstallment == DistributionSpec => []WithinInstallment
BY LoopInit, LoopStep, PTL DEF DistributionSpec, LoopInv

\* All interest paid ends up on an installment when one is due.
THEOREM LoopAssignsInterest == DistributionSpec => []InterestAssigned
BY LoopInit, LoopStep, PTL DEF DistributionSpec, LoopInv

\* Principal goes to the oldest installment that is not covered.
THEOREM LoopOldestFirst == DistributionSpec => []OldestFirst
BY LoopInit, LoopStep, PTL DEF DistributionSpec, LoopInv
=============================================================================
