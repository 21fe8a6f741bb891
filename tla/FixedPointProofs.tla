-------------------------- MODULE FixedPointProofs --------------------------
(***************************************************************************)
(* Facts about the fixed-point operators and the products and quotients    *)
(* they are made of, sums over finite sets, and powers, cited by the       *)
(* proofs of the modules that use them.                                    *)
(***************************************************************************)
EXTENDS FixedPoint, FiniteSetTheorems, WellFoundedInduction, TLAPS

\* A product distributes over a sum of natural numbers.
LEMMA ProductOfSum ==
    ASSUME NEW r \in Nat, NEW x \in Nat, NEW y \in Nat
    PROVE  r * (x + y) = r * x + r * y
OBVIOUS

\* A product of natural numbers is a natural number.
LEMMA ProductNat ==
    ASSUME NEW r \in Nat, NEW x \in Nat
    PROVE  r * x \in Nat
OBVIOUS

\* A product grows with its factor.
LEMMA ProductMono ==
    ASSUME NEW r \in Nat, NEW x \in Nat, NEW y \in Nat, x <= y
    PROVE  r * x <= r * y
<1>1. PICK d \in Nat : y = x + d
    <2>1. y - x \in Nat /\ y = x + (y - x)  OBVIOUS
    <2>. QED  BY <2>1
<1>2. r * y = r * x + r * d  BY <1>1, ProductOfSum
<1>. QED  BY <1>2, ProductNat

\* Integer division rounds down, by less than the divisor.
LEMMA Quotient ==
    ASSUME NEW a \in Nat, NEW n \in Nat, n > 0
    PROVE  /\ a \div n \in Nat
           /\ (a \div n) * n <= a
           /\ a < (a \div n) * n + n
BY SMT

\* The operators return natural numbers: MulDown, for any operands ...
LEMMA MulDownNat ==
    ASSUME NEW a \in Nat, NEW b \in Nat
    PROVE  MulDown(a, b) \in Nat
BY ONEAssumption, ProductNat, Quotient DEF MulDown

\* ... and DivDown for a divisor other than zero.
LEMMA DivDownNat ==
    ASSUME NEW a \in Nat, NEW b \in Nat, b > 0
    PROVE  DivDown(a, b) \in Nat
BY ONEAssumption, ProductNat, Quotient DEF DivDown

\* A quotient of natural numbers grows with the dividend.
LEMMA QuotientAtLeast ==
    ASSUME NEW a \in Nat, NEW q \in Nat, NEW n \in Nat, n > 0, q * n <= a
    PROVE  q <= a \div n
<1>. DEFINE d == a \div n
<1>1. d \in Nat /\ a < d * n + n  BY Quotient
<1>. SUFFICES ASSUME d + 1 <= q PROVE FALSE  BY <1>1
<1>. HIDE DEF d
<1>2. n * (d + 1) <= n * q  BY <1>1, ProductMono
<1>3. n * (d + 1) = n * d + n  BY <1>1
<1>4. n * d = d * n /\ n * q = q * n  BY <1>1
<1>5. d * n \in Nat /\ q * n \in Nat  BY <1>1, ProductNat
<1>. QED  BY <1>1, <1>2, <1>3, <1>4, <1>5

\* A quotient of natural numbers is bounded by what the dividend is bounded by.
LEMMA QuotientAtMost ==
    ASSUME NEW a \in Nat, NEW q \in Nat, NEW n \in Nat, n > 0, a <= q * n
    PROVE  a \div n <= q
<1>. DEFINE d == a \div n
<1>1. d \in Nat /\ d * n <= a  BY Quotient
<1>. SUFFICES ASSUME q + 1 <= d PROVE FALSE  BY <1>1
<1>. HIDE DEF d
<1>2. n * (q + 1) <= n * d  BY <1>1, ProductMono
<1>3. n * (q + 1) = n * q + n  OBVIOUS
<1>4. n * d = d * n /\ n * q = q * n  BY <1>1
<1>5. d * n \in Nat /\ q * n \in Nat  BY <1>1, ProductNat
<1>. QED  BY <1>1, <1>2, <1>3, <1>4, <1>5

\* Taking a share of at most one does not increase an amount, taking a share of one
\* or more does not decrease it, ...
LEMMA MulDownBounds ==
    ASSUME NEW a \in Nat, NEW b \in Nat
    PROVE  /\ b <= ONE => MulDown(a, b) <= a
           /\ b >= ONE => MulDown(b, a) >= a
<1>1. ONE \in Nat /\ ONE > 0 /\ a * b \in Nat /\ b * a = a * b
    BY ONEAssumption, ProductNat
<1>2. b <= ONE => a * b <= a * ONE  BY <1>1, ProductMono
<1>3. b >= ONE => a * ONE <= a * b  BY <1>1, ProductMono
<1>. QED  BY <1>1, <1>2, <1>3, QuotientAtMost, QuotientAtLeast DEF MulDown

\* A quotient rounded up covers what is divided.
LEMMA DivUpCovers ==
    ASSUME NEW a \in Nat, NEW b \in Nat, b > 0
    PROVE  DivUp(a, b) \in Nat /\ a * ONE <= DivUp(a, b) * b
<1>. DEFINE p == a * ONE
            q == (p - 1) \div b
<1>1. p \in Nat /\ 0 * b = 0 /\ 0 * ONE = 0  BY ONEAssumption, ProductNat
<1>2. CASE a = 0  BY <1>1, <1>2 DEF DivUp
<1>3. CASE a # 0
    <2>1. p > 0
        <3>1. ONE * 1 <= ONE * a /\ ONE * a = a * ONE  BY <1>3, ONEAssumption, ProductMono
        <3>. QED  BY <3>1, ONEAssumption
    <2>. HIDE DEF p
    <2>2. q \in Nat /\ p - 1 < q * b + b  BY <1>1, <2>1, Quotient
    <2>3. DivUp(a, b) = q + 1  BY <1>3 DEF DivUp, p
    <2>. HIDE DEF q
    <2>4. (q + 1) * b = q * b + b /\ q * b \in Nat
        <3>1. b * (q + 1) = b * q + b * 1  BY <2>2, ProductOfSum
        <3>. QED  BY <2>2, <3>1, ProductNat
    <2>5. p <= (q + 1) * b  BY <1>1, <2>2, <2>4
    <2>. QED  BY <2>2, <2>3, <2>5 DEF p
<1>. QED  BY <1>2, <1>3

\* ... and dividing by one or more does not increase it.
LEMMA DivDownBound ==
    ASSUME NEW a \in Nat, NEW b \in Nat, b >= ONE
    PROVE  DivDown(a, b) \in Nat /\ DivDown(a, b) <= a
<1>1. ONE \in Nat /\ ONE > 0 /\ b > 0 /\ a * ONE \in Nat
    BY ONEAssumption, ProductNat
<1>2. a * ONE <= a * b  BY <1>1, ProductMono
<1>. QED  BY <1>1, <1>2, Quotient, QuotientAtMost DEF DivDown

\* What an amount is worth grows with the amount.
LEMMA MulDownMono ==
    ASSUME NEW p \in Nat, NEW a \in Nat, NEW b \in Nat, a <= b
    PROVE  MulDown(p, a) \in Nat /\ MulDown(p, b) \in Nat /\ MulDown(p, a) <= MulDown(p, b)
<1>1. ONE \in Nat /\ ONE > 0  BY ONEAssumption
<1>2. p * a \in Nat /\ p * b \in Nat /\ p * a <= p * b  BY ProductNat, ProductMono
<1>. DEFINE m == MulDown(p, a)
<1>3. m \in Nat /\ m * ONE <= p * a  BY <1>1, <1>2, Quotient, MulDownNat DEF MulDown
<1>4. m * ONE \in Nat  BY <1>1, <1>3, ProductNat
<1>. HIDE DEF m
<1>5. m * ONE <= p * b  BY <1>2, <1>3, <1>4
<1>6. m <= MulDown(p, b)  BY <1>1, <1>2, <1>3, <1>5, QuotientAtLeast DEF MulDown
<1>. QED  BY <1>6, MulDownNat DEF m

\* The whole of an amount is the amount.
LEMMA MulDownWhole ==
    ASSUME NEW a \in Nat
    PROVE  MulDown(a, ONE) = a
<1>1. MulDown(a, ONE) \in Nat /\ MulDown(a, ONE) <= a /\ MulDown(a, ONE) >= a
    <2>1. ONE \in Nat /\ ONE <= ONE  BY ONEAssumption
    <2>2. MulDown(a, ONE) <= a  BY <2>1, MulDownBounds
    <2>3. a * ONE \in Nat /\ a * ONE <= a * ONE  BY <2>1, ProductNat
    <2>4. a <= MulDown(a, ONE)  BY <2>1, <2>3, QuotientAtLeast, ONEAssumption DEF MulDown
    <2>. QED  BY <2>1, <2>2, <2>4, MulDownNat
<1>. QED  BY <1>1

\* What is added is worth at least its own rounded value ...
LEMMA ValueAdded ==
    ASSUME NEW r \in Nat, NEW a \in Nat, NEW q \in Nat
    PROVE  MulDown(r + a, q) >= MulDown(r, q) + MulDown(a, q)
<1>. DEFINE x == MulDown(r, q)
            y == MulDown(a, q)
<1>1. ONE \in Nat /\ ONE > 0  BY ONEAssumption
<1>2. /\ r * q \in Nat /\ a * q \in Nat /\ (r + a) * q \in Nat
      /\ (r + a) * q = r * q + a * q
    BY ProductNat
<1>3. /\ x \in Nat /\ x * ONE <= r * q
      /\ y \in Nat /\ y * ONE <= a * q
    BY <1>1, <1>2, Quotient DEF MulDown
<1>4. (x + y) * ONE <= (r + a) * q
    <2>. HIDE DEF x, y
    <2>1. (x + y) * ONE = x * ONE + y * ONE  BY <1>1, <1>3
    <2>2. x * ONE \in Nat /\ y * ONE \in Nat  BY <1>1, <1>3, ProductNat
    <2>. QED  BY <1>2, <1>3, <2>1, <2>2
<1>5. x + y <= ((r + a) * q) \div ONE
    <2>1. x + y \in Nat  BY <1>3
    <2>. HIDE DEF x, y
    <2>. QED  BY <1>1, <1>2, <1>4, <2>1, QuotientAtLeast
<1>. QED  BY <1>5 DEF MulDown

\* ... and what is taken away, at a price of at most one, at most its amount.
LEMMA ValueTaken ==
    ASSUME NEW r \in Nat, NEW t \in Nat, t <= r, NEW q \in Nat, q <= ONE
    PROVE  MulDown(r - t, q) + t >= MulDown(r, q)
<1>. DEFINE x == MulDown(r, q)
            y == MulDown(r - t, q)
<1>1. ONE \in Nat /\ ONE > 0 /\ r - t \in Nat  BY ONEAssumption
<1>2. /\ r * q \in Nat /\ t * q \in Nat /\ (r - t) * q \in Nat
      /\ (r - t) * q = r * q - t * q
    BY <1>1, ProductNat
<1>3. y \in Nat /\ (r - t) * q < y * ONE + ONE  BY <1>1, <1>2, Quotient DEF MulDown
<1>4. t * q <= t * ONE  BY <1>1, ProductMono
<1>5. x \in Nat /\ x * ONE <= r * q  BY <1>1, <1>2, Quotient DEF MulDown
<1>. HIDE DEF x, y
<1>. SUFFICES ASSUME y + t + 1 <= x PROVE FALSE  BY <1>1, <1>3, <1>5 DEF x, y
<1>6. ONE * (y + t + 1) <= ONE * x  BY <1>1, <1>3, <1>5, ProductMono
<1>7. ONE * (y + t + 1) = y * ONE + t * ONE + ONE /\ ONE * x = x * ONE  BY <1>1, <1>3, <1>5
<1>8. y * ONE \in Nat /\ t * ONE \in Nat /\ x * ONE \in Nat  BY <1>1, <1>3, <1>5, ProductNat
<1>. QED  BY <1>1, <1>2, <1>3, <1>4, <1>5, <1>6, <1>7, <1>8

\* A common factor above zero can be dropped from both sides.
LEMMA CancelFactor ==
    ASSUME NEW x \in Nat, NEW y \in Nat, NEW n \in Nat, n > 0, x * n <= y * n
    PROVE  x <= y
<1>. SUFFICES ASSUME y + 1 <= x PROVE FALSE  OBVIOUS
<1>1. n * (y + 1) <= n * x  BY ProductMono
<1>2. n * (y + 1) = y * n + n /\ n * x = x * n  OBVIOUS
<1>3. y * n \in Nat /\ x * n \in Nat  BY ProductNat
<1>. QED  BY <1>1, <1>2, <1>3

\* If a share x of y is worth no more than a share v of w, in products, then so it is
\* through a price r between the two.
LEMMA ThroughPrice ==
    ASSUME NEW x \in Nat, NEW y \in Nat, NEW v \in Nat, NEW w \in Nat,
           NEW r \in Nat, NEW n \in Nat, n > 0,
           x * n <= v * r, r * y <= w * n
    PROVE  x * y <= v * w
<1>1. /\ x * n \in Nat /\ v * r \in Nat /\ r * y \in Nat /\ w * n \in Nat
      /\ x * y \in Nat /\ v * w \in Nat
    BY ProductNat
<1>2. y * (x * n) <= y * (v * r)  BY <1>1, ProductMono
<1>3. v * (r * y) <= v * (w * n)  BY <1>1, ProductMono
<1>4. y * (x * n) = (x * y) * n /\ v * (w * n) = (v * w) * n /\ y * (v * r) = v * (r * y)
    OBVIOUS
<1>5. y * (x * n) \in Nat /\ v * (r * y) \in Nat /\ v * (w * n) \in Nat  BY <1>1, ProductNat
<1>6. (x * y) * n <= (v * w) * n  BY <1>2, <1>3, <1>4, <1>5
<1>. QED  BY <1>1, <1>6, CancelFactor

-----------------------------------------------------------------------------
(* What a claim on a pool is worth, rounded down, after what changes it      *)

\* Whole units are compared without the remainders.
LEMMA WholeUnits ==
    ASSUME NEW d \in Nat, NEW e \in Nat, NEW n \in Nat, d * n < e * n + n
    PROVE  d <= e
<1>. SUFFICES ASSUME e + 1 <= d PROVE FALSE  OBVIOUS
<1>1. n * (e + 1) <= n * d  BY ProductMono
<1>2. n * (e + 1) = e * n + n /\ n * d = d * n  OBVIOUS
<1>3. e * n \in Nat /\ d * n \in Nat  BY ProductNat
<1>. QED  BY <1>1, <1>2, <1>3

\* A product and its value, rounded down.
LEMMA MulDownFloor ==
    ASSUME NEW x \in Nat, NEW f \in Nat
    PROVE  /\ MulDown(x, f) \in Nat /\ x * f \in Nat /\ MulDown(x, f) * ONE \in Nat
           /\ MulDown(x, f) * ONE <= x * f
           /\ x * f < MulDown(x, f) * ONE + ONE
<1>. DEFINE p == x * f
<1>1. p \in Nat /\ ONE \in Nat /\ ONE > 0  BY ONEAssumption, ProductNat
<1>2. MulDown(x, f) = p \div ONE  BY DEF MulDown
<1>. HIDE DEF p
<1>3. p \div ONE \in Nat /\ (p \div ONE) * ONE <= p /\ p < (p \div ONE) * ONE + ONE
    BY <1>1, Quotient
<1>4. MulDown(x, f) * ONE \in Nat  BY <1>1, <1>2, <1>3, ProductNat
<1>. QED  BY <1>1, <1>2, <1>3, <1>4 DEF p

\* Paying in is worth what is paid in, or one unit less.
LEMMA PaidInWorth ==
    ASSUME NEW x \in Nat, NEW f \in Nat, f > 0, f <= ONE, NEW amount \in Nat
    PROVE  LET c == MulDown(x, f)
               d == MulDown(x + DivDown(amount, f), f)
           IN  /\ d \in {c + amount, c + amount - 1}
               /\ c <= d
<1>. DEFINE c == MulDown(x, f)
            a == DivDown(amount, f)
            d == MulDown(x + a, f)
<1>1. ONE \in Nat /\ ONE > 0 /\ amount * ONE \in Nat  BY ONEAssumption, ProductNat
<1>2. a \in Nat /\ a * f <= amount * ONE /\ amount * ONE < a * f + f
    BY <1>1, Quotient DEF DivDown
<1>3. c \in Nat /\ x * f \in Nat /\ c * ONE \in Nat /\ c * ONE <= x * f /\ x * f < c * ONE + ONE
    BY MulDownFloor
<1>. HIDE DEF c, a
<1>4. /\ d \in Nat /\ d * ONE \in Nat
      /\ d * ONE <= (x + a) * f /\ (x + a) * f < d * ONE + ONE
    <2>1. x + a \in Nat  BY <1>2
    <2>. QED  BY <2>1, MulDownFloor
<1>. HIDE DEF d
<1>5. (x + a) * f = x * f + a * f /\ a * f \in Nat  BY <1>2, ProductNat
<1>6. (c + amount) * ONE = c * ONE + amount * ONE /\ (d + 1) * ONE = d * ONE + ONE
    BY <1>1, <1>3, <1>4
<1>7. d <= c + amount
    <2>1. d * ONE < (c + amount) * ONE + ONE  BY <1>1, <1>2, <1>3, <1>4, <1>5, <1>6
    <2>. QED  BY <1>1, <1>3, <1>4, <2>1, WholeUnits
<1>8. c + amount <= d + 1
    <2>1. (c + amount) * ONE < (d + 1) * ONE + ONE
        BY <1>1, <1>2, <1>3, <1>4, <1>5, <1>6
    <2>. QED  BY <1>1, <1>3, <1>4, <2>1, WholeUnits
<1>9. c <= d
    <2>1. c * ONE < d * ONE + ONE  BY <1>1, <1>3, <1>4, <1>5
    <2>. QED  BY <1>1, <1>3, <1>4, <2>1, WholeUnits
<1>10. d \in {c + amount, c + amount - 1}  BY <1>3, <1>4, <1>7, <1>8
<1>. QED  BY <1>9, <1>10 DEF c, a, d

\* Paying out the worth of a part leaves the claim less by that, or by one unit more.
LEMMA PaidOutWorth ==
    ASSUME NEW x \in Nat, NEW f \in Nat, NEW a \in Nat, a <= x
    PROVE  LET c == MulDown(x, f)
               m == MulDown(a, f)
               d == MulDown(x - a, f)
           IN  /\ m <= c
               /\ d \in {c - m, c - m - 1}
               /\ d >= 0
<1>. DEFINE c == MulDown(x, f)
            m == MulDown(a, f)
            d == MulDown(x - a, f)
<1>1. ONE \in Nat /\ ONE > 0 /\ x - a \in Nat  BY ONEAssumption
<1>2. c \in Nat /\ c * ONE \in Nat /\ c * ONE <= x * f /\ x * f < c * ONE + ONE
    BY MulDownFloor
<1>3. m \in Nat /\ m * ONE \in Nat /\ m * ONE <= a * f /\ a * f < m * ONE + ONE
    BY MulDownFloor
<1>4. /\ d \in Nat /\ d * ONE \in Nat /\ d * ONE <= (x - a) * f
      /\ (x - a) * f < d * ONE + ONE
    BY <1>1, MulDownFloor
<1>. HIDE DEF c, m, d
<1>5. x * f = (x - a) * f + a * f /\ x * f \in Nat /\ (x - a) * f \in Nat /\ a * f \in Nat
    <2>1. PICK r \in Nat : x - a = r /\ x = r + a  BY <1>1
    <2>2. (r + a) * f = r * f + a * f  OBVIOUS
    <2>. QED  BY <2>1, <2>2, ProductNat
<1>6. (d + m) * ONE = d * ONE + m * ONE /\ (d + m + 1) * ONE = d * ONE + m * ONE + ONE
    BY <1>1, <1>3, <1>4
<1>7. d + m <= c
    <2>1. (d + m) * ONE < c * ONE + ONE  BY <1>1, <1>2, <1>3, <1>4, <1>5, <1>6
    <2>. QED  BY <1>1, <1>2, <1>3, <1>4, <2>1, WholeUnits
<1>8. c <= d + m + 1
    <2>1. c * ONE < (d + m + 1) * ONE + ONE  BY <1>1, <1>2, <1>3, <1>4, <1>5, <1>6
    <2>. QED  BY <1>1, <1>2, <1>3, <1>4, <2>1, WholeUnits
<1>9. m <= c /\ d \in {c - m, c - m - 1} /\ d >= 0  BY <1>2, <1>3, <1>4, <1>7, <1>8
<1>. QED  BY <1>9 DEF c, m, d

\* When left remains of a pool and the factor f is lowered with it, every claim is
\* worth at most its share of what is left.
LEMMA BurntWorth ==
    ASSUME NEW x \in Nat, NEW f \in Nat, NEW pool \in Nat, pool > 0,
           NEW left \in Nat, left <= pool
    PROVE  LET q == DivDown(MulDown(f, left), pool)
           IN  /\ MulDown(x, q) * pool <= (MulDown(x, f) + 1) * left
               /\ MulDown(x, q) <= MulDown(x, f)
<1>. DEFINE m == MulDown(f, left)
            q == DivDown(m, pool)
            c == MulDown(x, f)
            d == MulDown(x, q)
<1>1. ONE \in Nat /\ ONE > 0  BY ONEAssumption
<1>2. m \in Nat /\ f * left \in Nat /\ m * ONE \in Nat /\ m * ONE <= f * left  BY MulDownFloor
<1>3. c \in Nat /\ x * f \in Nat /\ c * ONE \in Nat /\ x * f < c * ONE + ONE  BY MulDownFloor
<1>. HIDE DEF m, c
<1>4. q \in Nat /\ q * pool \in Nat /\ q * pool <= m * ONE
    BY <1>2, Quotient, ProductNat DEF DivDown
<1>. HIDE DEF q
<1>5. d \in Nat /\ x * q \in Nat /\ d * ONE \in Nat /\ d * ONE <= x * q  BY <1>4, MulDownFloor
<1>. HIDE DEF d
<1>6. d * pool <= x * m  BY <1>1, <1>2, <1>4, <1>5, ThroughPrice
<1>7. m * x <= left * (c + 1)
    <2>1. f * x <= (c + 1) * ONE
        <3>1. (c + 1) * ONE = c * ONE + ONE /\ f * x = x * f  BY <1>1, <1>3
        <3>. QED  BY <1>1, <1>3, <3>1
    <2>2. m * ONE <= left * f
        <3>1. left * f = f * left  OBVIOUS
        <3>. QED  BY <1>2, <3>1
    <2>. QED  BY <1>1, <1>2, <1>3, <2>1, <2>2, ThroughPrice
<1>8. d * pool <= (c + 1) * left
    <2>1. /\ x * m = m * x /\ left * (c + 1) = (c + 1) * left
          /\ x * m \in Nat /\ d * pool \in Nat /\ (c + 1) * left \in Nat
        BY <1>2, <1>3, <1>5, ProductNat
    <2>. QED  BY <1>6, <1>7, <2>1
<1>9. q <= f
    <2>1. f * left <= f * pool  BY ProductMono
    <2>2. f * pool \in Nat  BY ProductNat
    <2>3. q * pool <= f * pool  BY <1>2, <1>4, <2>1, <2>2
    <2>. QED  BY <1>4, <2>3, CancelFactor
<1>10. d <= c
    <2>1. x * q <= x * f  BY <1>4, <1>9, ProductMono
    <2>2. d * ONE < c * ONE + ONE  BY <1>1, <1>3, <1>5, <2>1
    <2>. QED  BY <1>1, <1>3, <1>5, <2>2, WholeUnits
<1>. QED  BY <1>8, <1>10 DEF m, q, c, d

-----------------------------------------------------------------------------
(* Induction                                                               *)

\* Induction, for the numbers in a set.
LEMMA SetInduction ==
    ASSUME NEW S, 0 \in S, \A n \in Nat : n \in S => n + 1 \in S
    PROVE  \A n \in Nat : n \in S
<1>. SUFFICES ASSUME NEW k \in Nat, k \notin S PROVE FALSE  OBVIOUS
<1>. DEFINE Less == OpToRel(<, Nat)
            Rest == Nat \ S
<1>1. PICK x \in Rest : \A y \in Rest : ~(<<y, x>> \in Less)
    <2>1. Rest \subseteq Nat /\ Rest # {}  OBVIOUS
    <2>2. IsWellFoundedOn(Less, Nat)  BY NatLessThanWellFounded
    <2>. HIDE DEF Less, Rest
    <2>. QED  BY <2>1, <2>2, WFMin
<1>2. x \in Nat /\ x # 0  OBVIOUS
<1>3. x - 1 \in Nat /\ x - 1 < x /\ x - 1 + 1 = x  BY <1>2
<1>4. x - 1 \in Rest  BY <1>2, <1>3
<1>5. <<x - 1, x>> \in Less  BY <1>2, <1>3 DEF OpToRel
<1>. QED  BY <1>1, <1>4, <1>5

-----------------------------------------------------------------------------
(* Sums over a finite set, as MapThenSumSet of FiniteSetsExt computes them:  *)
(* the sum of the function f over the set S is Total(f, S).                  *)

First(s) == CHOOSE x \in s : TRUE

\* The definition of the sum of f over s, given those over smaller sets.
SumStep(f, sum, s) == IF s = {} THEN 0 ELSE f[First(s)] + sum[s \ {First(s)}]

\* The sums of f over the subsets of a set.
SumTable(f, S, sum) == sum = [s \in SUBSET S |-> SumStep(f, sum, s)]

Total(f, S) == (CHOOSE sum : SumTable(f, S, sum))[S]

\* The recursion descends.
LEMMA FirstIn ==
    ASSUME NEW s, s # {}
    PROVE  First(s) \in s
BY DEF First

LEMMA SmallerSet ==
    ASSUME NEW s, IsFiniteSet(s), NEW x \in s
    PROVE  /\ IsFiniteSet(s \ {x}) /\ Cardinality(s) \in Nat /\ Cardinality(s \ {x}) \in Nat
           /\ Cardinality(s) = Cardinality(s \ {x}) + 1
<1>1. IsFiniteSet(s \ {x}) /\ Cardinality(s \ {x}) = Cardinality(s) - 1
    BY FS_RemoveElement
<1>2. Cardinality(s) \in Nat /\ Cardinality(s \ {x}) \in Nat  BY <1>1, FS_CardinalityType
<1>. QED  BY <1>1, <1>2

\* The subsets of S with up to n elements, and the sums over them.
SmallSubsets(S, n) == {s \in SUBSET S : Cardinality(s) <= n}

SumsUpto(f, S, n) ==
    {sum \in [SmallSubsets(S, n) -> Nat] :
        \A s \in SmallSubsets(S, n) : sum[s] = SumStep(f, sum, s)}

\* There are sums over sets of every size,
LEMMA SumsExist ==
    ASSUME NEW S, IsFiniteSet(S), NEW f, \A x \in S : f[x] \in Nat
    PROVE  \A n \in Nat : SumsUpto(f, S, n) # {}
<1>. DEFINE Good == {n \in Nat : SumsUpto(f, S, n) # {}}
<1>a. \A s \in SUBSET S : IsFiniteSet(s) /\ Cardinality(s) \in Nat
    BY FS_Subset, FS_CardinalityType
<1>1. 0 \in Good
    <2>1. SmallSubsets(S, 0) = {{}}
        <3>1. \A s \in SmallSubsets(S, 0) : s = {}  BY <1>a, FS_EmptySet DEF SmallSubsets
        <3>2. {} \in SmallSubsets(S, 0)  BY FS_EmptySet DEF SmallSubsets
        <3>. QED  BY <3>1, <3>2
    <2>. DEFINE sum == [s \in {{}} |-> 0]
    <2>2. sum \in [{{}} -> Nat] /\ \A s \in {{}} : sum[s] = SumStep(f, sum, s)
        BY DEF SumStep
    <2>. HIDE DEF sum
    <2>. QED  BY <2>1, <2>2 DEF SumsUpto
<1>2. ASSUME NEW n \in Nat, n \in Good
      PROVE  n + 1 \in Good
    <2>1. PICK sum \in [SmallSubsets(S, n) -> Nat] :
            \A s \in SmallSubsets(S, n) : sum[s] = SumStep(f, sum, s)
        BY <1>2 DEF SumsUpto
    <2>. DEFINE more == [s \in SmallSubsets(S, n + 1) |->
                            IF s \in SmallSubsets(S, n) THEN sum[s] ELSE SumStep(f, sum, s)]
    <2>2. ASSUME NEW s \in SmallSubsets(S, n + 1), s # {}
          PROVE  First(s) \in S /\ s \ {First(s)} \in SmallSubsets(S, n)
        <3>1. First(s) \in s /\ s \in SUBSET S  BY <2>2, FirstIn DEF SmallSubsets
        <3>2. Cardinality(s) <= n + 1 BY DEF SmallSubsets
        <3>3. IsFiniteSet(s)  BY <1>a, <3>1
        <3>4. /\ Cardinality(s) \in Nat /\ Cardinality(s \ {First(s)}) \in Nat
              /\ Cardinality(s) = Cardinality(s \ {First(s)}) + 1
            BY <3>1, <3>3, SmallerSet
        <3>5. Cardinality(s \ {First(s)}) <= n  BY <3>2, <3>4
        <3>. QED  BY <3>1, <3>5 DEF SmallSubsets
    <2>3. more \in [SmallSubsets(S, n + 1) -> Nat]
        <3>1. \A s \in SmallSubsets(S, n + 1) : SumStep(f, sum, s) \in Nat
            BY <2>1, <2>2 DEF SumStep
        <3>. QED  BY <3>1
    <2>4. ASSUME NEW s \in SmallSubsets(S, n + 1)
          PROVE  more[s] = SumStep(f, more, s)
        <3>1. s # {} => sum[s \ {First(s)}] = more[s \ {First(s)}]
            <4>1. \A t \in SmallSubsets(S, n) : t \in SmallSubsets(S, n + 1)
                BY <1>a DEF SmallSubsets
            <4>. QED  BY <2>2, <4>1
        <3>2. SumStep(f, sum, s) = SumStep(f, more, s)  BY <3>1 DEF SumStep
        <3>3. more[s] = SumStep(f, sum, s)  BY <2>1
        <3>. QED  BY <3>2, <3>3
    <2>. HIDE DEF more
    <2>. QED  BY <2>3, <2>4 DEF SumsUpto
<1>. HIDE DEF Good
<1>3. \A n \in Nat : n \in Good  BY <1>1, <1>2, SetInduction
<1>. QED  BY <1>3 DEF Good

\* so there is a table of the sums over all subsets,
LEMMA SumTableExists ==
    ASSUME NEW S, IsFiniteSet(S), NEW f, \A x \in S : f[x] \in Nat
    PROVE  \E sum \in [SUBSET S -> Nat] : SumTable(f, S, sum)
<1>1. Cardinality(S) \in Nat /\ SmallSubsets(S, Cardinality(S)) = SUBSET S
    BY FS_CardinalityType, FS_Subset DEF SmallSubsets
<1>2. PICK sum : sum \in SumsUpto(f, S, Cardinality(S))  BY <1>1, SumsExist
<1>3. sum \in [SUBSET S -> Nat] /\ \A s \in SUBSET S : sum[s] = SumStep(f, sum, s)
    BY <1>1, <1>2 DEF SumsUpto
<1>4. sum = [s \in SUBSET S |-> SumStep(f, sum, s)]  BY <1>3
<1>. QED  BY <1>3, <1>4 DEF SumTable

\* two of them agree on a set on which their functions do,
LEMMA SumTablesAgree ==
    ASSUME NEW S, NEW T, NEW f, NEW g, NEW sum, NEW tot,
           SumTable(f, S, sum), SumTable(g, T, tot),
           NEW s, s \subseteq S, s \subseteq T, IsFiniteSet(s),
           \A x \in s : f[x] = g[x]
    PROVE  sum[s] = tot[s]
<1>. DEFINE Good == {n \in Nat : \A t \in SUBSET s : Cardinality(t) <= n => sum[t] = tot[t]}
<1>a. \A t \in SUBSET s : IsFiniteSet(t) /\ Cardinality(t) \in Nat
    BY FS_Subset, FS_CardinalityType
<1>b. \A t \in SUBSET s : sum[t] = SumStep(f, sum, t) /\ tot[t] = SumStep(g, tot, t)
    BY DEF SumTable
<1>1. 0 \in Good
    <2>1. sum[{}] = tot[{}]  BY <1>b DEF SumStep
    <2>. QED  BY <1>a, <2>1, FS_EmptySet
<1>2. ASSUME NEW n \in Nat, n \in Good
      PROVE  n + 1 \in Good
    <2>. SUFFICES ASSUME NEW t \in SUBSET s, Cardinality(t) <= n + 1
                  PROVE  sum[t] = tot[t]
        OBVIOUS
    <2>1. CASE t = {}  BY <1>b, <2>1 DEF SumStep
    <2>2. CASE t # {}
        <3>1. First(t) \in t  BY <2>2, FirstIn
        <3>2. t \ {First(t)} \in SUBSET s /\ Cardinality(t \ {First(t)}) <= n
            <4>1. IsFiniteSet(t)  BY <1>a
            <4>. QED  BY <3>1, <4>1, SmallerSet
        <3>3. sum[t \ {First(t)}] = tot[t \ {First(t)}]  BY <1>2, <3>2
        <3>. QED  BY <1>b, <2>2, <3>1, <3>3 DEF SumStep
    <2>. QED  BY <2>1, <2>2
<1>3. \A n \in Nat : n \in Good
    <2>. HIDE DEF Good
    <2>. QED  BY <1>1, <1>2, SetInduction
<1>. QED  BY <1>3, <1>a

\* and any of them gives the total.
LEMMA TotalOfTable ==
    ASSUME NEW S, NEW T, IsFiniteSet(T), T \subseteq S, NEW f, NEW g, NEW sum,
           SumTable(f, S, sum), \A x \in T : f[x] = g[x] /\ g[x] \in Nat
    PROVE  sum[T] = Total(g, T)
<1>. DEFINE tot == CHOOSE tot : SumTable(g, T, tot)
<1>1. SumTable(g, T, tot)  BY SumTableExists
<1>2. Total(g, T) = tot[T]  BY DEF Total
<1>. HIDE DEF tot
<1>. QED  BY <1>1, <1>2, SumTablesAgree

\* The sum is the one over all but one element, plus that element.
LEMMA TotalStep ==
    ASSUME NEW S, IsFiniteSet(S), NEW f, \A x \in S : f[x] \in Nat
    PROVE  /\ Total(f, S) \in Nat
           /\ Total(f, S) = IF S = {} THEN 0 ELSE f[First(S)] + Total(f, S \ {First(S)})
<1>1. PICK sum \in [SUBSET S -> Nat] : SumTable(f, S, sum)  BY SumTableExists
<1>2. sum[S] = Total(f, S)  BY <1>1, TotalOfTable
<1>3. sum[S] = SumStep(f, sum, S)  BY <1>1 DEF SumTable
<1>4. S # {} => sum[S \ {First(S)}] = Total(f, S \ {First(S)})
    <2>1. IsFiniteSet(S \ {First(S)})  BY FS_RemoveElement
    <2>. QED  BY <1>1, <2>1, TotalOfTable
<1>. QED  BY <1>1, <1>2, <1>3, <1>4 DEF SumStep

\* It depends only on the values on the set,
LEMMA TotalSame ==
    ASSUME NEW S, IsFiniteSet(S), NEW f, NEW g, \A x \in S : f[x] = g[x] /\ g[x] \in Nat
    PROVE  Total(f, S) = Total(g, S)
<1>1. PICK sum \in [SUBSET S -> Nat] : SumTable(f, S, sum)  BY SumTableExists
<1>2. sum[S] = Total(f, S) /\ sum[S] = Total(g, S)  BY <1>1, TotalOfTable
<1>. QED  BY <1>2

\* and not on which element comes first.
LEMMA TotalRemove ==
    ASSUME NEW S, IsFiniteSet(S), NEW f, \A x \in S : f[x] \in Nat, NEW x \in S
    PROVE  Total(f, S) = f[x] + Total(f, S \ {x})
<1>. DEFINE Good == {n \in Nat : \A t \in SUBSET S : Cardinality(t) <= n =>
                        \A y \in t : Total(f, t) = f[y] + Total(f, t \ {y})}
<1>a. \A t \in SUBSET S : IsFiniteSet(t) /\ Cardinality(t) \in Nat
    BY FS_Subset, FS_CardinalityType
<1>b. \A t \in SUBSET S : Total(f, t) \in Nat
    BY <1>a, TotalStep
<1>1. 0 \in Good
    <2>1. \A t \in SUBSET S : Cardinality(t) <= 0 => t = {}  BY <1>a, FS_EmptySet
    <2>. QED  BY <2>1
<1>2. ASSUME NEW n \in Nat, n \in Good
      PROVE  n + 1 \in Good
    <2>. SUFFICES ASSUME NEW t \in SUBSET S, Cardinality(t) <= n + 1, NEW y \in t
                  PROVE  Total(f, t) = f[y] + Total(f, t \ {y})
        OBVIOUS
    <2>. DEFINE c == First(t)
    <2>1. c \in t  BY FirstIn
    <2>2. Total(f, t) = f[c] + Total(f, t \ {c})
        <3>1. IsFiniteSet(t) /\ \A z \in t : f[z] \in Nat  BY <1>a
        <3>. QED  BY <3>1, TotalStep
    <2>. HIDE DEF c
    <2>3. CASE y = c  BY <2>2, <2>3
    <2>4. CASE y # c
        <3>1. /\ t \ {c} \in SUBSET S /\ Cardinality(t \ {c}) <= n
              /\ t \ {y} \in SUBSET S /\ Cardinality(t \ {y}) <= n
            <4>1. IsFiniteSet(t)  BY <1>a
            <4>2. /\ Cardinality(t) \in Nat
                  /\ Cardinality(t \ {c}) \in Nat
                  /\ Cardinality(t) = Cardinality(t \ {c}) + 1
                  /\ Cardinality(t \ {y}) \in Nat
                  /\ Cardinality(t) = Cardinality(t \ {y}) + 1
                BY <2>1, <4>1, SmallerSet
            <4>. QED  BY <4>2
        <3>2. Total(f, t \ {c}) = f[y] + Total(f, (t \ {c}) \ {y})
            BY <1>2, <2>4, <3>1
        <3>3. Total(f, t \ {y}) = f[c] + Total(f, (t \ {y}) \ {c})
            BY <1>2, <2>1, <2>4, <3>1
        <3>4. (t \ {c}) \ {y} = (t \ {y}) \ {c}  OBVIOUS
        <3>5. Total(f, (t \ {c}) \ {y}) \in Nat /\ f[c] \in Nat /\ f[y] \in Nat  BY <1>b, <2>1
        <3>. DEFINE rest == Total(f, (t \ {c}) \ {y})
                    withoutC == Total(f, t \ {c})
                    withoutY == Total(f, t \ {y})
        <3>6. withoutC = f[y] + rest /\ withoutY = f[c] + rest /\ rest \in Nat
            BY <3>2, <3>3, <3>4, <3>5
        <3>7. Total(f, t) = f[c] + withoutC  BY <2>2
        <3>. HIDE DEF rest, withoutC, withoutY
        <3>8. Total(f, t) = f[y] + withoutY  BY <3>5, <3>6, <3>7
        <3>. QED  BY <3>8 DEF withoutY
    <2>. QED  BY <2>3, <2>4
<1>3. Cardinality(S) \in Good
    <2>1. \A n \in Nat : n \in Good
        <3>. HIDE DEF Good
        <3>. QED  BY <1>1, <1>2, SetInduction
    <2>. QED  BY <1>a, <2>1
<1>. QED  BY <1>3, <1>a

LEMMA TotalUpdate ==
    ASSUME NEW S, IsFiniteSet(S), NEW f, NEW g, NEW x \in S,
           \A y \in S : f[y] \in Nat /\ g[y] \in Nat,
           \A y \in S : y # x => g[y] = f[y]
    PROVE  Total(g, S) + f[x] = Total(f, S) + g[x]
<1>1. IsFiniteSet(S \ {x})  BY FS_RemoveElement
<1>2. Total(f, S \ {x}) = Total(g, S \ {x}) /\ Total(f, S \ {x}) \in Nat
    BY <1>1, TotalSame, TotalStep
<1>3. Total(f, S) = f[x] + Total(f, S \ {x}) /\ Total(g, S) = g[x] + Total(g, S \ {x})
    BY TotalRemove
<1>4. f[x] \in Nat /\ g[x] \in Nat  OBVIOUS
<1>. DEFINE rest == Total(f, S \ {x})
<1>5. Total(f, S) = f[x] + rest /\ Total(g, S) = g[x] + rest /\ rest \in Nat  BY <1>2, <1>3
<1>. HIDE DEF rest
<1>. QED  BY <1>4, <1>5

LEMMA TotalOfNothing ==
    ASSUME NEW S, IsFiniteSet(S), NEW f, \A x \in S : f[x] = 0
    PROVE  Total(f, S) = 0
<1>. DEFINE zero == [s \in SUBSET S |-> 0]
<1>1. SumTable(f, S, zero)
    <2>1. \A s \in SUBSET S : SumStep(f, zero, s) = 0
        <3>. SUFFICES ASSUME NEW s \in SUBSET S, s # {}
                      PROVE  f[First(s)] + zero[s \ {First(s)}] = 0
            BY DEF SumStep
        <3>1. First(s) \in S /\ s \ {First(s)} \in SUBSET S  BY FirstIn
        <3>. QED  BY <3>1
    <2>. QED  BY <2>1 DEF SumTable
<1>2. zero[S] = 0  OBVIOUS
<1>3. \A x \in S : f[x] \in Nat  OBVIOUS
<1>. HIDE DEF zero
<1>4. zero[S] = Total(f, S)
    <2>1. PICK sum \in [SUBSET S -> Nat] : SumTable(f, S, sum)  BY <1>3, SumTableExists
    <2>2. sum[S] = Total(f, S)  BY <1>3, <2>1, TotalOfTable
    <2>3. zero[S] = sum[S]  BY <1>1, <2>1, SumTablesAgree
    <2>. QED  BY <2>2, <2>3
<1>. QED  BY <1>2, <1>4

\* What holds of the sums over the subsets of S, given that it holds over no elements
\* and that it is kept when an element is added, holds of the sum over S.
LEMMA SetsBySize ==
    ASSUME NEW S, IsFiniteSet(S), NEW Holds, {} \in Holds,
           \A s \in SUBSET S, x \in S : x \notin s /\ s \in Holds => s \cup {x} \in Holds
    PROVE  S \in Holds
<1>. DEFINE Good == {n \in Nat : \A t \in SUBSET S : Cardinality(t) <= n => t \in Holds}
<1>a. \A t \in SUBSET S : IsFiniteSet(t) /\ Cardinality(t) \in Nat
    BY FS_Subset, FS_CardinalityType
<1>1. 0 \in Good
    <2>1. \A t \in SUBSET S : Cardinality(t) <= 0 => t = {}  BY <1>a, FS_EmptySet
    <2>. QED  BY <2>1
<1>2. ASSUME NEW n \in Nat, n \in Good
      PROVE  n + 1 \in Good
    <2>. SUFFICES ASSUME NEW t \in SUBSET S, Cardinality(t) <= n + 1, t # {}
                  PROVE  t \in Holds
        OBVIOUS
    <2>1. PICK x \in t : TRUE  OBVIOUS
    <2>2. t \ {x} \in SUBSET S /\ Cardinality(t \ {x}) <= n
        <3>1. IsFiniteSet(t)  BY <1>a
        <3>. QED  BY <3>1, SmallerSet
    <2>3. t \ {x} \in Holds  BY <1>2, <2>2
    <2>4. t = (t \ {x}) \cup {x} /\ x \in S /\ x \notin t \ {x}  OBVIOUS
    <2>. QED  BY <2>2, <2>3, <2>4
<1>3. \A n \in Nat : n \in Good
    <2>. HIDE DEF Good
    <2>. QED  BY <1>1, <1>2, SetInduction
<1>4. Cardinality(S) \in Good  BY <1>a, <1>3
<1>. QED  BY <1>a, <1>4

\* A sum is extended by an element.
LEMMA TotalAdd ==
    ASSUME NEW S, IsFiniteSet(S), NEW f, \A x \in S : f[x] \in Nat,
           NEW s \in SUBSET S, NEW x \in S, x \notin s
    PROVE  /\ Total(f, s \cup {x}) = f[x] + Total(f, s)
           /\ Total(f, s) \in Nat
<1>1. IsFiniteSet(s) /\ IsFiniteSet(s \cup {x})  BY FS_Subset
<1>2. \A y \in s \cup {x} : f[y] \in Nat  OBVIOUS
<1>3. (s \cup {x}) \ {x} = s /\ x \in s \cup {x}  OBVIOUS
<1>4. Total(f, s \cup {x}) = f[x] + Total(f, (s \cup {x}) \ {x})
    BY <1>1, <1>2, <1>3, TotalRemove
<1>5. Total(f, s) \in Nat  BY <1>1, <1>2, TotalStep
<1>. QED  BY <1>3, <1>4, <1>5

LEMMA TotalMono ==
    ASSUME NEW S, IsFiniteSet(S), NEW f, NEW g,
           \A x \in S : f[x] \in Nat /\ g[x] \in Nat /\ f[x] <= g[x]
    PROVE  Total(f, S) <= Total(g, S)
<1>. DEFINE Holds == {s \in SUBSET S : Total(f, s) <= Total(g, s)}
<1>1. {} \in Holds
    <2>1. Total(f, {}) = 0 /\ Total(g, {}) = 0  BY FS_EmptySet, TotalOfNothing
    <2>. QED  BY <2>1
<1>2. ASSUME NEW s \in SUBSET S, NEW x \in S, x \notin s, s \in Holds
      PROVE  s \cup {x} \in Holds
    <2>1. /\ Total(f, s \cup {x}) = f[x] + Total(f, s) /\ Total(f, s) \in Nat
          /\ Total(g, s \cup {x}) = g[x] + Total(g, s) /\ Total(g, s) \in Nat
        BY <1>2, TotalAdd
    <2>2. Total(f, s) <= Total(g, s)  BY <1>2
    <2>3. f[x] \in Nat /\ g[x] \in Nat /\ f[x] <= g[x]  OBVIOUS
    <2>4. Total(f, s \cup {x}) <= Total(g, s \cup {x})  BY <2>1, <2>2, <2>3
    <2>. QED  BY <2>4
<1>3. S \in Holds
    <2>. HIDE DEF Holds
    <2>. QED  BY <1>1, <1>2, SetsBySize
<1>. QED  BY <1>3

LEMMA TotalLinear ==
    ASSUME NEW S, IsFiniteSet(S), NEW f, NEW g, NEW h, NEW k \in Nat,
           \A x \in S : f[x] \in Nat /\ g[x] \in Nat /\ h[x] = f[x] + k * g[x]
    PROVE  Total(h, S) = Total(f, S) + k * Total(g, S)
<1>. DEFINE Holds == {s \in SUBSET S : Total(h, s) = Total(f, s) + k * Total(g, s)}
<1>a. /\ \A x \in S : f[x] \in Nat
      /\ \A x \in S : g[x] \in Nat
      /\ \A x \in S : h[x] \in Nat
    <2>1. \A x \in S : k * g[x] \in Nat  BY ProductNat
    <2>. QED  BY <2>1
<1>1. {} \in Holds
    <2>1. Total(f, {}) = 0 /\ Total(g, {}) = 0 /\ Total(h, {}) = 0
        BY FS_EmptySet, TotalOfNothing
    <2>. QED  BY <2>1
<1>2. ASSUME NEW s \in SUBSET S, NEW x \in S, x \notin s, s \in Holds
      PROVE  s \cup {x} \in Holds
    <2>1. /\ Total(f, s \cup {x}) = f[x] + Total(f, s) /\ Total(f, s) \in Nat
          /\ Total(g, s \cup {x}) = g[x] + Total(g, s) /\ Total(g, s) \in Nat
          /\ Total(h, s \cup {x}) = h[x] + Total(h, s)
        <3>1. IsFiniteSet(S) /\ x \in S /\ s \in SUBSET S /\ x \notin s  BY <1>2
        <3>2. Total(f, s \cup {x}) = f[x] + Total(f, s) /\ Total(f, s) \in Nat
            BY ONLY <3>1, <1>a, TotalAdd
        <3>3. Total(g, s \cup {x}) = g[x] + Total(g, s) /\ Total(g, s) \in Nat
            BY ONLY <3>1, <1>a, TotalAdd
        <3>4. Total(h, s \cup {x}) = h[x] + Total(h, s)
            BY ONLY <3>1, <1>a, TotalAdd
        <3>. QED  BY <3>2, <3>3, <3>4
    <2>2. Total(h, s) = Total(f, s) + k * Total(g, s)  BY <1>2
    <2>3. f[x] \in Nat /\ g[x] \in Nat /\ h[x] = f[x] + k * g[x]  OBVIOUS
    <2>. DEFINE a == f[x]  b == g[x]  p == Total(f, s)  q == Total(g, s)
    <2>4. a \in Nat /\ b \in Nat /\ p \in Nat /\ q \in Nat  BY <2>1, <2>3
    <2>5. /\ Total(h, s \cup {x}) = (a + k * b) + (p + k * q)
          /\ Total(f, s \cup {x}) = a + p /\ Total(g, s \cup {x}) = b + q
        BY <2>1, <2>2, <2>3
    <2>. HIDE DEF a, b, p, q
    <2>6. k * (b + q) = k * b + k * q /\ k * b \in Nat /\ k * q \in Nat
        BY <2>4, ProductOfSum, ProductNat
    <2>7. (a + k * b) + (p + k * q) = (a + p) + k * (b + q)  BY <2>4, <2>6
    <2>8. Total(h, s \cup {x}) = Total(f, s \cup {x}) + k * Total(g, s \cup {x})
        BY <2>5, <2>7
    <2>. QED  BY <2>8
<1>3. S \in Holds
    <2>. HIDE DEF Holds
    <2>. QED  BY <1>1, <1>2, SetsBySize
<1>. QED  BY <1>3

LEMMA TotalScaled ==
    ASSUME NEW S, IsFiniteSet(S), NEW g, NEW h, NEW k \in Nat,
           \A x \in S : g[x] \in Nat /\ h[x] = k * g[x]
    PROVE  Total(h, S) = k * Total(g, S)
<1>. DEFINE zero == [x \in S |-> 0]
<1>1. \A x \in S : zero[x] = 0  OBVIOUS
<1>. HIDE DEF zero
<1>2. Total(zero, S) = 0  BY <1>1, TotalOfNothing
<1>3. \A x \in S : k * g[x] \in Nat  BY ProductNat
<1>4. \A x \in S : zero[x] \in Nat /\ g[x] \in Nat /\ h[x] = zero[x] + k * g[x]
    BY <1>1, <1>3
<1>5. Total(h, S) = Total(zero, S) + k * Total(g, S)  BY <1>4, TotalLinear
<1>6. Total(g, S) \in Nat  BY TotalStep
<1>7. k * Total(g, S) \in Nat  BY <1>6, ProductNat
<1>. QED  BY <1>2, <1>5, <1>7

\* As many ones as there are elements.
LEMMA TotalOfOnes ==
    ASSUME NEW S, IsFiniteSet(S), NEW f, \A x \in S : f[x] = 1
    PROVE  Total(f, S) = Cardinality(S)
<1>. DEFINE Holds == {s \in SUBSET S : Total(f, s) = Cardinality(s)}
<1>a. \A x \in S : f[x] \in Nat  OBVIOUS
<1>1. {} \in Holds
    <2>1. Total(f, {}) = 0 /\ Cardinality({}) = 0  BY FS_EmptySet, TotalOfNothing
    <2>. QED  BY <2>1
<1>2. ASSUME NEW s \in SUBSET S, NEW x \in S, x \notin s, s \in Holds
      PROVE  s \cup {x} \in Holds
    <2>1. Total(f, s \cup {x}) = f[x] + Total(f, s)  BY <1>2, <1>a, TotalAdd
    <2>2. IsFiniteSet(s)  BY FS_Subset
    <2>3. Cardinality(s \cup {x}) = Cardinality(s) + 1 /\ Cardinality(s) \in Nat
        BY <1>2, <2>2, FS_AddElement, FS_CardinalityType
    <2>4. Total(f, s \cup {x}) = Cardinality(s \cup {x})  BY <1>2, <2>1, <2>3
    <2>. QED  BY <2>4
<1>3. S \in Holds
    <2>. HIDE DEF Holds
    <2>. QED  BY <1>1, <1>2, SetsBySize
<1>. QED  BY <1>3

\* Shares of a total, each rounded down, are no more than the whole.
LEMMA SharesOfWhole ==
    ASSUME NEW S, IsFiniteSet(S), NEW f, NEW g, \A x \in S : f[x] \in Nat,
           Total(f, S) > 0, \A x \in S : g[x] = DivDown(f[x], Total(f, S))
    PROVE  /\ \A x \in S : g[x] \in Nat
           /\ Total(g, S) \in Nat /\ Total(g, S) <= ONE
<1>. DEFINE whole == Total(f, S)
            covered == [x \in S |-> whole * g[x]]
            parts == [x \in S |-> ONE * f[x]]
<1>1. whole \in Nat /\ whole > 0 /\ ONE \in Nat /\ ONE > 0
    <2>1. Total(f, S) \in Nat  BY TotalStep
    <2>. QED  BY <2>1, ONEAssumption
<1>. HIDE DEF whole
<1>2. \A x \in S : g[x] \in Nat /\ covered[x] \in Nat /\ parts[x] \in Nat
                    /\ covered[x] <= parts[x]
    <2>. SUFFICES ASSUME NEW x \in S
                  PROVE  /\ g[x] \in Nat /\ whole * g[x] \in Nat /\ ONE * f[x] \in Nat
                         /\ whole * g[x] <= ONE * f[x]
        OBVIOUS
    <2>1. f[x] \in Nat /\ g[x] = (f[x] * ONE) \div whole  BY DEF DivDown, whole
    <2>2. f[x] * ONE \in Nat /\ f[x] * ONE = ONE * f[x]  BY <1>1, <2>1, ProductNat
    <2>3. g[x] \in Nat /\ g[x] * whole <= f[x] * ONE  BY <1>1, <2>1, <2>2, Quotient
    <2>4. g[x] * whole = whole * g[x] /\ whole * g[x] \in Nat  BY <1>1, <2>3, ProductNat
    <2>. QED  BY <2>2, <2>3, <2>4
<1>3. Total(g, S) \in Nat  BY <1>2, TotalStep
<1>4. \A x \in S : covered[x] = whole * g[x] /\ parts[x] = ONE * f[x]  OBVIOUS
<1>. HIDE DEF covered, parts
<1>5. Total(covered, S) = whole * Total(g, S)  BY <1>1, <1>2, <1>4, TotalScaled
<1>6. Total(parts, S) = ONE * whole  BY <1>1, <1>4, TotalScaled DEF whole
<1>7. Total(covered, S) <= Total(parts, S)  BY <1>2, TotalMono
<1>8. Total(g, S) * whole <= ONE * whole
    <2>1. Total(g, S) * whole = whole * Total(g, S)  BY <1>1, <1>3
    <2>. QED  BY <1>5, <1>6, <1>7, <2>1
<1>9. Total(g, S) <= ONE  BY <1>1, <1>3, <1>8, CancelFactor
<1>. QED  BY <1>2, <1>3, <1>9

-----------------------------------------------------------------------------
(* Powers.  A recursive function is what its definition says once a function *)
(* is shown to exist that satisfies it.                                      *)

\* The numbers that a base and a result so far are taken to.
PowTable == [Nat -> [Nat -> Nat]]

NextResult(result, base, exp) == IF exp % 2 = 1 THEN MulDown(result, base) ELSE result

\* The definition of the powers for one exponent, given those for smaller exponents.
PowStep(pow, exp) ==
    [base \in Nat |-> [result \in Nat |->
        IF exp = 0 THEN result
        ELSE pow[exp \div 2][MulDown(base, base)][NextResult(result, base, exp)]]]

\* The powers up to an exponent.
PowsUpTo(n) == {pow \in [0..n -> PowTable] : \A exp \in 0..n : pow[exp] = PowStep(pow, exp)}

\* The recursion descends.
LEMMA HalfIsSmaller ==
    ASSUME NEW exp \in Nat, exp # 0
    PROVE  exp \div 2 \in Nat /\ exp \div 2 < exp
OBVIOUS

\* A step gives numbers, and depends only on the powers for half the exponent.
LEMMA PowStepType ==
    ASSUME NEW pow, NEW exp \in Nat, exp # 0 => pow[exp \div 2] \in PowTable
    PROVE  PowStep(pow, exp) \in PowTable
<1>. SUFFICES ASSUME NEW base \in Nat, NEW result \in Nat, exp # 0
              PROVE  pow[exp \div 2][MulDown(base, base)][NextResult(result, base, exp)] \in Nat
    BY DEF PowStep, PowTable
<1>1. MulDown(base, base) \in Nat /\ NextResult(result, base, exp) \in Nat
    BY MulDownNat DEF NextResult
<1>. QED  BY <1>1 DEF PowTable

LEMMA PowStepSame ==
    ASSUME NEW f, NEW g, NEW exp \in Nat, exp # 0 => f[exp \div 2] = g[exp \div 2]
    PROVE  PowStep(f, exp) = PowStep(g, exp)
BY DEF PowStep

\* There are powers up to every exponent,
LEMMA PowsExist == \A n \in Nat : PowsUpTo(n) # {}
<1>. DEFINE S == {n \in Nat : PowsUpTo(n) # {}}
<1>1. 0 \in S
    <2>. DEFINE f == [exp \in 0..0 |-> PowStep(<<>>, 0)]
    <2>1. f \in [0..0 -> PowTable]  BY PowStepType
    <2>2. \A exp \in 0..0 : f[exp] = PowStep(f, exp)
        <3>1. f[0] = PowStep(<<>>, 0)  OBVIOUS
        <3>. HIDE DEF f
        <3>2. f[0] = PowStep(f, 0)  BY <3>1, PowStepSame
        <3>. QED  BY <3>2
    <2>. HIDE DEF f
    <2>. QED  BY <2>1, <2>2 DEF PowsUpTo
<1>2. ASSUME NEW n \in Nat, n \in S
      PROVE  n + 1 \in S
    <2>1. PICK f \in [0..n -> PowTable] : \A exp \in 0..n : f[exp] = PowStep(f, exp)
        BY <1>2 DEF PowsUpTo
    <2>. DEFINE g == [exp \in 0..(n + 1) |-> IF exp \in 0..n THEN f[exp] ELSE PowStep(f, n + 1)]
    <2>2. (n + 1) \div 2 \in 0..n  BY HalfIsSmaller
    <2>3. g \in [0..(n + 1) -> PowTable]
        <3>1. PowStep(f, n + 1) \in PowTable  BY <2>2, PowStepType
        <3>. QED  BY <3>1
    <2>4. ASSUME NEW exp \in 0..(n + 1)
          PROVE  g[exp] = PowStep(g, exp)
        <3>1. exp # 0 => exp \div 2 \in 0..n  BY HalfIsSmaller
        <3>2. exp # 0 => f[exp \div 2] = g[exp \div 2]  BY <3>1
        <3>3. PowStep(f, exp) = PowStep(g, exp)  BY <3>2, PowStepSame
        <3>4. CASE exp \in 0..n  BY <2>1, <3>3, <3>4
        <3>5. CASE exp = n + 1
            <4>1. g[n + 1] = PowStep(f, n + 1)  OBVIOUS
            <4>. QED  BY <3>3, <3>5, <4>1
        <3>. QED  BY <3>4, <3>5
    <2>. HIDE DEF g
    <2>. QED  BY <2>3, <2>4 DEF PowsUpTo
<1>. HIDE DEF S
<1>3. \A n \in Nat : n \in S  BY <1>1, <1>2, SetInduction
<1>. QED  BY <1>3 DEF S

\* and two tables agree where both are defined,
LEMMA PowsAgree ==
    ASSUME NEW m \in Nat, NEW n \in Nat, NEW f \in PowsUpTo(m), NEW g \in PowsUpTo(n)
    PROVE  \A exp \in Nat : exp <= m /\ exp <= n => f[exp] = g[exp]
<1>. DEFINE S == {k \in Nat : \A exp \in 0..k : exp <= m /\ exp <= n => f[exp] = g[exp]}
<1>1. ASSUME NEW exp \in Nat, exp <= m, exp <= n, exp # 0 => f[exp \div 2] = g[exp \div 2]
      PROVE  f[exp] = g[exp]
    <2>1. f[exp] = PowStep(f, exp) /\ g[exp] = PowStep(g, exp)  BY <1>1 DEF PowsUpTo
    <2>. QED  BY <1>1, <2>1, PowStepSame
<1>2. 0 \in S
    <2>1. f[0] = g[0]  BY <1>1
    <2>. QED  BY <2>1
<1>3. ASSUME NEW k \in Nat, k \in S
      PROVE  k + 1 \in S
    <2>. SUFFICES ASSUME k + 1 <= m, k + 1 <= n
                  PROVE  f[k + 1] = g[k + 1]
        BY <1>3
    <2>1. (k + 1) \div 2 \in 0..k  BY HalfIsSmaller
    <2>2. f[(k + 1) \div 2] = g[(k + 1) \div 2]  BY <1>3, <2>1
    <2>. QED  BY <1>1, <2>2
<1>4. \A k \in Nat : k \in S
    <2>. HIDE DEF S
    <2>. QED  BY <1>2, <1>3, SetInduction
<1>. QED  BY <1>4

\* so the recursion of intPowDown defines a function.
LEMMA IntPowDefined == IntPow = [exp \in Nat |-> PowStep(IntPow, exp)]
<1>. DEFINE Upto(n) == CHOOSE f : f \in PowsUpTo(n)
            pow == [exp \in Nat |-> Upto(exp)[exp]]
<1>1. \A n \in Nat : Upto(n) \in PowsUpTo(n)  BY PowsExist
<1>2. ASSUME NEW exp \in Nat
      PROVE  pow[exp] = PowStep(pow, exp)
    <2>1. exp # 0 => Upto(exp)[exp \div 2] = pow[exp \div 2]
        <3>. SUFFICES ASSUME exp # 0 PROVE Upto(exp)[exp \div 2] = pow[exp \div 2]  OBVIOUS
        <3>1. exp \div 2 \in Nat /\ exp \div 2 <= exp  BY HalfIsSmaller
        <3>2. Upto(exp)[exp \div 2] = Upto(exp \div 2)[exp \div 2]
            <4>1. Upto(exp) \in PowsUpTo(exp) /\ Upto(exp \div 2) \in PowsUpTo(exp \div 2)
                BY <1>1, <3>1
            <4>. HIDE DEF Upto
            <4>. QED  BY <3>1, <4>1, PowsAgree
        <3>. QED  BY <3>1, <3>2
    <2>2. Upto(exp)[exp] = PowStep(Upto(exp), exp)  BY <1>1 DEF PowsUpTo
    <2>3. pow[exp] = Upto(exp)[exp]  OBVIOUS
    <2>. HIDE DEF Upto, pow
    <2>. QED  BY <2>1, <2>2, <2>3, PowStepSame
<1>3. pow = [exp \in Nat |-> PowStep(pow, exp)]
    <2>1. pow = [exp \in Nat |-> pow[exp]]  OBVIOUS
    <2>. HIDE DEF pow
    <2>. QED  BY <1>2, <2>1
<1>4. IntPow = CHOOSE f : f = [exp \in Nat |-> PowStep(f, exp)]
    BY DEF IntPow, PowStep, NextResult
<1>. HIDE DEF pow
<1>. QED  BY <1>3, <1>4

\* Powers of natural numbers are natural numbers.
LEMMA IntPowNat ==
    ASSUME NEW base \in Nat, NEW exp \in Nat
    PROVE  IntPowDown(base, exp) \in Nat
<1>. DEFINE S == {k \in Nat : \A n \in 0..k : IntPow[n] \in PowTable}
<1>1. \A n \in Nat : IntPow[n] = PowStep(IntPow, n)
    BY IntPowDefined
<1>2. 0 \in S
    <2>1. IntPow[0] \in PowTable  BY <1>1, PowStepType
    <2>. QED  BY <2>1
<1>3. ASSUME NEW k \in Nat, k \in S
      PROVE  k + 1 \in S
    <2>1. (k + 1) \div 2 \in 0..k  BY HalfIsSmaller
    <2>2. IntPow[k + 1] \in PowTable  BY <1>1, <1>3, <2>1, PowStepType
    <2>. QED  BY <1>3, <2>2
<1>4. exp \in S
    <2>. HIDE DEF S
    <2>. QED  BY <1>2, <1>3, SetInduction
<1>5. IntPow[exp] \in PowTable  BY <1>4
<1>. QED  BY <1>5, ONEAssumption DEF PowTable, IntPowDown

-----------------------------------------------------------------------------
(* The size of a burn and the adjustment factor of the recovery module. *)

\* A partial burn does not raise the adjustment factor, whatever it rounds.
LEMMA FactorShrinks ==
    ASSUME NEW f \in 1..ONE, NEW total \in Nat, total > 0, NEW left \in Nat, left <= total
    PROVE  DivDown(MulDown(f, left), total) \in 0..ONE
<1>. DEFINE p == MulDown(f, left)
            q == DivDown(p, total)
<1>1. f \in Nat /\ ONE \in Nat /\ ONE > 0 /\ f <= ONE  BY ONEAssumption
<1>2. p \in Nat /\ p * ONE <= f * left
    BY <1>1, ProductNat, Quotient DEF MulDown
<1>3. q \in Nat /\ q * total <= p * ONE
    BY <1>1, <1>2, ProductNat, Quotient DEF DivDown
<1>4. f * left <= f * total /\ total * f <= total * ONE
    BY <1>1, ProductMono
<1>5. q * total <= ONE * total
    <2>1. f * left \in Nat /\ f * total \in Nat /\ p * ONE \in Nat /\ q * total \in Nat
          /\ ONE * total \in Nat
        BY <1>1, <1>2, <1>3, ProductNat
    <2>2. f * total = total * f /\ total * ONE = ONE * total  BY <1>1
    <2>. HIDE DEF p, q
    <2>. QED  BY <1>2, <1>3, <1>4, <2>1, <2>2
<1>6. q <= ONE
    <2>. SUFFICES ASSUME q >= ONE + 1 PROVE FALSE  BY <1>1, <1>3
    <2>. HIDE DEF q
    <2>1. total * (ONE + 1) <= total * q  BY <1>1, <1>3, ProductMono
    <2>2. total * (ONE + 1) = total * ONE + total  BY <1>1
    <2>3. total * q = q * total /\ total * ONE = ONE * total  BY <1>1, <1>3
    <2>4. total * ONE \in Nat /\ total * q \in Nat  BY <1>1, <1>3, ProductNat
    <2>. QED  BY <1>5, <2>1, <2>2, <2>3, <2>4
<1>. QED  BY <1>1, <1>3, <1>6

\* The threshold of a full burn is a share of the pool, so what is left by a
\* partial burn is not negative.
LEMMA PartialBurnLeavesGyd ==
    ASSUME NEW total \in Nat, NEW amount \in Nat, NEW keep \in 0..ONE,
           ~(amount >= MulDown(total, keep))
    PROVE  total - amount \in Nat /\ amount < total
<1>. DEFINE limit == MulDown(total, keep)
<1>1. ONE \in Nat /\ ONE > 0 /\ keep \in Nat /\ keep <= ONE
    BY ONEAssumption
<1>2. limit \in Nat /\ limit * ONE <= total * keep
    BY <1>1, ProductNat, Quotient DEF MulDown
<1>3. total * keep <= total * ONE  BY <1>1, ProductMono
<1>4. limit <= total
    <2>. SUFFICES ASSUME limit >= total + 1 PROVE FALSE  BY <1>2
    <2>. HIDE DEF limit
    <2>1. ONE * (total + 1) <= ONE * limit  BY <1>1, <1>2, ProductMono
    <2>2. ONE * (total + 1) = ONE * total + ONE  BY <1>1
    <2>3. ONE * limit = limit * ONE /\ ONE * total = total * ONE  BY <1>1, <1>2
    <2>4. ONE * total \in Nat /\ ONE * limit \in Nat /\ total * keep \in Nat
        BY <1>1, <1>2, ProductNat
    <2>. QED  BY <1>1, <1>2, <1>3, <2>1, <2>2, <2>3, <2>4
<1>5. amount < limit  BY <1>2
<1>. QED  BY <1>2, <1>4, <1>5

=============================================================================
