--------------------------- MODULE PricingProofs ---------------------------
(***************************************************************************)
(* The arithmetic of Pricing, for every rate table: that Frac keeps the    *)
(* value of a fraction, that the operations on fractions obey the laws of  *)
(* the numbers they stand for, and what the price feed and a quote are     *)
(* worth when the rates agree with a value of each currency.               *)
(***************************************************************************)
EXTENDS Pricing, SumProofs

IsFraction(x) == x \in [n : Nat, d : Nat \ {0}]
IsPositive(x) == x \in [n : Nat \ {0}, d : Nat \ {0}]

-----------------------------------------------------------------------------
(***************************************************************************)
(* The greatest common divisor.  That the recursive function exists is     *)
(* shown by exhibiting one: the largest of the common divisors.            *)
(***************************************************************************)
Divides(e, x) == \E a \in Int : x = e * a
Common(m, n) == {e \in Nat \ {0} : Divides(e, m) /\ Divides(e, n)}
Largest(S) == CHOOSE e \in S : \A i \in S : i <= e
Gcf(m, n) == IF m = 0 /\ n = 0 THEN 0 ELSE Largest(Common(m, n))

LEMMA Remainder ==
    ASSUME NEW m \in Nat, NEW n \in Nat, n # 0
    PROVE  /\ m % n \in Nat /\ m % n < n /\ m \div n \in Nat
           /\ m = n * (m \div n) + (m % n)
<1>1. n > 0
  OBVIOUS
<1>2. m % n \in 0..(n - 1)
  BY <1>1
<1>3. m \div n \in Int /\ m = n * (m \div n) + (m % n)
  BY <1>1
<1>4. m \div n >= 0
  BY <1>1, <1>2, <1>3
<1>5. QED
  BY <1>2, <1>3, <1>4

LEMMA DividesRemainder ==
    ASSUME NEW m \in Nat, NEW n \in Nat \ {0}, NEW e \in Nat \ {0}, Divides(e, n)
    PROVE  Divides(e, m) <=> Divides(e, m % n)
<1> DEFINE q == m \div n
           r == m % n
<1>1. q \in Int /\ r \in Int /\ m = n * q + r
  BY Remainder
<1> HIDE DEF q, r
<1>2. PICK b \in Int : n = e * b
  BY DEF Divides
<1>3. ASSUME NEW a \in Int, m = e * a
      PROVE  r = e * (a - b * q)
  <2>1. e * (a - b * q) = e * a - (e * b) * q
    BY <1>1
  <2>2. QED
    BY <1>1, <1>2, <1>3, <2>1
<1>4. ASSUME NEW a \in Int, r = e * a
      PROVE  m = e * (b * q + a)
  <2>1. e * (b * q + a) = (e * b) * q + e * a
    BY <1>1
  <2>2. QED
    BY <1>1, <1>2, <1>4, <2>1
<1>5. \A a \in Int : a - b * q \in Int /\ b * q + a \in Int
  BY <1>1
<1>6. QED
  BY <1>3, <1>4, <1>5 DEF Divides, r

LEMMA GcfUnfolds ==
    ASSUME NEW m \in Nat, NEW n \in Nat
    PROVE  Gcf(m, n) = IF n = 0 THEN m ELSE Gcf(n, m % n)
<1>1. CASE n = 0 /\ m = 0
  BY <1>1 DEF Gcf
<1>2. CASE n = 0 /\ m # 0
  <2>1. Divides(m, m) /\ Divides(m, n)
    <3>1. m = m * 1 /\ n = m * 0
      BY <1>2
    <3>2. QED
      BY <3>1 DEF Divides
  <2>2. m \in Common(m, n)
    BY <1>2, <2>1 DEF Common
  <2>3. ASSUME NEW i \in Common(m, n)
        PROVE  i \in Nat /\ i <= m
    <3>1. i \in Nat \ {0} /\ Divides(i, m)
      BY DEF Common
    <3>2. PICK a \in Int : m = i * a
      BY <3>1 DEF Divides
    <3>3. a >= 1
      BY <1>2, <3>1, <3>2
    <3>4. QED
      BY <3>1, <3>2, <3>3
  <2>4. \A e \in Common(m, n) : (\A i \in Common(m, n) : i <= e) <=> e = m
    BY <2>2, <2>3
  <2>5. Largest(Common(m, n)) = m
    BY <2>2, <2>4 DEF Largest
  <2>6. QED
    BY <1>2, <2>5 DEF Gcf
<1>3. CASE n # 0
  <2>1. m % n \in Nat
    BY <1>3, Remainder
  <2>2. Common(m, n) = Common(n, m % n)
    BY <1>3, DividesRemainder DEF Common
  <2>3. QED
    BY <1>3, <2>2 DEF Gcf
<1>4. QED
  BY <1>1, <1>2, <1>3

LEMMA GcdUnfolds ==
    ASSUME NEW m \in Nat, NEW n \in Nat
    PROVE  Gcd[<<m, n>>] = IF n = 0 THEN m ELSE Gcd[<<n, m % n>>]
<1> DEFINE G == [p \in Nat \X Nat |-> Gcf(p[1], p[2])]
<1>1. ASSUME NEW p \in Nat \X Nat
      PROVE  G[p] = IF p[2] = 0 THEN p[1] ELSE G[<<p[2], p[1] % p[2]>>]
  <2>1. p[1] \in Nat /\ p[2] \in Nat
    OBVIOUS
  <2>2. G[p] = IF p[2] = 0 THEN p[1] ELSE Gcf(p[2], p[1] % p[2])
    BY <2>1, GcfUnfolds
  <2>3. CASE p[2] # 0
    <3>1. <<p[2], p[1] % p[2]>> \in Nat \X Nat
      BY <2>1, <2>3, Remainder
    <3>2. G[<<p[2], p[1] % p[2]>>] = Gcf(p[2], p[1] % p[2])
      BY <3>1
    <3>3. QED
      BY <2>2, <2>3, <3>2
  <2>4. QED
    BY <2>2, <2>3
<1>2. G = [p \in Nat \X Nat |-> IF p[2] = 0 THEN p[1] ELSE G[<<p[2], p[1] % p[2]>>]]
  <2>1. G = [p \in Nat \X Nat |-> G[p]]
    OBVIOUS
  <2> HIDE DEF G
  <2>2. QED
    BY <1>1, <2>1
<1> HIDE DEF G
<1>3. Gcd = [p \in Nat \X Nat |-> IF p[2] = 0 THEN p[1] ELSE Gcd[<<p[2], p[1] % p[2]>>]]
  BY <1>2, Zenon DEF Gcd
<1>4. <<m, n>> \in Nat \X Nat /\ <<m, n>>[1] = m /\ <<m, n>>[2] = n
  OBVIOUS
<1>5. QED
  BY <1>3, <1>4

\* It divides both numbers: by induction on the second.
LEMMA GcdDivides ==
    ASSUME NEW m \in Nat, NEW n \in Nat, m # 0 \/ n # 0
    PROVE  /\ Gcd[<<m, n>>] \in Nat \ {0}
           /\ Divides(Gcd[<<m, n>>], m) /\ Divides(Gcd[<<m, n>>], n)
<1> DEFINE Right(i, j) == /\ Gcd[<<i, j>>] \in Nat \ {0}
                          /\ Divides(Gcd[<<i, j>>], i) /\ Divides(Gcd[<<i, j>>], j)
           Good == {k \in Nat : \A i \in Nat, j \in 0..k : i # 0 \/ j # 0 => Right(i, j)}
<1>1. ASSUME NEW i \in Nat, i # 0
      PROVE  Right(i, 0)
  <2>1. i = i * 1 /\ 0 = i * 0
    BY <1>1
  <2>2. Gcd[<<i, 0>>] = i
    BY GcdUnfolds
  <2>3. QED
    BY <1>1, <2>1, <2>2 DEF Divides
<1>2. ASSUME NEW i \in Nat, NEW j \in Nat \ {0}, Right(j, i % j)
      PROVE  Right(i, j)
  <2>1. Gcd[<<i, j>>] = Gcd[<<j, i % j>>]
    BY GcdUnfolds
  <2>2. Divides(Gcd[<<i, j>>], i)
    BY <1>2, <2>1, DividesRemainder
  <2>3. QED
    BY <1>2, <2>1, <2>2
<1> HIDE DEF Right
<1>3. 0 \in Good
  BY <1>1
<1>4. ASSUME NEW k \in Nat, k \in Good
      PROVE  k + 1 \in Good
  <2>1. ASSUME NEW i \in Nat, NEW j \in 0..(k + 1), i # 0 \/ j # 0
        PROVE  Right(i, j)
    <3>1. CASE j = 0
      BY <1>1, <2>1, <3>1
    <3>2. CASE j # 0
      <4>1. i % j \in 0..k
        BY <3>2, Remainder
      <4>2. Right(j, i % j)
        BY <1>4, <3>2, <4>1
      <4>3. QED
        BY <1>2, <3>2, <4>2
    <3>3. QED
      BY <3>1, <3>2
  <2>2. QED
    BY <2>1
<1> HIDE DEF Good
<1>5. \A k \in Nat : k \in Good
  BY <1>3, <1>4, GrowNumber
<1>6. n \in Good /\ n \in 0..n
  BY <1>5
<1>7. Right(m, n)
  BY <1>6 DEF Good
<1>8. QED
  BY <1>7 DEF Right

LEMMA ExactQuotient ==
    ASSUME NEW x \in Nat, NEW e \in Nat \ {0}, Divides(e, x)
    PROVE  x \div e \in Nat /\ x = e * (x \div e)
<1> DEFINE q == x \div e
           r == x % e
<1>1. q \in Nat /\ r \in Nat /\ r < e /\ x = e * q + r
  BY Remainder
<1> HIDE DEF q, r
<1>2. PICK a \in Int : x = e * a
  BY DEF Divides
<1>3. r = e * (a - q)
  BY <1>1, <1>2
<1>4. a - q = 0
  <2>1. a - q < 1
    BY <1>1, <1>3
  <2>2. a - q > -1
    BY <1>1, <1>3
  <2>3. QED
    BY <1>1, <2>1, <2>2
<1>5. x = e * q
  BY <1>1, <1>3, <1>4
<1>6. QED
  BY <1>1, <1>5 DEF q

-----------------------------------------------------------------------------
(***************************************************************************)
(* Fractions.                                                              *)
(***************************************************************************)
\* A fraction in lowest terms has the value it is made from.
LEMMA FracFacts ==
    ASSUME NEW n \in Nat, NEW d \in Nat \ {0}
    PROVE  /\ IsFraction(Frac(n, d))
           /\ Frac(n, d).n * d = n * Frac(n, d).d
           /\ n # 0 => IsPositive(Frac(n, d))
<1> DEFINE g == Gcd[<<n, d>>]
           a == n \div g
           b == d \div g
<1>1. g \in Nat \ {0} /\ Divides(g, n) /\ Divides(g, d)
  BY GcdDivides
<1> HIDE DEF g
<1>2. a \in Nat /\ n = g * a /\ b \in Nat /\ d = g * b
  BY <1>1, ExactQuotient
<1>3. Frac(n, d) = [n |-> a, d |-> b]
  BY DEF Frac, g
<1> HIDE DEF a, b
<1>4. b # 0 /\ (n # 0 => a # 0)
  BY <1>1, <1>2
<1>5. a * d = n * b
  <2>1. a * (g * b) = (g * a) * b
    BY <1>1, <1>2
  <2>2. QED
    BY <1>2, <2>1
<1>6. QED
  BY <1>2, <1>3, <1>4, <1>5 DEF IsFraction, IsPositive

-----------------------------------------------------------------------------
(***************************************************************************)
(* Laws of arithmetic, up to AtMost both ways: Same.  Each is shown of the *)
(* product that is not cancelled, and Times has the value of that product. *)
(***************************************************************************)
Same(x, y) == x.n * y.d = y.n * x.d
Product(x, y) == [n |-> x.n * y.n, d |-> x.d * y.d]

LEMMA Parts ==
    ASSUME NEW x, IsFraction(x)
    PROVE  x.n \in Nat /\ x.d \in Nat /\ x.d # 0 /\ x.d > 0
BY DEF IsFraction

LEMMA PositiveIsFraction ==
    ASSUME NEW x, IsPositive(x)
    PROVE  IsFraction(x) /\ x.n > 0 /\ IsPositive([n |-> x.d, d |-> x.n])
BY DEF IsPositive, IsFraction

\* Factors of the same sign keep an order.
LEMMA TimesKeepsOrder ==
    ASSUME NEW a \in Nat, NEW b \in Nat, NEW c \in Nat, NEW d \in Nat, a <= b, c <= d
    PROVE  a * c <= b * d
<1>1. a * c <= b * c
  OBVIOUS
<1>2. b * c <= b * d
  OBVIOUS
<1>3. QED
  BY <1>1, <1>2

LEMMA CancelAtMost ==
    ASSUME NEW a \in Int, NEW b \in Int, NEW d \in Nat, d > 0, a * d <= b * d
    PROVE  a <= b
OBVIOUS

LEMMA NonZero ==
    ASSUME NEW a \in Nat, NEW b \in Nat, a # 0, b # 0
    PROVE  a * b \in Nat /\ a * b # 0
OBVIOUS

LEMMA ProductFacts ==
    ASSUME NEW x, NEW y, IsFraction(x), IsFraction(y)
    PROVE  /\ IsFraction(Product(x, y))
           /\ IsPositive(x) /\ IsPositive(y) => IsPositive(Product(x, y))
<1>1. x.n * y.n \in Nat
  BY Parts
<1>2. x.d * y.d \in Nat /\ x.d * y.d # 0
  BY Parts, NonZero
<1>3. ASSUME IsPositive(x), IsPositive(y)
      PROVE  x.n * y.n # 0
  <2>1. x.n \in Nat /\ y.n \in Nat /\ x.n # 0 /\ y.n # 0
    BY <1>3 DEF IsPositive
  <2>2. QED
    BY <2>1, NonZero
<1>4. QED
  BY <1>1, <1>2, <1>3 DEF Product, IsFraction, IsPositive

LEMMA SameIsAtMost ==
    ASSUME NEW x, NEW y, IsFraction(x), IsFraction(y)
    PROVE  Same(x, y) <=> AtMost(x, y) /\ AtMost(y, x)
<1>1. x.n * y.d \in Nat /\ y.n * x.d \in Nat
  BY Parts
<1>2. QED
  BY <1>1 DEF Same, AtMost

LEMMA AtMostTransitive ==
    ASSUME NEW x, NEW y, NEW z, IsFraction(x), IsFraction(y), IsFraction(z),
           AtMost(x, y), AtMost(y, z)
    PROVE  AtMost(x, z)
<1> DEFINE a == x.n  b == x.d  c == y.n  d == y.d  e == z.n  f == z.d
<1>1. /\ a \in Nat /\ b \in Nat /\ c \in Nat /\ d \in Nat /\ e \in Nat /\ f \in Nat
      /\ b > 0 /\ d > 0 /\ f > 0
      /\ a * d <= c * b /\ c * f <= e * d
  BY Parts DEF AtMost
<1> HIDE DEF a, b, c, d, e, f
<1>2. (a * d) * f <= (c * b) * f
  <2>1. a * d \in Nat /\ c * b \in Nat
    BY <1>1
  <2>2. QED
    BY <1>1, <2>1, TimesKeepsOrder
<1>3. (c * f) * b <= (e * d) * b
  <2>1. c * f \in Nat /\ e * d \in Nat
    BY <1>1
  <2>2. QED
    BY <1>1, <2>1, TimesKeepsOrder
<1>4. (c * b) * f = (c * f) * b
  BY <1>1
<1>5. (a * d) * f = (a * f) * d /\ (e * d) * b = (e * b) * d
  BY <1>1
<1>6. a * f \in Nat /\ e * b \in Nat /\ (a * d) * f \in Nat /\ (e * d) * b \in Nat
      /\ (c * b) * f \in Nat
  BY <1>1
<1>7. (a * f) * d <= (e * b) * d
  BY <1>2, <1>3, <1>4, <1>5, <1>6
<1>8. a * f <= e * b
  BY <1>1, <1>6, <1>7, CancelAtMost
<1>9. QED
  BY <1>8 DEF AtMost, a, b, e, f

LEMMA SameTransitive ==
    ASSUME NEW x, NEW y, NEW z, IsFraction(x), IsFraction(y), IsFraction(z),
           Same(x, y), Same(y, z)
    PROVE  Same(x, z) /\ Same(z, x)
BY SameIsAtMost, AtMostTransitive

LEMMA SameSymmetric ==
    ASSUME NEW x, NEW y, Same(x, y)
    PROVE  Same(y, x)
BY DEF Same

LEMMA ProductKeepsOrder ==
    ASSUME NEW x, NEW y, NEW u, NEW v,
           IsFraction(x), IsFraction(y), IsFraction(u), IsFraction(v),
           AtMost(x, u), AtMost(y, v)
    PROVE  AtMost(Product(x, y), Product(u, v))
<1> DEFINE a == x.n  b == x.d  c == y.n  d == y.d  e == u.n  f == u.d  g == v.n  h == v.d
<1>1. /\ a \in Nat /\ b \in Nat /\ c \in Nat /\ d \in Nat
      /\ e \in Nat /\ f \in Nat /\ g \in Nat /\ h \in Nat
      /\ a * f <= e * b /\ c * h <= g * d
  BY Parts DEF AtMost
<1>2. Product(x, y) = [n |-> a * c, d |-> b * d] /\ Product(u, v) = [n |-> e * g, d |-> f * h]
  BY DEF Product
<1> HIDE DEF a, b, c, d, e, f, g, h
<1>3. a * f \in Nat /\ e * b \in Nat /\ c * h \in Nat /\ g * d \in Nat
  BY <1>1
<1>4. (a * f) * (c * h) <= (e * b) * (g * d)
  BY <1>1, <1>3, TimesKeepsOrder
<1>5. (a * f) * (c * h) = (a * c) * (f * h) /\ (e * b) * (g * d) = (e * g) * (b * d)
  BY <1>1
<1>6. QED
  BY <1>2, <1>4, <1>5 DEF AtMost

\* Times has the value of the product.
LEMMA TimesFacts ==
    ASSUME NEW x, NEW y, IsFraction(x), IsFraction(y)
    PROVE  /\ IsFraction(Times(x, y)) /\ Same(Times(x, y), Product(x, y))
           /\ IsPositive(x) /\ IsPositive(y) => IsPositive(Times(x, y))
<1> DEFINE u == Frac(x.n, y.d)
           v == Frac(y.n, x.d)
<1>0. Times(x, y) = Product(u, v)
  BY DEF Times, Product
<1>1. /\ IsFraction(u) /\ u.n * y.d = x.n * u.d
      /\ IsFraction(v) /\ v.n * x.d = y.n * v.d
  BY FracFacts, Parts
<1>5. ASSUME IsPositive(x), IsPositive(y)
      PROVE  IsPositive(u) /\ IsPositive(v)
  <2>1. x.n \in Nat /\ y.n \in Nat /\ x.n # 0 /\ y.n # 0
    BY <1>5 DEF IsPositive
  <2>2. x.d \in Nat \ {0} /\ y.d \in Nat \ {0}
    BY Parts
  <2>3. QED
    BY <2>1, <2>2, FracFacts
<1> HIDE DEF u, v
<1>2. IsFraction(Times(x, y)) /\ (IsPositive(x) /\ IsPositive(y) => IsPositive(Times(x, y)))
  <2>1. IsFraction(Product(u, v))
    BY <1>1, ProductFacts
  <2>2. IsPositive(x) /\ IsPositive(y) => IsPositive(Product(u, v))
    BY <1>1, <1>5, ProductFacts
  <2>3. QED
    BY <1>0, <2>1, <2>2
<1>3. Same(Product(u, v), Product(x, y))
  <2> DEFINE a == x.n  b == x.d  c == y.n  d == y.d  e == u.n  f == u.d  g == v.n  h == v.d
  <2>1. /\ a \in Nat /\ b \in Nat /\ c \in Nat /\ d \in Nat
        /\ e \in Nat /\ f \in Nat /\ g \in Nat /\ h \in Nat
        /\ e * d = a * f /\ g * b = c * h
    BY <1>1, Parts
  <2>2. Product(x, y) = [n |-> a * c, d |-> b * d] /\ Product(u, v) = [n |-> e * g, d |-> f * h]
    BY DEF Product
  <2> HIDE DEF a, b, c, d, e, f, g, h
  <2>3. (e * d) * (g * b) = (a * f) * (c * h)
    BY <2>1
  <2>4. (e * d) * (g * b) = (e * g) * (b * d) /\ (a * f) * (c * h) = (a * c) * (f * h)
    BY <2>1
  <2>5. QED
    BY <2>2, <2>3, <2>4 DEF Same
<1>4. QED
  BY <1>0, <1>2, <1>3

LEMMA TimesIsMonotone ==
    ASSUME NEW x, NEW y, NEW u, NEW v,
           IsFraction(x), IsFraction(y), IsFraction(u), IsFraction(v),
           AtMost(x, u), AtMost(y, v)
    PROVE  AtMost(Times(x, y), Times(u, v))
<1>1. AtMost(Times(x, y), Product(x, y)) /\ AtMost(Product(u, v), Times(u, v))
  BY TimesFacts, ProductFacts, SameIsAtMost
<1>2. AtMost(Product(x, y), Product(u, v))
  BY ProductKeepsOrder
<1>3. AtMost(Times(x, y), Product(u, v))
  BY <1>1, <1>2, AtMostTransitive, TimesFacts, ProductFacts
<1>4. QED
  BY <1>1, <1>3, AtMostTransitive, TimesFacts, ProductFacts

LEMMA AtMostReflexive ==
    ASSUME NEW x, IsFraction(x)
    PROVE  AtMost(x, x)
<1>1. x.n * x.d \in Nat
  BY Parts
<1>2. QED
  BY <1>1 DEF AtMost

LEMMA TimesOfSame ==
    ASSUME NEW x, NEW y, NEW u, NEW v,
           IsFraction(x), IsFraction(y), IsFraction(u), IsFraction(v),
           Same(x, u), Same(y, v)
    PROVE  Same(Times(x, y), Times(u, v))
<1>1. AtMost(x, u) /\ AtMost(u, x) /\ AtMost(y, v) /\ AtMost(v, y)
  BY SameIsAtMost
<1>2. AtMost(Times(x, y), Times(u, v)) /\ AtMost(Times(u, v), Times(x, y))
  BY <1>1, TimesIsMonotone
<1>3. QED
  BY <1>2, TimesFacts, SameIsAtMost

LEMMA TimesAssociates ==
    ASSUME NEW x, NEW y, NEW z, IsFraction(x), IsFraction(y), IsFraction(z)
    PROVE  Same(Times(Times(x, y), z), Times(x, Times(y, z)))
<1> DEFINE p == Product(Product(x, y), z)
<1>1. p = Product(x, Product(y, z))
  BY Parts DEF Product
<1>2. IsFraction(p) /\ IsFraction(Product(x, y)) /\ IsFraction(Product(y, z))
  BY ProductFacts
<1>3. IsFraction(Times(x, y)) /\ IsFraction(Times(y, z))
  BY TimesFacts
<1>4. IsFraction(Times(Times(x, y), z)) /\ IsFraction(Times(Product(x, y), z))
      /\ IsFraction(Times(x, Times(y, z))) /\ IsFraction(Times(x, Product(y, z)))
  BY <1>2, <1>3, TimesFacts
<1>5. Same(x, x) /\ Same(z, z)
  BY DEF Same
<1>6. Same(Times(Times(x, y), z), p)
  <2>1. Same(Times(Times(x, y), z), Times(Product(x, y), z))
    BY <1>2, <1>3, <1>5, TimesFacts, TimesOfSame
  <2>2. Same(Times(Product(x, y), z), p)
    BY <1>2, TimesFacts
  <2> HIDE DEF p
  <2>3. QED
    BY <1>2, <1>4, <2>1, <2>2, SameTransitive
<1>7. Same(Times(x, Times(y, z)), p)
  <2>1. Same(Times(x, Times(y, z)), Times(x, Product(y, z)))
    BY <1>2, <1>3, <1>5, TimesFacts, TimesOfSame
  <2>2. Same(Times(x, Product(y, z)), p)
    BY <1>1, <1>2, TimesFacts
  <2> HIDE DEF p
  <2>3. QED
    BY <1>2, <1>4, <2>1, <2>2, SameTransitive
<1> HIDE DEF p
<1>8. QED
  BY <1>2, <1>4, <1>6, <1>7, SameSymmetric, SameTransitive

\* The number one, and division, which undoes multiplication.
LEMMA WholeFacts ==
    ASSUME NEW n \in Nat
    PROVE  /\ IsFraction(Whole(n)) /\ Whole(n).n = n * Whole(n).d
           /\ n # 0 => IsPositive(Whole(n))
<1>1. 1 \in Nat \ {0}
  OBVIOUS
<1>2. /\ IsFraction(Frac(n, 1)) /\ Frac(n, 1).n * 1 = n * Frac(n, 1).d
      /\ n # 0 => IsPositive(Frac(n, 1))
  BY <1>1, FracFacts
<1>3. Frac(n, 1).n \in Nat
  BY <1>2, Parts
<1>4. QED
  BY <1>2, <1>3 DEF Whole

LEMMA AtMostOne ==
    ASSUME NEW x, IsFraction(x), x.n <= x.d
    PROVE  AtMost(x, Whole(1))
<1>1. IsFraction(Whole(1)) /\ Whole(1).n = 1 * Whole(1).d
  BY WholeFacts
<1> DEFINE w == Whole(1)
<1> HIDE DEF w
<1>2. w.n = w.d /\ w.d \in Nat /\ x.n \in Nat /\ x.d \in Nat
  BY <1>1, Parts DEF w
<1>3. x.n * w.d <= x.d * w.d
  BY <1>2, TimesKeepsOrder
<1>4. x.d * w.d = w.n * x.d
  BY <1>2
<1>5. QED
  BY <1>3, <1>4 DEF AtMost, w

LEMMA TimesOne ==
    ASSUME NEW x, IsFraction(x)
    PROVE  Same(Times(x, Whole(1)), x) /\ Same(Times(Whole(1), x), x)
<1> DEFINE w == Whole(1)
<1>1. IsFraction(w) /\ w.n = w.d
  BY WholeFacts, Parts
<1> HIDE DEF w
<1>2. Same(Product(x, w), x) /\ Same(Product(w, x), x)
  <2>1. x.n \in Nat /\ x.d \in Nat /\ w.d \in Nat /\ w.n = w.d
    BY <1>1, Parts
  <2>2. (x.n * w.d) * x.d = x.n * (x.d * w.d) /\ (w.d * x.n) * x.d = x.n * (w.d * x.d)
    BY <2>1
  <2>3. QED
    BY <2>1, <2>2 DEF Same, Product
<1>3. Same(Times(x, w), x) /\ Same(Times(w, x), x)
  BY <1>1, <1>2, TimesFacts, ProductFacts, SameTransitive
<1>4. QED
  BY <1>3 DEF w

LEMMA OverFacts ==
    ASSUME NEW x, NEW y, IsFraction(x), IsPositive(y)
    PROVE  /\ IsFraction(Over(x, y)) /\ Same(Times(Over(x, y), y), x)
           /\ IsPositive(x) => IsPositive(Over(x, y))
<1> DEFINE z == [n |-> y.d, d |-> y.n]
<1>1. IsPositive(z) /\ IsFraction(z) /\ IsFraction(y)
  BY PositiveIsFraction
<1>2. Over(x, y) = Times(x, z)
  BY DEF Over
<1>3. Same(Product(z, y), Whole(1))
  <2>1. y.d \in Nat /\ y.n \in Nat /\ Whole(1).n = Whole(1).d /\ Whole(1).d \in Nat
    BY <1>1, Parts, WholeFacts
  <2> DEFINE w == Whole(1).d
  <2> HIDE DEF w
  <2>2. (y.d * y.n) * w = w * (y.n * y.d)
    BY <2>1 DEF w
  <2>3. Product(z, y) = [n |-> y.d * y.n, d |-> y.n * y.d]
    BY DEF Product
  <2>4. QED
    BY <2>1, <2>2, <2>3 DEF Same, w
<1> HIDE DEF z
<1>4. IsFraction(Times(x, z)) /\ (IsPositive(x) => IsPositive(Times(x, z)))
  BY <1>1, TimesFacts
<1>5. Same(Times(Times(x, z), y), Times(x, Times(z, y)))
  BY <1>1, TimesAssociates
<1>6. IsFraction(Whole(1)) /\ IsFraction(Times(z, y)) /\ IsFraction(Product(z, y))
  BY <1>1, TimesFacts, ProductFacts, WholeFacts
<1>7. Same(Times(z, y), Whole(1))
  BY <1>1, <1>3, <1>6, TimesFacts, SameTransitive
<1>8. Same(Times(x, Times(z, y)), Times(x, Whole(1)))
  BY <1>6, <1>7, TimesOfSame DEF Same
<1>9. Same(Times(x, Whole(1)), x)
  BY TimesOne
<1>10. /\ IsFraction(Times(Times(x, z), y)) /\ IsFraction(Times(x, Times(z, y)))
       /\ IsFraction(Times(x, Whole(1)))
  BY <1>1, <1>4, <1>6, TimesFacts
<1>11. Same(Times(x, Times(z, y)), x)
  BY <1>8, <1>9, <1>10, SameTransitive
<1>12. Same(Times(Times(x, z), y), x)
  BY <1>5, <1>10, <1>11, SameTransitive
<1>13. QED
  BY <1>2, <1>4, <1>12

LEMMA PlusFacts ==
    ASSUME NEW x, NEW y, IsFraction(x), IsFraction(y)
    PROVE  IsFraction(Plus(x, y))
<1>1. /\ x.n \in Nat /\ y.n \in Nat /\ x.d \in Nat /\ y.d \in Nat
      /\ x.d * y.d \in Nat \ {0}
  BY Parts, NonZero
<1>2. x.n * y.d + y.n * x.d \in Nat
  BY <1>1
<1>3. QED
  BY <1>1, <1>2, FracFacts DEF Plus

LEMMA MinusFacts ==
    ASSUME NEW x, NEW y, IsFraction(x), IsFraction(y), AtMost(y, x)
    PROVE  IsFraction(Minus(x, y)) /\ AtMost(Minus(x, y), x)
<1> DEFINE p == x.n * y.d
           q == y.n * x.d
           d == x.d * y.d
           z == Frac(p - q, d)
<1>1. /\ x.n \in Nat /\ y.n \in Nat /\ x.d \in Nat /\ y.d \in Nat /\ y.d > 0
      /\ d \in Nat \ {0}
  BY Parts, NonZero
<1>2. p \in Nat /\ q \in Nat /\ q <= p
  BY <1>1 DEF AtMost
<1>3. p * x.d = x.n * d
  BY <1>1
<1>4. d = x.d * y.d
  OBVIOUS
<1> HIDE DEF p, q, d
<1>5. IsFraction(z) /\ z.n * d = (p - q) * z.d
  BY <1>1, <1>2, FracFacts
<1>6. Minus(x, y) = z
  BY DEF Minus, p, q, d
<1> HIDE DEF z
<1>7. z.n \in Nat /\ z.d \in Nat /\ z.d > 0
  BY <1>5, Parts
<1>8. (z.n * x.d) * d <= (x.n * z.d) * d
  <2>1. (p - q) * z.d <= p * z.d
    BY <1>2, <1>7, TimesKeepsOrder
  <2>2. z.n * d <= p * z.d
    BY <1>5, <2>1
  <2>3. (z.n * d) * x.d <= (p * z.d) * x.d
    <3>1. z.n * d \in Nat /\ p * z.d \in Nat
      BY <1>1, <1>2, <1>7
    <3>2. QED
      BY <1>1, <2>2, <3>1, TimesKeepsOrder
  <2>4. (z.n * d) * x.d = (z.n * x.d) * d
    BY <1>1, <1>7
  <2>5. (p * z.d) * x.d = (p * x.d) * z.d
    BY <1>1, <1>2, <1>7
  <2>6. (x.n * d) * z.d = (x.n * z.d) * d
    BY <1>1, <1>7
  <2>7. QED
    BY <1>3, <2>3, <2>4, <2>5, <2>6
<1>9. z.n * x.d \in Int /\ x.n * z.d \in Int /\ d > 0
  BY <1>1, <1>7
<1>10. z.n * x.d <= x.n * z.d
  BY <1>1, <1>8, <1>9, CancelAtMost
<1>11. QED
  BY <1>5, <1>6, <1>10 DEF AtMost

-----------------------------------------------------------------------------
(***************************************************************************)
(* The price feed.                                                         *)
(***************************************************************************)
LEMMA RateFacts ==
    ASSUME NEW p \in DOMAIN Rate
    PROVE  IsPositive(Rate[p])
BY RateAssumption DEF IsPositive

LEMMA DirectOrInverseFacts ==
    ASSUME NEW base, NEW quote, NEW r \in DirectOrInverse(base, quote)
    PROVE  /\ IsPositive(r)
           /\ \/ <<base, quote>> \in DOMAIN Rate /\ r = Rate[<<base, quote>>]
              \/ <<quote, base>> \in DOMAIN Rate /\ r = Over(Whole(1), Rate[<<quote, base>>])
<1>1. \/ <<base, quote>> \in DOMAIN Rate /\ r = Rate[<<base, quote>>]
      \/ <<quote, base>> \in DOMAIN Rate /\ r = Over(Whole(1), Rate[<<quote, base>>])
  BY DEF DirectOrInverse, Inverted
<1>2. ASSUME <<quote, base>> \in DOMAIN Rate
      PROVE  IsPositive(Over(Whole(1), Rate[<<quote, base>>]))
  <2>1. IsPositive(Rate[<<quote, base>>])
    BY <1>2, RateFacts
  <2>2. IsFraction(Whole(1)) /\ IsPositive(Whole(1))
    BY WholeFacts
  <2>3. QED
    BY <2>1, <2>2, OverFacts
<1>3. <<base, quote>> \in DOMAIN Rate => IsPositive(Rate[<<base, quote>>])
  BY RateFacts
<1>4. QED
  BY <1>1, <1>2, <1>3

LEMMA GetRateFacts ==
    ASSUME NEW base, NEW quote, NEW r \in GetRate(base, quote)
    PROVE  IsPositive(r) /\ IsFraction(r)
<1>1. \/ r = Whole(1)
      \/ r \in DirectOrInverse(base, quote)
      \/ \E x \in DirectOrInverse(base, "USD"), y \in DirectOrInverse("USD", quote) :
            r = Times(x, y)
  BY DEF GetRate
<1>2. ASSUME NEW x \in DirectOrInverse(base, "USD"), NEW y \in DirectOrInverse("USD", quote)
      PROVE  IsPositive(Times(x, y))
  <2>1. IsPositive(x) /\ IsPositive(y)
    BY DirectOrInverseFacts
  <2>2. QED
    BY <2>1, PositiveIsFraction, TimesFacts
<1>3. IsPositive(Whole(1))
  BY WholeFacts
<1>4. IsPositive(r)
  BY <1>1, <1>2, <1>3, DirectOrInverseFacts
<1>5. QED
  BY <1>4, PositiveIsFraction

(***************************************************************************)
(* The rates agree with a value V of each currency.  Then a rate, however  *)
(* it was found, is worth what it should be: r of quote is 1 of base.      *)
(***************************************************************************)
Agree(V) ==
    \A p \in DOMAIN Rate :
        IsPositive(V[p[1]]) /\ IsPositive(V[p[2]]) /\ Rate[p] = Over(V[p[1]], V[p[2]])

IsWorth(r, V, base, quote) ==
    IsPositive(V[base]) /\ IsPositive(V[quote]) /\ Same(Times(r, V[quote]), V[base])

LEMMA RowIsWorth ==
    ASSUME NEW V, Agree(V), NEW base, NEW quote, <<base, quote>> \in DOMAIN Rate
    PROVE  IsWorth(Rate[<<base, quote>>], V, base, quote)
<1>1. /\ IsPositive(V[base]) /\ IsPositive(V[quote])
      /\ Rate[<<base, quote>>] = Over(V[base], V[quote])
  BY DEF Agree
<1>2. QED
  BY <1>1, PositiveIsFraction, OverFacts DEF IsWorth

LEMMA DirectOrInverseIsWorth ==
    ASSUME NEW V, Agree(V), NEW base, NEW quote, NEW r \in DirectOrInverse(base, quote)
    PROVE  IsWorth(r, V, base, quote)
<1>1. CASE <<base, quote>> \in DOMAIN Rate /\ r = Rate[<<base, quote>>]
  BY <1>1, RowIsWorth
<1>2. CASE <<quote, base>> \in DOMAIN Rate /\ r = Over(Whole(1), Rate[<<quote, base>>])
  <2> DEFINE R == Rate[<<quote, base>>]
             one == Whole(1)
             b == V[base]
             q == V[quote]
  <2>1. IsPositive(R) /\ IsPositive(b) /\ IsPositive(q) /\ Same(Times(R, b), q)
    BY <1>2, RateFacts, RowIsWorth DEF IsWorth
  <2>2. /\ IsFraction(R) /\ IsFraction(b) /\ IsFraction(q) /\ IsFraction(one)
        /\ IsFraction(r) /\ Same(Times(r, R), one)
    BY <1>2, <2>1, PositiveIsFraction, WholeFacts, OverFacts
  <2>3. Same(Times(one, b), b)
    BY <2>2, TimesOne
  <2> HIDE DEF R, one, b, q
  <2>4. Same(Times(r, q), Times(r, Times(R, b)))
    BY <2>1, <2>2, TimesOfSame, TimesFacts, SameSymmetric DEF Same
  <2>5. Same(Times(r, Times(R, b)), Times(Times(r, R), b))
    BY <2>2, TimesAssociates, SameSymmetric
  <2>6. Same(Times(Times(r, R), b), Times(one, b))
    BY <2>2, TimesOfSame, TimesFacts DEF Same
  <2>7. /\ IsFraction(Times(r, q)) /\ IsFraction(Times(r, Times(R, b)))
        /\ IsFraction(Times(Times(r, R), b)) /\ IsFraction(Times(one, b))
    BY <2>2, TimesFacts
  <2>8. Same(Times(r, q), Times(Times(r, R), b))
    BY <2>4, <2>5, <2>7, SameTransitive
  <2>9. Same(Times(Times(r, R), b), b)
    BY <2>2, <2>3, <2>6, <2>7, SameTransitive
  <2>10. Same(Times(r, q), b)
    BY <2>2, <2>7, <2>8, <2>9, SameTransitive
  <2>11. QED
    BY <2>1, <2>10 DEF IsWorth, b, q
<1>3. QED
  BY <1>1, <1>2, DirectOrInverseFacts

\* DatabasePriceFeed.getRate: a rate found in its row, as the inverse of a
\* row, or crossed through USD is worth what the values of the two currencies
\* say, and is 1 between a currency and itself.
THEOREM GetRateIsWorth ==
    ASSUME NEW V, Agree(V), NEW base, NEW quote, NEW r \in GetRate(base, quote)
    PROVE  IF base = quote THEN r = Whole(1) ELSE IsWorth(r, V, base, quote)
<1>1. CASE base = quote
  BY <1>1 DEF GetRate
<1>2. CASE base # quote /\ r \in DirectOrInverse(base, quote)
  BY <1>2, DirectOrInverseIsWorth
<1>3. ASSUME base # quote,
             NEW x \in DirectOrInverse(base, "USD"), NEW y \in DirectOrInverse("USD", quote),
             r = Times(x, y)
      PROVE  IsWorth(r, V, base, quote)
  <2> DEFINE b == V[base]
             u == V["USD"]
             q == V[quote]
  <2>1. IsWorth(x, V, base, "USD") /\ IsWorth(y, V, "USD", quote)
    BY DirectOrInverseIsWorth
  <2>2. /\ IsPositive(b) /\ IsPositive(u) /\ IsPositive(q)
        /\ Same(Times(x, u), b) /\ Same(Times(y, q), u)
    BY <2>1 DEF IsWorth
  <2>3. /\ IsFraction(b) /\ IsFraction(u) /\ IsFraction(q)
        /\ IsFraction(x) /\ IsFraction(y)
    BY <2>2, PositiveIsFraction, DirectOrInverseFacts
  <2> HIDE DEF b, u, q
  <2>4. Same(Times(Times(x, y), q), Times(x, Times(y, q)))
    BY <2>3, TimesAssociates
  <2>5. Same(Times(x, Times(y, q)), Times(x, u))
    BY <2>2, <2>3, TimesOfSame, TimesFacts DEF Same
  <2>6. /\ IsFraction(Times(Times(x, y), q)) /\ IsFraction(Times(x, Times(y, q)))
        /\ IsFraction(Times(x, u))
    BY <2>3, TimesFacts
  <2>7. Same(Times(x, Times(y, q)), b)
    BY <2>2, <2>3, <2>5, <2>6, SameTransitive
  <2>8. Same(Times(Times(x, y), q), b)
    BY <2>3, <2>4, <2>6, <2>7, SameTransitive
  <2>9. QED
    BY <1>3, <2>2, <2>8 DEF IsWorth, b, q
<1>4. QED
  <2>1. \/ base = quote
        \/ base # quote /\ r \in DirectOrInverse(base, quote)
        \/ base # quote /\ \E x \in DirectOrInverse(base, "USD"),
                              y \in DirectOrInverse("USD", quote) : r = Times(x, y)
    BY DEF GetRate
  <2>2. QED
    BY <1>1, <1>2, <1>3, <2>1

-----------------------------------------------------------------------------
(***************************************************************************)
(* The fee policy and the quote.                                           *)
(***************************************************************************)
LEMMA SpreadFacts ==
    ASSUME NEW rail \in DOMAIN RailBps, NEW country
    PROVE  SpreadBps(rail, country) \in 0..10000
<1> DEFINE bps == RailBps[rail]
           region == IF country \in DOMAIN RegionBps THEN RegionBps[country] ELSE 0
<1>1. bps \in 0..190
  BY DEF RailBps
<1>2. region \in 0..10
  BY DEF RegionBps
<1>3. SpreadBps(rail, country) = bps + region
  BY DEF SpreadBps
<1> HIDE DEF bps, region
<1>4. bps + region \in 0..10000
  BY <1>1, <1>2
<1>5. QED
  BY <1>3, <1>4

LEMMA FixedFeeFacts ==
    ASSUME NEW rail \in DOMAIN RailBps
    PROVE  IsFraction(RailFixedFeeUsd[rail])
<1>1. \A n \in Nat, d \in Nat \ {0} : IsFraction(Frac(n, d))
  BY FracFacts
<1>2. \A n \in Nat : IsFraction(Whole(n))
  BY WholeFacts
<1>3. QED
  BY <1>1, <1>2 DEF RailBps, RailFixedFeeUsd

\* What the spread leaves of a rate.
Spread(ask) == Frac(10000 - SpreadBps(ask.rail, ask.country), 10000)

\* The spread never raises a rate.
LEMMA SpreadIsAtMostOne ==
    ASSUME NEW ask, ask.rail \in DOMAIN RailBps
    PROVE  IsFraction(Spread(ask)) /\ AtMost(Spread(ask), Whole(1))
<1> DEFINE n == 10000 - SpreadBps(ask.rail, ask.country)
<1>1. n \in Nat /\ n <= 10000
  <2> DEFINE bps == SpreadBps(ask.rail, ask.country)
  <2>1. bps \in 0..10000
    BY SpreadFacts
  <2> HIDE DEF bps
  <2>2. 10000 - bps \in Nat /\ 10000 - bps <= 10000
    BY <2>1
  <2>3. QED
    BY <2>2 DEF bps
<1>2. Spread(ask) = Frac(n, 10000)
  BY DEF Spread
<1> HIDE DEF n
<1> DEFINE z == Frac(n, 10000)
<1>3. IsFraction(z) /\ z.n * 10000 = n * z.d
  BY <1>1, FracFacts
<1> HIDE DEF z
<1>4. z.n <= z.d
  <2>1. z.n \in Nat /\ z.d \in Nat
    BY <1>3, Parts
  <2>2. n * z.d <= 10000 * z.d
    BY <1>1, <2>1, TimesKeepsOrder
  <2>3. QED
    BY <1>3, <2>1, <2>2
<1>5. AtMost(z, Whole(1))
  BY <1>3, <1>4, AtMostOne
<1>6. QED
  BY <1>2, <1>3, <1>5 DEF z

\* What a quote says, with the spot rate it was made from.
LEMMA QuoteFacts ==
    ASSUME NEW ask, ask.rail \in DOMAIN RailBps, ask.amount \in Nat,
           NEW q \in QuotesOf(ask)
    PROVE  /\ q.from = ask.from /\ q.to = ask.to
           /\ IsFraction(q.amount) /\ IsFraction(q.fee) /\ IsFraction(q.receive)
           /\ \E spot, x :
                 /\ spot \in GetRate(ask.from, ask.to)
                 /\ IsFraction(x) /\ AtMost(x, q.amount)
                 /\ q.receive = Times(x, Times(spot, Spread(ask)))
<1>1. PICK spot, usdRate, amount, fee :
          /\ spot \in GetRate(ask.from, ask.to) /\ usdRate \in GetRate("USD", ask.from)
          /\ amount = (IF ask.side = "from" THEN Whole(ask.amount)
                       ELSE Over(Whole(ask.amount), spot))
          /\ fee = FeeAmount(ask.rail, amount, usdRate)
          /\ AtMost(fee, amount)
          /\ q = [from |-> ask.from, to |-> ask.to, amount |-> amount, fee |-> fee,
                  receive |-> Times(Minus(amount, fee), Times(spot, Spread(ask)))]
  BY DEF QuotesOf, Spread
<1>2. IsPositive(spot) /\ IsFraction(spot) /\ IsPositive(usdRate) /\ IsFraction(usdRate)
  BY <1>1, GetRateFacts
<1>3. IsFraction(amount)
  BY <1>1, <1>2, WholeFacts, OverFacts
<1>4. IsFraction(fee)
  <2>1. IsFraction(Over(RailFixedFeeUsd[ask.rail], usdRate))
    BY <1>2, FixedFeeFacts, OverFacts
  <2>2. IsFraction(Frac(10, 10000))
    BY FracFacts
  <2>3. IsFraction(Times(amount, Frac(10, 10000)))
    BY <1>3, <2>2, TimesFacts
  <2>4. QED
    BY <1>1, <2>1, <2>3, PlusFacts DEF FeeAmount
<1>5. IsFraction(Minus(amount, fee)) /\ AtMost(Minus(amount, fee), amount)
  BY <1>1, <1>3, <1>4, MinusFacts
<1>6. IsFraction(Times(spot, Spread(ask)))
  <2>1. IsFraction(Spread(ask))
    BY SpreadIsAtMostOne
  <2>2. QED
    BY <1>2, <2>1, TimesFacts
<1>7. IsFraction(Times(Minus(amount, fee), Times(spot, Spread(ask))))
  BY <1>5, <1>6, TimesFacts
<1>8. QED
  BY <1>1, <1>3, <1>4, <1>5, <1>7

=============================================================================
