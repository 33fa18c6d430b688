------------------------------ MODULE TotalsProofs -----------------------------
(***************************************************************************)
(* Facts about amounts, cited by the proofs of both contracts: integer     *)
(* arithmetic, and the laws of Total, from those of Cardinality.  The      *)
(* domain of a balance need not be finite: it is enough that its units     *)
(* are, which holds of a balance that is zero everywhere and is preserved  *)
(* by every change of one holder.                                          *)
(***************************************************************************)
EXTENDS Totals, FiniteSetTheorems, FunctionTheorems, TLAPS

(***************************************************************************)
(* Integer arithmetic.                                                     *)
(***************************************************************************)
\* Products of amounts are amounts.
LEMMA ProductType ==
  ASSUME NEW a \in Nat, NEW b \in Nat
  PROVE  a * b \in Nat
  BY SMT

\* A product grows with its factors.
LEMMA ProductGrows ==
  ASSUME NEW a \in Nat, NEW b \in Nat, NEW n \in Nat, a <= b
  PROVE  a * n <= b * n
<1>1. PICK k \in Nat : b = a + k
  <2>1. b - a \in Nat /\ b = a + (b - a)
    OBVIOUS
  <2> QED
    BY <2>1
<1>2. (a + k) * n = a * n + k * n
  BY SMT
<1>3. a * n \in Nat /\ k * n \in Nat
  BY ProductType
<1> QED
  BY <1>1, <1>2, <1>3

\* A product of a sum.
LEMMA ProductOfSum ==
  ASSUME NEW a \in Nat, NEW b \in Nat, NEW c \in Nat
  PROVE  a * (b + c) = a * b + a * c
  BY SMT

\* Uint128 division rounds down, to an amount.
LEMMA QuotientType ==
  ASSUME NEW a \in Nat, NEW b \in Nat \ {0}
  PROVE  /\ a \div b \in Nat
         /\ b * (a \div b) <= a
  BY SMT

\* The quotient is the largest number of times the divisor fits.
LEMMA QuotientBound ==
  ASSUME NEW a \in Nat, NEW b \in Nat \ {0}, NEW x \in Nat, b * x <= a
  PROVE  x <= a \div b
<1>1. PICK q \in Nat : q = a \div b
  BY QuotientType
<1>2. a < b * (q + 1)
  BY <1>1, SMT
<1>3. b * x < b * (q + 1)
  <2>1. b * x \in Nat /\ b * (q + 1) \in Nat
    BY ProductType
  <2> QED
    BY <1>2, <2>1
<1>4. x < q + 1
  BY <1>3, SMT
<1> QED
  BY <1>1, <1>4

\* A quotient grows with its dividend.
LEMMA QuotientGrows ==
  ASSUME NEW a \in Nat, NEW b \in Nat, NEW n \in Nat \ {0}, a <= b
  PROVE  a \div n <= b \div n
<1>1. PICK q \in Nat : q = a \div n /\ n * q <= a
  BY QuotientType
<1>2. n * q \in Nat
  BY <1>1, ProductType
<1> QED
  BY <1>1, <1>2, QuotientBound

\* Rounding two amounts down on their own loses at most one.
LEMMA QuotientOfSum ==
  ASSUME NEW a \in Nat, NEW b \in Nat, NEW n \in Nat \ {0}
  PROVE  /\ a \div n + b \div n <= (a + b) \div n
         /\ (a + b) \div n <= a \div n + b \div n + 1
<1>1. PICK p \in Nat, q \in Nat, r \in Nat :
        p = a \div n /\ q = b \div n /\ r = (a + b) \div n
  <2>1. a + b \in Nat
    OBVIOUS
  <2>2. a \div n \in Nat /\ b \div n \in Nat /\ (a + b) \div n \in Nat
    BY <2>1, QuotientType
  <2> QED
    BY <2>2
<1>2. /\ n * p <= a /\ a < n * p + n
      /\ n * q <= b /\ b < n * q + n
      /\ n * r <= a + b
  BY <1>1, SMT
<1>3. n * (p + q) = n * p + n * q /\ n * (p + q + 2) = n * p + n * q + n + n
  BY SMT
<1>4. n * p \in Nat /\ n * q \in Nat /\ n * r \in Nat
  BY ProductType
<1>5. p + q <= r
  BY <1>1, <1>2, <1>3, <1>4, QuotientBound
<1>6. r < p + q + 2
  <2>1. SUFFICES ASSUME p + q + 2 <= r PROVE FALSE
    OBVIOUS
  <2>2. (p + q + 2) * n <= r * n
    BY <2>1, ProductGrows
  <2>3. (p + q + 2) * n = n * (p + q + 2) /\ r * n = n * r
    BY SMT
  <2> QED
    BY <1>2, <1>3, <1>4, <2>2, <2>3
<1> QED
  BY <1>1, <1>5, <1>6

\* Multiplying and dividing by the same unit is the identity.
LEMMA QuotientOfProduct ==
  ASSUME NEW a \in Nat, NEW b \in Nat \ {0}
  PROVE  (a * b) \div b = a
  BY SMT

\* Division by one is exact; any other loses less than the divisor.
LEMMA Remainder ==
  ASSUME NEW a \in Nat, NEW b \in Nat \ {0}
  PROVE  /\ a - b * (a \div b) \in Nat
         /\ a - b * (a \div b) <= b * (IF b = 1 THEN 0 ELSE 1)
  BY SMT

\* Nothing is lost of a multiple.
LEMMA QuotientOfMultiple ==
  ASSUME NEW m \in Nat, NEW b \in Nat \ {0}, m % b = 0, NEW x \in Nat
  PROVE  (m * x) \div b = (m \div b) * x
<1>1. PICK k \in Nat : k = m \div b /\ m = b * k
  BY SMT
<1>2. m * x = (k * x) * b /\ k * x \in Nat
  BY <1>1, SMT
<1> QED
  BY <1>1, <1>2, QuotientOfProduct

\* A fraction of an amount is at most the amount.
LEMMA Fraction ==
  ASSUME NEW a \in Nat, NEW b \in Nat \ {0}, NEW x \in 0 .. b
  PROVE  (a * x) \div b \in 0 .. a
<1>1. a * x <= a * b
  BY SMT
<1>2. a * x \in Nat
  BY SMT
<1> QED
  BY <1>1, <1>2, QuotientType, SMT

\* Two complementary fractions of an amount, each rounded down, do not
\* exceed it together.
LEMMA TwoFractions ==
  ASSUME NEW a \in Nat, NEW b \in Nat \ {0}, NEW x \in 0 .. b
  PROVE  (a * (b - x)) \div b + (a * x) \div b <= a
<1> DEFINE p == (a * (b - x)) \div b
           q == (a * x) \div b
<1>1. /\ a * (b - x) \in Nat /\ a * x \in Nat
      /\ a * (b - x) + a * x = a * b
  BY SMT
<1>2. /\ p \in Nat /\ b * p <= a * (b - x)
      /\ q \in Nat /\ b * q <= a * x
  BY <1>1, QuotientType
<1> HIDE DEF p, q
<1>3. b * (p + q) <= a * b
  BY <1>1, <1>2, SMT
<1>4. p + q <= a
  BY <1>2, <1>3, SMT
<1> QED
  BY <1>4 DEF p, q

(***************************************************************************)
(* Totals.                                                                 *)
(***************************************************************************)
\* What a unit is.
LEMMA UnitsElements ==
  ASSUME NEW S, NEW b \in [S -> Nat]
  PROVE  Units(b) = {x \in S \X Nat : x[2] \in 1 .. b[x[1]]}
<1>1. ASSUME NEW x, x \in Units(b)
      PROVE  x \in S \X Nat /\ x[2] \in 1 .. b[x[1]]
  <2>1. PICK h \in S : x \in {h} \X (1 .. b[h])
    BY <1>1 DEF Units
  <2>2. PICK i \in 1 .. b[h] : x = <<h, i>>
    BY <2>1
  <2> QED
    BY <2>2
<1>2. ASSUME NEW x \in S \X Nat, x[2] \in 1 .. b[x[1]]
      PROVE  x \in Units(b)
  <2>1. x \in {x[1]} \X (1 .. b[x[1]])
    BY <1>2
  <2> QED
    BY <2>1 DEF Units
<1> QED
  BY <1>1, <1>2

\* Nobody has anything: there is no unit.
LEMMA TotalOfNothing ==
  ASSUME NEW S
  PROVE  /\ IsFiniteSet(Units([h \in S |-> 0]))
         /\ Total([h \in S |-> 0]) = 0
<1> DEFINE b == [h \in S |-> 0]
<1>1. b \in [S -> Nat]
  OBVIOUS
<1>2. Units(b) = {x \in S \X Nat : x[2] \in 1 .. b[x[1]]}
  BY <1>1, UnitsElements
<1>3. \A x \in S \X Nat : x[2] \notin 1 .. b[x[1]]
  OBVIOUS
<1>4. Units(b) = {}
  BY <1>2, <1>3
<1> QED
  BY <1>4, FS_EmptySet DEF Total

\* Holders of nothing do not count.
LEMMA TotalOfHolders ==
  ASSUME NEW S, NEW T, S \subseteq T, NEW b \in [S -> Nat], NEW c \in [T -> Nat],
         \A h \in S : c[h] = b[h], \A h \in T \ S : c[h] = 0
  PROVE  Total(c) = Total(b)
<1>1. /\ Units(b) = {x \in S \X Nat : x[2] \in 1 .. b[x[1]]}
      /\ Units(c) = {x \in T \X Nat : x[2] \in 1 .. c[x[1]]}
  BY UnitsElements
<1>2. ASSUME NEW x \in T \X Nat, x[2] \in 1 .. c[x[1]]
      PROVE  x \in S \X Nat /\ x[2] \in 1 .. b[x[1]]
  BY <1>2
<1>3. ASSUME NEW x \in S \X Nat, x[2] \in 1 .. b[x[1]]
      PROVE  x \in T \X Nat /\ x[2] \in 1 .. c[x[1]]
  BY <1>3
<1>4. Units(b) = Units(c)
  BY <1>1, <1>2, <1>3
<1> QED
  BY <1>4 DEF Total

\* One holder gets n more: the total grows by n.
LEMMA TotalGrows ==
  ASSUME NEW S, NEW b \in [S -> Nat], IsFiniteSet(Units(b)),
         NEW u \in S, NEW n \in Nat, NEW c \in [S -> Nat],
         c[u] = b[u] + n, \A h \in S : h # u => c[h] = b[h]
  PROVE  /\ IsFiniteSet(Units(c))
         /\ Total(c) = Total(b) + n
<1>1. PICK m \in Nat : m = b[u]
  OBVIOUS
<1> DEFINE new == (m + 1) .. (m + n)
           more == {u} \X new
<1>2. /\ Units(b) = {x \in S \X Nat : x[2] \in 1 .. b[x[1]]}
      /\ Units(c) = {x \in S \X Nat : x[2] \in 1 .. c[x[1]]}
  BY UnitsElements
<1>3. IsFiniteSet(new) /\ Cardinality(new) = n
  <2>1. PICK low \in Int, high \in Int : low = m + 1 /\ high = m + n
    OBVIOUS
  <2>2. /\ IsFiniteSet(low .. high)
        /\ Cardinality(low .. high) = IF low > high THEN 0 ELSE high - low + 1
    BY FS_Interval
  <2> QED
    BY <2>1, <2>2
<1>4. IsFiniteSet({u}) /\ Cardinality({u}) = 1
  BY FS_Singleton
<1>5. IsFiniteSet(more) /\ Cardinality(more) = n
  <2> HIDE DEF new
  <2>1. IsFiniteSet(more) /\ Cardinality(more) = Cardinality({u}) * Cardinality(new)
    BY <1>3, <1>4, FS_Product
  <2> QED
    BY <2>1, <1>3, <1>4
<1>6. \A x : x \in more <=> x \in S \X Nat /\ x[1] = u /\ x[2] \in new
  OBVIOUS
<1>7. \A x \in S \X Nat :
        x[2] \in 1 .. c[x[1]]
          <=> x[2] \in 1 .. b[x[1]] \/ (x[1] = u /\ x[2] \in new)
  <2> SUFFICES ASSUME NEW h \in S, NEW i \in Nat
               PROVE  i \in 1 .. c[h] <=> i \in 1 .. b[h] \/ (h = u /\ i \in new)
    OBVIOUS
  <2>1. CASE h = u
    BY <1>1, <2>1
  <2>2. CASE h # u
    BY <2>2
  <2> QED
    BY <2>1, <2>2
<1>8. \A x \in Units(b) : x[1] = u => x[2] \notin new
  BY <1>1, <1>2
<1> HIDE DEF new, more
<1>9. Units(c) = Units(b) \cup more /\ Units(b) \cap more = {}
  BY <1>2, <1>6, <1>7, <1>8
<1>10. /\ IsFiniteSet(Units(b) \cup more)
       /\ Cardinality(Units(b) \cup more)
            = Cardinality(Units(b)) + Cardinality(more) - Cardinality(Units(b) \cap more)
  BY <1>5, FS_Union
<1>11. Cardinality(Units(b)) \in Nat /\ Cardinality(Units(b) \cap more) = 0
  BY <1>9, FS_CardinalityType, FS_EmptySet
<1> QED
  BY <1>5, <1>9, <1>10, <1>11 DEF Total

\* Less for every holder is less in total.
LEMMA TotalShrinks ==
  ASSUME NEW S, NEW b \in [S -> Nat], IsFiniteSet(Units(b)),
         NEW c \in [S -> Nat], \A h \in S : c[h] <= b[h]
  PROVE  IsFiniteSet(Units(c)) /\ Total(c) <= Total(b)
<1>1. /\ Units(b) = {x \in S \X Nat : x[2] \in 1 .. b[x[1]]}
      /\ Units(c) = {x \in S \X Nat : x[2] \in 1 .. c[x[1]]}
  BY UnitsElements
<1>2. ASSUME NEW h \in S, NEW i \in Nat, i \in 1 .. c[h]
      PROVE  i \in 1 .. b[h]
  <2>1. c[h] \in Nat /\ b[h] \in Nat /\ c[h] <= b[h]
    OBVIOUS
  <2> QED
    BY <1>2, <2>1
<1>3. Units(c) \in SUBSET Units(b)
  BY <1>1, <1>2
<1> QED
  BY <1>3, FS_Subset DEF Total

\* One holder's balance is set to n, whatever it was.
LEMMA TotalOfChange ==
  ASSUME NEW S, NEW b \in [S -> Nat], IsFiniteSet(Units(b)),
         NEW u \in S, NEW n \in Nat
  PROVE  LET c == [b EXCEPT ![u] = n]
         IN  /\ IsFiniteSet(Units(c))
             /\ Total(b) \in Nat
             /\ Total(c) = Total(b) + n - b[u]
<1> DEFINE c == [b EXCEPT ![u] = n]
<1>1. Total(b) \in Nat
  BY FS_CardinalityType DEF Total
<1>2. c \in [S -> Nat] /\ c[u] = n /\ \A h \in S : h # u => c[h] = b[h]
  OBVIOUS
<1>3. b[u] \in Nat
  OBVIOUS
<1> HIDE DEF c
<1> SUFFICES IsFiniteSet(Units(c)) /\ Total(c) = Total(b) + n - b[u]
  BY <1>1 DEF c
<1>4. CASE n >= b[u]
  <2>1. PICK d \in Nat : n = b[u] + d
    <3>1. n - b[u] \in Nat /\ n = b[u] + (n - b[u])
      BY <1>3, <1>4
    <3> QED
      BY <3>1
  <2>2. IsFiniteSet(Units(c)) /\ Total(c) = Total(b) + d
    BY <1>2, <2>1, TotalGrows
  <2> QED
    BY <1>1, <1>3, <2>1, <2>2
<1>5. CASE n < b[u]
  <2>1. PICK d \in Nat : b[u] = n + d
    <3>1. b[u] - n \in Nat /\ b[u] = n + (b[u] - n)
      BY <1>3, <1>5
    <3> QED
      BY <3>1
  <2>2. \A h \in S : c[h] <= b[h]
    <3>1. ASSUME NEW h \in S
          PROVE  c[h] <= b[h]
      <4>1. b[h] \in Nat
        OBVIOUS
      <4> QED
        BY <1>2, <1>5, <4>1
    <3> QED
      BY <3>1
  <2>3. IsFiniteSet(Units(c))
    BY <1>2, <2>2, TotalShrinks
  <2>4. Total(b) = Total(c) + d
    BY <1>2, <2>1, <2>3, TotalGrows
  <2>5. Total(c) \in Nat
    BY <2>3, FS_CardinalityType DEF Total
  <2> QED
    BY <2>1, <2>3, <2>4, <2>5
<1> QED
  BY <1>3, <1>4, <1>5

\* No holder has more than the total.
LEMMA HolderWithinTotal ==
  ASSUME NEW S, NEW b \in [S -> Nat], IsFiniteSet(Units(b)), NEW u \in S
  PROVE  b[u] <= Total(b)
<1> DEFINE c == [b EXCEPT ![u] = 0]
<1>1. IsFiniteSet(Units(c)) /\ Total(b) \in Nat /\ Total(c) = Total(b) + 0 - b[u]
  BY TotalOfChange
<1>2. Total(c) \in Nat
  BY <1>1, FS_CardinalityType DEF Total
<1>3. b[u] \in Nat
  OBVIOUS
<1> HIDE DEF c
<1> QED
  BY <1>1, <1>2, <1>3

\* Finitely many holders have finitely many units.
LEMMA UnitsOfFinite ==
  ASSUME NEW S, IsFiniteSet(S), NEW b \in [S -> Nat]
  PROVE  IsFiniteSet(Units(b)) /\ Total(b) \in Nat
<1> DEFINE F == [h \in S |-> {h} \X (1 .. b[h])]
           parts == {{h} \X (1 .. b[h]) : h \in DOMAIN b}
<1>1. F \in Surjection(S, parts)
  <2>1. F \in [S -> parts] /\ \A x \in parts : \E h \in S : F[h] = x
    OBVIOUS
  <2> QED
    BY <2>1, Fun_IsSurj
<1>2. IsFiniteSet(parts)
  <2> HIDE DEF F, parts
  <2> QED
    BY <1>1, FS_Surjection
<1>3. ASSUME NEW x \in parts
      PROVE  IsFiniteSet(x)
  <2>1. PICK h \in S : x = {h} \X (1 .. b[h])
    OBVIOUS
  <2>2. IsFiniteSet({h}) /\ IsFiniteSet(1 .. b[h])
    <3>1. b[h] \in Int /\ 1 \in Int
      OBVIOUS
    <3> QED
      BY <3>1, FS_Singleton, FS_Interval
  <2> QED
    BY <2>1, <2>2, FS_Product
<1>4. IsFiniteSet(UNION parts)
  <2> HIDE DEF parts
  <2> QED
    BY <1>2, <1>3, FS_UNION
<1>5. IsFiniteSet(Units(b))
  BY <1>4 DEF Units
<1> QED
  BY <1>5, FS_CardinalityType DEF Total

(***************************************************************************)
(* Totals of totals.  The members of a family of sets, each with the index *)
(* it is found at, are as many as the total of the sets' sizes.            *)
(***************************************************************************)
Members(F) == UNION {{h} \X F[h] : h \in DOMAIN F}

\* What a member is.
LEMMA MembersElements ==
  ASSUME NEW S, NEW F, DOMAIN F = S
  PROVE  \A x : x \in Members(F)
                  <=> x = <<x[1], x[2]>> /\ x[1] \in S /\ x[2] \in F[x[1]]
<1>1. ASSUME NEW x, x \in Members(F)
      PROVE  x = <<x[1], x[2]>> /\ x[1] \in S /\ x[2] \in F[x[1]]
  <2>1. PICK h \in S : x \in {h} \X F[h]
    BY <1>1 DEF Members
  <2>2. PICK y \in F[h] : x = <<h, y>>
    BY <2>1
  <2> QED
    BY <2>2
<1>2. ASSUME NEW x, x = <<x[1], x[2]>>, x[1] \in S, x[2] \in F[x[1]]
      PROVE  x \in Members(F)
  <2>1. PICK h, y : h = x[1] /\ y = x[2]
    OBVIOUS
  <2>2. x = <<h, y>> /\ h \in S /\ y \in F[h]
    BY <1>2, <2>1
  <2>3. x \in {h} \X F[h]
    BY <2>2
  <2> QED
    BY <2>2, <2>3 DEF Members
<1> QED
  BY <1>1, <1>2

\* A member for every unit of the sizes, and the other way round.
LEMMA UnitsMembers ==
  ASSUME NEW S, NEW F, DOMAIN F = S,
         \A h \in S : IsFiniteSet(F[h])
  PROVE  LET sizes == [h \in S |-> Cardinality(F[h])]
         IN  /\ sizes \in [S -> Nat]
             /\ Bijection(Units(sizes), Members(F)) # {}
<1> DEFINE c == [h \in S |-> Cardinality(F[h])]
           B == [h \in S |-> CHOOSE f : f \in Bijection(1 .. c[h], F[h])]
           G == [x \in Units(c) |-> <<x[1], B[x[1]][x[2]]>>]
<1>1. ASSUME NEW h \in S
      PROVE  /\ c[h] \in Nat
             /\ B[h] \in Bijection(1 .. c[h], F[h])
  <2>1. Cardinality(F[h]) \in Nat /\ ExistsBijection(1 .. Cardinality(F[h]), F[h])
    BY FS_CardinalityType
  <2> QED
    BY <2>1 DEF ExistsBijection
<1>2. c \in [S -> Nat]
  BY <1>1
<1> HIDE DEF c
<1>3. Units(c) = {x \in S \X Nat : x[2] \in 1 .. c[x[1]]}
  BY <1>2, UnitsElements
<1>4. \A x : x \in Members(F)
                <=> x = <<x[1], x[2]>> /\ x[1] \in S /\ x[2] \in F[x[1]]
  BY MembersElements
<1>5. ASSUME NEW h \in S
      PROVE  /\ B[h] \in [1 .. c[h] -> F[h]]
             /\ \A i, j \in 1 .. c[h] : B[h][i] = B[h][j] => i = j
             /\ \A y \in F[h] : \E i \in 1 .. c[h] : B[h][i] = y
  <2>1. B[h] \in Bijection(1 .. c[h], F[h])
    BY <1>1
  <2> HIDE DEF B
  <2>2. PICK f, X, Y : f = B[h] /\ X = 1 .. c[h] /\ Y = F[h]
    OBVIOUS
  <2>3. f \in Bijection(X, Y)
    BY <2>1, <2>2
  <2>4. /\ f \in [X -> Y]
        /\ \A i, j \in X : f[i] = f[j] => i = j
        /\ \A y \in Y : \E i \in X : f[i] = y
    BY <2>3, Fun_BijectionProperties
  <2> QED
    BY <2>2, <2>4
<1> HIDE DEF B
<1>6. G \in [Units(c) -> Members(F)]
  <2>1. ASSUME NEW x \in Units(c)
        PROVE  <<x[1], B[x[1]][x[2]]>> \in Members(F)
    <3>1. x[1] \in S /\ x[2] \in 1 .. c[x[1]]
      BY <1>3
    <3>2. B[x[1]][x[2]] \in F[x[1]]
      BY <1>5, <3>1
    <3> QED
      BY <1>4, <3>1, <3>2
  <2> QED
    BY <2>1
<1>7. \A x, y \in Units(c) : G[x] = G[y] => x = y
  <2> SUFFICES ASSUME NEW x \in Units(c), NEW y \in Units(c), G[x] = G[y]
               PROVE  x = y
    OBVIOUS
  <2>1. /\ x \in S \X Nat /\ y \in S \X Nat
        /\ x[2] \in 1 .. c[x[1]] /\ y[2] \in 1 .. c[y[1]]
    BY <1>3
  <2>2. x[1] = y[1] /\ B[x[1]][x[2]] = B[y[1]][y[2]]
    OBVIOUS
  <2>3. x[2] = y[2]
    BY <1>5, <2>1, <2>2
  <2> QED
    BY <2>1, <2>2, <2>3
<1>8. \A z \in Members(F) : \E x \in Units(c) : G[x] = z
  <2> SUFFICES ASSUME NEW z \in Members(F)
               PROVE  \E x \in Units(c) : G[x] = z
    OBVIOUS
  <2>1. z = <<z[1], z[2]>> /\ z[1] \in S /\ z[2] \in F[z[1]]
    BY <1>4
  <2>2. PICK i \in 1 .. c[z[1]] : B[z[1]][i] = z[2]
    BY <1>5, <2>1
  <2>3. <<z[1], i>> \in Units(c)
    <3>1. c[z[1]] \in Nat
      BY <1>2, <2>1
    <3> QED
      BY <1>3, <2>1, <3>1
  <2>4. G[<<z[1], i>>] = <<z[1], z[2]>>
    BY <2>2, <2>3
  <2> QED
    BY <2>1, <2>3, <2>4
<1>9. G \in Bijection(Units(c), Members(F))
  <2> HIDE DEF G
  <2> QED
    BY <1>6, <1>7, <1>8, Fun_IsBij
<1> QED
  BY <1>2, <1>9 DEF c

\* The total of the sizes is the number of members, if either is finite.
Sizes(S, F, c) ==
  /\ DOMAIN F = S /\ \A h \in S : IsFiniteSet(F[h])
  /\ c \in [S -> Nat] /\ \A h \in S : c[h] = Cardinality(F[h])

LEMMA TotalOfMembers ==
  ASSUME NEW S, NEW F, NEW c, Sizes(S, F, c),
         IsFiniteSet(Members(F)) \/ IsFiniteSet(Units(c))
  PROVE  /\ IsFiniteSet(Members(F)) /\ IsFiniteSet(Units(c))
         /\ Total(c) = Cardinality(Members(F))
<1>1. PICK f : f \in Bijection(Units(c), Members(F))
  <2>1. c = [h \in S |-> Cardinality(F[h])]
    BY DEF Sizes
  <2>2. Bijection(Units(c), Members(F)) # {}
    BY <2>1, UnitsMembers DEF Sizes
  <2> QED
    BY <2>2
<1>2. /\ ExistsBijection(Units(c), Members(F))
      /\ ExistsBijection(Members(F), Units(c))
  BY <1>1, Fun_BijInverse DEF ExistsBijection
<1> QED
  BY <1>2, FS_Bijection DEF Total

\* Two families that hold the same things, one by holder and one by kind, have
\* equally many members.
Swapped(S, R, F, G) ==
  /\ DOMAIN F = S /\ \A h \in S : F[h] \subseteq R \X Nat
  /\ DOMAIN G = R /\ \A t \in R : G[t] \subseteq S \X Nat
  /\ \A h \in S, t \in R, i \in Nat : <<t, i>> \in F[h] <=> <<h, i>> \in G[t]

LEMMA MembersSwapped ==
  ASSUME NEW S, NEW R, NEW F, NEW G, Swapped(S, R, F, G), IsFiniteSet(Members(G))
  PROVE  IsFiniteSet(Members(F)) /\ Cardinality(Members(F)) = Cardinality(Members(G))
<1> DEFINE swap == [x \in Members(G) |-> <<x[2][1], <<x[1], x[2][2]>>>>]
<1>1. /\ \A x : x \in Members(F)
                  <=> x = <<x[1], x[2]>> /\ x[1] \in S /\ x[2] \in F[x[1]]
      /\ \A x : x \in Members(G)
                  <=> x = <<x[1], x[2]>> /\ x[1] \in R /\ x[2] \in G[x[1]]
  BY MembersElements DEF Swapped
<1>2. ASSUME NEW x \in Members(F)
      PROVE  \E h \in S, t \in R, i \in Nat : x = <<h, <<t, i>>>> /\ <<t, i>> \in F[h]
  <2>1. x = <<x[1], x[2]>> /\ x[1] \in S /\ x[2] \in F[x[1]] /\ x[2] \in R \X Nat
    BY <1>1 DEF Swapped
  <2>2. PICK t \in R, i \in Nat : x[2] = <<t, i>>
    BY <2>1
  <2> QED
    BY <2>1, <2>2
<1>3. ASSUME NEW x \in Members(G)
      PROVE  \E t \in R, h \in S, i \in Nat : x = <<t, <<h, i>>>> /\ <<h, i>> \in G[t]
  <2>1. x = <<x[1], x[2]>> /\ x[1] \in R /\ x[2] \in G[x[1]] /\ x[2] \in S \X Nat
    BY <1>1 DEF Swapped
  <2>2. PICK h \in S, i \in Nat : x[2] = <<h, i>>
    BY <2>1
  <2> QED
    BY <2>1, <2>2
<1>4. ASSUME NEW h \in S, NEW t \in R, NEW i \in Nat
      PROVE  /\ <<h, <<t, i>>>> \in Members(F) <=> <<t, i>> \in F[h]
             /\ <<t, <<h, i>>>> \in Members(G) <=> <<h, i>> \in G[t]
  BY <1>1
<1>5. ASSUME NEW h \in S, NEW t \in R, NEW i \in Nat, <<h, i>> \in G[t]
      PROVE  swap[<<t, <<h, i>>>>] = <<h, <<t, i>>>>
  BY <1>4, <1>5
<1>6. swap \in [Members(G) -> Members(F)]
  <2>1. ASSUME NEW x \in Members(G)
        PROVE  swap[x] \in Members(F)
    <3>1. PICK t \in R, h \in S, i \in Nat : x = <<t, <<h, i>>>> /\ <<h, i>> \in G[t]
      BY <1>3
    <3>2. swap[x] \in Members(F)
      <4>1. swap[x] = <<h, <<t, i>>>>
        BY <1>5, <3>1
      <4>2. <<t, i>> \in F[h]
        BY <3>1 DEF Swapped
      <4> QED
        BY <1>4, <4>1, <4>2
    <3> QED
      BY <3>2
  <2> QED
    BY <2>1
<1> HIDE DEF swap
<1>7. ASSUME NEW x \in Members(G), NEW y \in Members(G), swap[x] = swap[y]
      PROVE  x = y
  <2>1. PICK t \in R, h \in S, i \in Nat : x = <<t, <<h, i>>>> /\ <<h, i>> \in G[t]
    BY <1>3
  <2>2. PICK t2 \in R, h2 \in S, i2 \in Nat :
           y = <<t2, <<h2, i2>>>> /\ <<h2, i2>> \in G[t2]
    BY <1>3
  <2>3. swap[x] = <<h, <<t, i>>>> /\ swap[y] = <<h2, <<t2, i2>>>>
    BY <1>5, <2>1, <2>2
  <2> QED
    BY <1>7, <2>1, <2>2, <2>3
<1>8. ASSUME NEW z \in Members(F)
      PROVE  \E x \in Members(G) : swap[x] = z
  <2>1. PICK h \in S, t \in R, i \in Nat : z = <<h, <<t, i>>>> /\ <<t, i>> \in F[h]
    BY <1>2
  <2>2. <<h, i>> \in G[t]
    BY <2>1 DEF Swapped
  <2> QED
    BY <1>4, <1>5, <2>1, <2>2
<1>9. swap \in Bijection(Members(G), Members(F))
  BY <1>6, <1>7, <1>8, Fun_IsBij
<1> QED
  BY <1>9, FS_Bijection DEF ExistsBijection

\* What everybody has of one kind, added up over the kinds, is what everybody
\* has of all kinds.
Crossed(S, R, f, kind) ==
  /\ f \in [S -> [R -> Nat]] /\ kind \in [R -> [S -> Nat]]
  /\ \A h \in S, t \in R : kind[t][h] = f[h][t]
  /\ \A t \in R : IsFiniteSet(Units(kind[t]))

Sums(S, f, c) ==
  c \in [S -> Nat] /\ \A h \in S : c[h] = Total(f[h])

LEMMA TotalOfTotals ==
  ASSUME NEW S, NEW R, IsFiniteSet(R), NEW f, NEW kind, Crossed(S, R, f, kind),
         NEW each, Sums(S, f, each), NEW all, Sums(R, kind, all)
  PROVE  IsFiniteSet(Units(each)) /\ Total(each) = Total(all)
<1> DEFINE F == [h \in S |-> Units(f[h])]
           G == [t \in R |-> Units(kind[t])]
<1>1. ASSUME NEW h \in S
      PROVE  /\ F[h] = {x \in R \X Nat : x[2] \in 1 .. f[h][x[1]]}
             /\ IsFiniteSet(F[h])
  BY UnitsElements, UnitsOfFinite DEF Crossed
<1>2. ASSUME NEW t \in R
      PROVE  /\ G[t] = {x \in S \X Nat : x[2] \in 1 .. kind[t][x[1]]}
             /\ IsFiniteSet(G[t])
  BY UnitsElements DEF Crossed
<1>3. Sizes(S, F, each) /\ Sizes(R, G, all)
  BY <1>1, <1>2 DEF Sizes, Sums, Total
<1>4. DOMAIN F = S /\ DOMAIN G = R
  OBVIOUS
<1> HIDE DEF F, G
<1>5. IsFiniteSet(Members(G)) /\ Total(all) = Cardinality(Members(G))
  <2>1. IsFiniteSet(Units(all))
    BY UnitsOfFinite DEF Sums
  <2> QED
    BY <1>3, <2>1, TotalOfMembers
<1>6. ASSUME NEW h \in S, NEW t \in R, NEW i \in Nat
      PROVE  <<t, i>> \in F[h] <=> <<h, i>> \in G[t]
  BY <1>1, <1>2 DEF Crossed
<1>7. /\ \A h \in S : F[h] \subseteq R \X Nat
      /\ \A t \in R : G[t] \subseteq S \X Nat
  BY <1>1, <1>2
<1>8. Swapped(S, R, F, G)
  BY <1>4, <1>6, <1>7 DEF Swapped
<1>9. IsFiniteSet(Members(F)) /\ Cardinality(Members(F)) = Cardinality(Members(G))
  BY <1>5, <1>8, MembersSwapped
<1> QED
  BY <1>3, <1>5, <1>9, TotalOfMembers

\* Everybody has k times as much: so does everybody together.
LEMMA TotalTimes ==
  ASSUME NEW S, NEW b \in [S -> Nat], IsFiniteSet(Units(b)), NEW k \in Nat,
         NEW c \in [S -> Nat], \A h \in S : c[h] = k * b[h]
  PROVE  IsFiniteSet(Units(c)) /\ Total(c) = k * Total(b)
<1> DEFINE F == [h \in S |-> (1 .. k) \X (1 .. b[h])]
           swap == [x \in (1 .. k) \X Units(b) |-> <<x[2][1], <<x[1], x[2][2]>>>>]
<1>1. ASSUME NEW n \in Nat
      PROVE  IsFiniteSet(1 .. n) /\ Cardinality(1 .. n) = n
  <2>1. 1 \in Int /\ n \in Int
    OBVIOUS
  <2>2. IsFiniteSet(1 .. n) /\ Cardinality(1 .. n) = IF 1 > n THEN 0 ELSE n - 1 + 1
    BY <2>1, FS_Interval
  <2> QED
    BY <2>2
<1>2. ASSUME NEW h \in S
      PROVE  IsFiniteSet(F[h]) /\ Cardinality(F[h]) = k * b[h]
  <2>1. b[h] \in Nat
    OBVIOUS
  <2>2. PICK X, Y : X = 1 .. k /\ Y = 1 .. b[h]
    OBVIOUS
  <2>3. /\ IsFiniteSet(X) /\ Cardinality(X) = k
        /\ IsFiniteSet(Y) /\ Cardinality(Y) = b[h]
    BY <1>1, <2>1, <2>2
  <2>4. IsFiniteSet(X \X Y) /\ Cardinality(X \X Y) = Cardinality(X) * Cardinality(Y)
    BY <2>3, FS_Product
  <2> QED
    BY <2>2, <2>3, <2>4
<1>3. DOMAIN F = S
  OBVIOUS
<1>4. Units(b) = {x \in S \X Nat : x[2] \in 1 .. b[x[1]]}
  BY UnitsElements
<1>5. \A x : x \in Members(F)
               <=> /\ x = <<x[1], x[2]>> /\ x[1] \in S
                   /\ x[2] \in (1 .. k) \X (1 .. b[x[1]])
  <2>1. \A x : x \in Members(F)
                 <=> x = <<x[1], x[2]>> /\ x[1] \in S /\ x[2] \in F[x[1]]
    <3> HIDE DEF F
    <3> QED
      BY <1>3, MembersElements
  <2> QED
    BY <2>1
<1>6. /\ IsFiniteSet((1 .. k) \X Units(b))
      /\ Cardinality((1 .. k) \X Units(b)) = k * Total(b)
  <2>1. PICK X, Y : X = 1 .. k /\ Y = Units(b)
    OBVIOUS
  <2>2. IsFiniteSet(X) /\ Cardinality(X) = k /\ IsFiniteSet(Y)
    BY <1>1, <2>1
  <2>3. IsFiniteSet(X \X Y) /\ Cardinality(X \X Y) = Cardinality(X) * Cardinality(Y)
    BY <2>2, FS_Product
  <2> QED
    BY <2>1, <2>2, <2>3 DEF Total
<1> HIDE DEF F
<1>7. swap \in Bijection((1 .. k) \X Units(b), Members(F))
  <2>1. swap \in [(1 .. k) \X Units(b) -> Members(F)]
    BY <1>4, <1>5
  <2>2. \A x, y \in (1 .. k) \X Units(b) : swap[x] = swap[y] => x = y
    BY <1>4
  <2>3. ASSUME NEW z \in Members(F)
        PROVE  \E x \in (1 .. k) \X Units(b) : swap[x] = z
    <3>1. PICK h \in S, j \in 1 .. k, i \in Nat :
             z = <<h, <<j, i>>>> /\ i \in 1 .. b[h]
      BY <1>5
    <3>2. <<j, <<h, i>>>> \in (1 .. k) \X Units(b)
      BY <1>4, <3>1
    <3>3. swap[<<j, <<h, i>>>>] = <<h, <<j, i>>>>
      BY <3>2
    <3> QED
      BY <3>1, <3>2, <3>3
  <2> HIDE DEF swap
  <2> QED
    BY <2>1, <2>2, <2>3, Fun_IsBij
<1>8. /\ IsFiniteSet(Members(F))
      /\ Cardinality(Members(F)) = k * Total(b)
  BY <1>6, <1>7, FS_Bijection DEF ExistsBijection
<1>9. Sizes(S, F, c)
  BY <1>2, <1>3 DEF Sizes
<1> QED
  BY <1>8, <1>9, TotalOfMembers

\* The total of sums is the sum of the totals.
LEMMA TotalPlus ==
  ASSUME NEW S, NEW a \in [S -> Nat], NEW b \in [S -> Nat],
         IsFiniteSet(Units(a)), IsFiniteSet(Units(b)),
         NEW c \in [S -> Nat], \A h \in S : c[h] = a[h] + b[h]
  PROVE  IsFiniteSet(Units(c)) /\ Total(c) = Total(a) + Total(b)
<1> DEFINE more == {x \in S \X Nat : x[2] \in a[x[1]] + 1 .. a[x[1]] + b[x[1]]}
           shift == [x \in Units(b) |-> <<x[1], a[x[1]] + x[2]>>]
<1>1. c \in [S -> Nat] /\ \A h \in S : c[h] = a[h] + b[h]
  OBVIOUS
<1>2. /\ Units(a) = {x \in S \X Nat : x[2] \in 1 .. a[x[1]]}
      /\ Units(b) = {x \in S \X Nat : x[2] \in 1 .. b[x[1]]}
      /\ Units(c) = {x \in S \X Nat : x[2] \in 1 .. c[x[1]]}
  BY <1>1, UnitsElements
<1>3. shift \in Bijection(Units(b), more)
  <2>1. ASSUME NEW x \in Units(b)
        PROVE  /\ shift[x] \in more
               /\ shift[x] = <<x[1], a[x[1]] + x[2]>>
    <3>1. PICK h \in S, i \in Nat : x = <<h, i>> /\ i \in 1 .. b[h]
      BY <1>2
    <3>2. a[h] \in Nat /\ b[h] \in Nat
      OBVIOUS
    <3>3. a[h] + i \in Nat /\ a[h] + i \in a[h] + 1 .. a[h] + b[h]
      BY <3>1, <3>2
    <3>4. shift[x] = <<h, a[h] + i>>
      BY <3>1
    <3> QED
      BY <3>1, <3>3, <3>4
  <2>2. shift \in [Units(b) -> more]
    BY <2>1
  <2>3. ASSUME NEW x \in Units(b), NEW y \in Units(b), shift[x] = shift[y]
        PROVE  x = y
    <3>1. PICK h \in S, i \in Nat : x = <<h, i>>
      BY <1>2
    <3>2. PICK k \in S, j \in Nat : y = <<k, j>>
      BY <1>2
    <3>3. <<h, a[h] + i>> = <<k, a[k] + j>>
      BY <2>1, <2>3, <3>1, <3>2
    <3>4. a[h] \in Nat /\ h = k /\ a[h] + i = a[h] + j
      BY <3>3
    <3>5. i = j
      BY <3>4
    <3> QED
      BY <3>1, <3>2, <3>4, <3>5
  <2>4. ASSUME NEW z \in more
        PROVE  \E x \in Units(b) : shift[x] = z
    <3>1. PICK h \in S, n \in Nat : z = <<h, n>> /\ n \in a[h] + 1 .. a[h] + b[h]
      OBVIOUS
    <3>2. a[h] \in Nat /\ b[h] \in Nat
      OBVIOUS
    <3>3. PICK i \in Nat : n = a[h] + i /\ i \in 1 .. b[h]
      <4>1. n - a[h] \in Nat /\ n = a[h] + (n - a[h]) /\ n - a[h] \in 1 .. b[h]
        BY <3>1, <3>2
      <4> QED
        BY <4>1
    <3>4. <<h, i>> \in Units(b)
      BY <1>2, <3>3
    <3> QED
      BY <3>1, <3>3, <3>4, <2>1
  <2> HIDE DEF shift, more
  <2> QED
    BY <2>2, <2>3, <2>4, Fun_IsBij
<1>4. \A h \in S, i \in Nat :
        i \in 1 .. c[h] <=> i \in 1 .. a[h] \/ i \in a[h] + 1 .. a[h] + b[h]
  <2> SUFFICES ASSUME NEW h \in S, NEW i \in Nat
               PROVE  i \in 1 .. c[h]
                        <=> i \in 1 .. a[h] \/ i \in a[h] + 1 .. a[h] + b[h]
    OBVIOUS
  <2>1. a[h] \in Nat /\ b[h] \in Nat /\ c[h] = a[h] + b[h]
    BY <1>1
  <2> QED
    BY <2>1
<1>5. \A h \in S, i \in Nat : ~(i \in 1 .. a[h] /\ i \in a[h] + 1 .. a[h] + b[h])
  <2> SUFFICES ASSUME NEW h \in S, NEW i \in Nat
               PROVE  ~(i \in 1 .. a[h] /\ i \in a[h] + 1 .. a[h] + b[h])
    OBVIOUS
  <2>1. a[h] \in Nat
    OBVIOUS
  <2> QED
    BY <2>1
<1>6. Units(c) = Units(a) \cup more
  BY <1>2, <1>4
<1>7. Units(a) \cap more = {}
  BY <1>2, <1>5
<1> HIDE DEF more
<1>8. IsFiniteSet(more) /\ Cardinality(more) = Cardinality(Units(b))
  BY <1>3, FS_Bijection DEF ExistsBijection
<1>9. /\ IsFiniteSet(Units(c))
      /\ Cardinality(Units(c))
           = Cardinality(Units(a)) + Cardinality(more) - Cardinality({})
  <2>1. PICK X, Y : X = Units(a) /\ Y = more
    OBVIOUS
  <2>2. IsFiniteSet(X) /\ IsFiniteSet(Y)
    BY <1>8, <2>1
  <2>3. /\ IsFiniteSet(X \cup Y)
        /\ Cardinality(X \cup Y) = Cardinality(X) + Cardinality(Y) - Cardinality(X \cap Y)
    BY <2>2, FS_Union
  <2> QED
    BY <1>6, <1>7, <2>1, <2>3
<1>10. /\ Cardinality({}) = 0
       /\ Cardinality(Units(a)) \in Nat /\ Cardinality(Units(b)) \in Nat
  BY FS_EmptySet, FS_CardinalityType
<1> QED
  BY <1>8, <1>9, <1>10 DEF Total

\* Everybody's share is rounded down: the shares together are no more than the
\* share of the total.
LEMMA TotalOfShares ==
  ASSUME NEW S, NEW b \in [S -> Nat], IsFiniteSet(Units(b)),
         NEW m \in Nat, NEW d \in Nat \ {0},
         NEW f \in [S -> Nat], \A h \in S : d * f[h] <= m * b[h]
  PROVE  IsFiniteSet(Units(f)) /\ d * Total(f) <= m * Total(b)
<1> DEFINE most == [h \in S |-> m * b[h]]
           scaled == [h \in S |-> d * f[h]]
<1>1. most \in [S -> Nat] /\ IsFiniteSet(Units(most)) /\ Total(most) = m * Total(b)
  <2>1. most \in [S -> Nat] /\ \A h \in S : most[h] = m * b[h]
    <3>1. \A h \in S : m * b[h] \in Nat
      BY ProductType
    <3> QED
      BY <3>1
  <2> HIDE DEF most
  <2> QED
    BY <2>1, TotalTimes
<1>2. \A h \in S : f[h] <= most[h]
  <2> SUFFICES ASSUME NEW h \in S
               PROVE  f[h] <= most[h]
    OBVIOUS
  <2>1. f[h] \in Nat /\ d * f[h] <= most[h] /\ most[h] \in Nat
    BY <1>1
  <2>2. f[h] <= d * f[h] /\ d * f[h] \in Nat
    <3>1. PICK x \in Nat : x = f[h]
      BY <2>1
    <3>2. x <= d * x /\ d * x \in Nat
      BY SMT
    <3> QED
      BY <3>1, <3>2
  <2> HIDE DEF most
  <2> QED
    BY <2>1, <2>2
<1>3. IsFiniteSet(Units(f))
  <2> HIDE DEF most
  <2> QED
    BY <1>1, <1>2, TotalShrinks
<1>4. /\ scaled \in [S -> Nat] /\ IsFiniteSet(Units(scaled))
      /\ Total(scaled) = d * Total(f)
  <2>1. scaled \in [S -> Nat] /\ \A h \in S : scaled[h] = d * f[h]
    <3>1. \A h \in S : d * f[h] \in Nat
      BY ProductType
    <3> QED
      BY <3>1
  <2> HIDE DEF scaled
  <2> QED
    BY <1>3, <2>1, TotalTimes
<1>5. \A h \in S : scaled[h] <= most[h]
  OBVIOUS
<1>6. Total(scaled) <= Total(most)
  <2> HIDE DEF most, scaled
  <2> QED
    BY <1>1, <1>4, <1>5, TotalShrinks
<1> QED
  BY <1>1, <1>3, <1>4, <1>6

(***************************************************************************)
(* A running total of what the holders in S have.                          *)
(***************************************************************************)
Counts(S, total, balances) ==
  /\ balances \in [S -> Nat]
  /\ IsFiniteSet(Units(balances))
  /\ total = Total(balances)

\* Nobody has anything.
LEMMA CountsNothing ==
  ASSUME NEW S
  PROVE  Counts(S, 0, [h \in S |-> 0])
  BY TotalOfNothing DEF Counts

\* A total stays right when it moves by what one holder's balance moves by.
LEMMA CountsAfter ==
  ASSUME NEW S, NEW total, NEW b, Counts(S, total, b), NEW u \in S, NEW n \in Nat
  PROVE  Counts(S, total + n - b[u], [b EXCEPT ![u] = n])
<1>1. b \in [S -> Nat] /\ IsFiniteSet(Units(b)) /\ total = Total(b)
  BY DEF Counts
<1>2. /\ IsFiniteSet(Units([b EXCEPT ![u] = n]))
      /\ Total([b EXCEPT ![u] = n]) = Total(b) + n - b[u]
  BY <1>1, TotalOfChange
<1>3. [b EXCEPT ![u] = n] \in [S -> Nat]
  BY <1>1
<1> QED
  BY <1>1, <1>2, <1>3 DEF Counts

\* A holder's balance is part of the total.
LEMMA CountsCovers ==
  ASSUME NEW S, NEW total, NEW b, Counts(S, total, b), NEW u \in S
  PROVE  b[u] <= total
  BY HolderWithinTotal DEF Counts
===============================================================================
