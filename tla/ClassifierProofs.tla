-------------------------- MODULE ClassifierProofs --------------------------
(***************************************************************************)
(* The two halves of the classifier, each with an invariant of its own.    *)
(*                                                                         *)
(* The classification of pictures of two levels, for all levels, all       *)
(* shares of the picture, all boxes up to the largest picture, and any     *)
(* number of dark pixels in every zone.  The rules compare fractions; each *)
(* proof multiplies them out.  The two things that are counted or searched *)
(* for are the pixels of the zones, of which it is enough to find a few    *)
(* (CenterCounts, AnnulusCounts), and the square root (RootIs).            *)
(*                                                                         *)
(* The search for the part, for pictures of any size.  A region is what a  *)
(* chain of sets ends in that each add what touches the one before; it is  *)
(* the least closed set with its first pixel (RegionIsLeast,               *)
(* RegionIsClosed), and what the fill pops is closed too.  Both are        *)
(* inductions, over sets of numbers (Inductive).                           *)
(***************************************************************************)
EXTENDS Classifier, BrightComponents, FiniteSetTheorems, SequenceTheorems,
        WellFoundedInduction, TLAPS

-----------------------------------------------------------------------------
(* Arithmetic.                                                             *)

(* A product grows with its factors.                                       *)
LEMMA TimesGrows ==
  ASSUME NEW a \in Int, NEW b \in Int, a <= b, NEW n \in Nat
  PROVE  n * a <= n * b
OBVIOUS

LEMMA SquareGrows ==
  ASSUME NEW a \in Nat, NEW b \in Nat, a <= b
  PROVE  a * a <= b * b
<1>1. a * a <= a * b
  BY TimesGrows
<1>2. b * a <= b * b
  BY TimesGrows
<1>. QED
  BY <1>1, <1>2

(* What a quotient is.                                                     *)
LEMMA Quotient ==
  ASSUME NEW a \in Int, NEW n \in Nat, n > 0
  PROVE  a \div n \in Int /\ n * (a \div n) <= a /\ a < n * (a \div n) + n
OBVIOUS

(* A quotient is above what its divisor goes into ...                      *)
LEMMA QuotientAbove ==
  ASSUME NEW a \in Int, NEW n \in Nat, n > 0, NEW k \in Int, n * k <= a
  PROVE  k <= a \div n
<1>. DEFINE q == a \div n
<1>1. q \in Int /\ a < n * q + n
  BY Quotient
<1>. HIDE DEF q
<1>2. SUFFICES ASSUME q + 1 <= k PROVE FALSE
  BY <1>1 DEF q
<1>3. n * (q + 1) <= n * k
  BY <1>1, <1>2, TimesGrows
<1>4. n * (q + 1) = n * q + n
  BY <1>1
<1>. QED
  BY <1>1, <1>3, <1>4

(* ... and it grows with what is divided.                                  *)
LEMMA QuotientGrows ==
  ASSUME NEW a \in Int, NEW b \in Int, a <= b, NEW n \in Nat, n > 0
  PROVE  a \div n <= b \div n
<1>1. a \div n \in Int /\ n * (a \div n) <= a
  BY Quotient
<1>. QED
  BY <1>1, QuotientAbove

(* A part of a whole, in k parts: one more of both is no less of it.       *)
LEMMA PartGrows ==
  ASSUME NEW m \in Nat, NEW a \in Nat, m <= a, a > 0, NEW k \in Nat
  PROVE  (k * m) \div a <= (k * (m + 1)) \div (a + 1)
<1>. DEFINE q == (k * m) \div a
<1>1. k * m \in Nat /\ k * (m + 1) \in Nat /\ k * (m + 1) = k * m + k
  OBVIOUS
<1>2. q \in Int /\ a * q <= k * m
  BY <1>1, Quotient
<1>. HIDE DEF q
<1>3. q <= k
  <2>1. k * m <= k * a
    BY TimesGrows
  <2>2. SUFFICES ASSUME k + 1 <= q PROVE FALSE
    BY <1>2
  <2>3. a * (k + 1) <= a * q
    BY <1>2, <2>2, TimesGrows
  <2>4. a * (k + 1) = k * a + a
    OBVIOUS
  <2>. QED
    BY <1>1, <1>2, <2>1, <2>3, <2>4
<1>4. (a + 1) * q = a * q + q
  BY <1>2
<1>5. (a + 1) * q <= k * (m + 1)
  <2>. DEFINE x == a * q
              y == k * m
  <2>1. x \in Int /\ y \in Nat /\ x <= y
    BY <1>1, <1>2
  <2>. HIDE DEF x, y
  <2>2. x + q <= y + k
    BY <1>2, <1>3, <2>1
  <2>3. (a + 1) * q = x + q /\ k * (m + 1) = y + k
    BY <1>1, <1>4 DEF x, y
  <2>. QED
    BY <2>2, <2>3
<1>. DEFINE v == k * (m + 1)
            n == a + 1
<1>6. v \in Int /\ n \in Nat /\ n > 0 /\ n * q <= v
  BY <1>1, <1>5
<1>. HIDE DEF v, n
<1>7. q <= v \div n
  BY <1>2, <1>6, QuotientAbove
<1>. QED
  BY <1>7 DEF q, v, n

-----------------------------------------------------------------------------
(* The pixels of a box.                                                    *)

LEMMA LesserOf ==
  ASSUME NEW i \in Int, NEW j \in Int
  PROVE  Min({i, j}) = IF i <= j THEN i ELSE j
<1>. DEFINE m == IF i <= j THEN i ELSE j
<1>1. m \in {i, j} /\ m <= i /\ m <= j
  OBVIOUS
<1>2. \A x \in {i, j} : x <= i /\ x <= j => x = m
  OBVIOUS
<1>. HIDE DEF m
<1>3. m \in {i, j} /\ \A y \in {i, j} : m <= y
  BY <1>1
<1>4. \A x \in {i, j} : (\A y \in {i, j} : x <= y) => x = m
  BY <1>2
<1>5. Min({i, j}) = m
  BY <1>3, <1>4 DEF Min
<1>. QED
  BY <1>5 DEF m

(* The shorter side.                                                       *)
LEMMA ShorterIs ==
  ASSUME NEW b \in Boxes
  PROVE  /\ b[1] \in Nat /\ b[2] \in Nat /\ b = <<b[1], b[2]>>
         /\ Shorter(b) = IF b[1] <= b[2] THEN b[1] ELSE b[2]
         /\ Shorter(b) \in 1 .. MaxImageDimension
<1>. DEFINE i == b[1]
            j == b[2]
<1>1. i \in 1 .. MaxImageDimension /\ j \in 1 .. MaxImageDimension /\ b = <<i, j>>
  BY ClassifierAssumption
<1>. HIDE DEF i, j
<1>2. i \in Nat /\ j \in Nat /\ (IF i <= j THEN i ELSE j) \in 1 .. MaxImageDimension
  BY <1>1 DEF MaxImageDimension
<1>3. Min({i, j}) = IF i <= j THEN i ELSE j
  BY <1>2, LesserOf
<1>4. Shorter(b) = IF i <= j THEN i ELSE j
  BY <1>3 DEF Shorter, i, j
<1>. QED
  BY <1>1, <1>2, <1>4 DEF i, j

(* What decides the zone of a pixel.                                       *)
Off(p, n) == 2 * p - n + 1
FromCenter(p, b) == Off(p[1], b[1]) * Off(p[1], b[1]) + Off(p[2], b[2]) * Off(p[2], b[2])

Places(b) == (0 .. b[1] - 1) \X (0 .. b[2] - 1)

(* Every zone is a finite set of pixels.                                   *)
LEMMA ZonesFinite ==
  ASSUME NEW b \in Boxes, NEW z \in Zones
  PROVE  /\ Pixels(b, z) \subseteq Places(b) /\ IsFiniteSet(Pixels(b, z))
         /\ Size[b][z] = Cardinality(Pixels(b, z)) /\ Size[b][z] \in Nat
         /\ \A p \in Places(b) :
              p \in Pixels(b, z) <=> ZoneOf(FromCenter(p, b), Shorter(b) * Shorter(b)) = z
<1>1. b[1] \in Nat /\ b[2] \in Nat
  BY ShorterIs
<1>2. IsFiniteSet(Places(b))
  <2>1. IsFiniteSet(0 .. b[1] - 1) /\ IsFiniteSet(0 .. b[2] - 1)
    <3>1. 0 \in Int /\ b[1] - 1 \in Int /\ b[2] - 1 \in Int
      BY <1>1
    <3>. QED
      BY <3>1, FS_Interval, Zenon
  <2>. QED
    BY <2>1, FS_Product, Zenon DEF Places
<1>3. Pixels(b, z) \subseteq Places(b)
  BY DEF Pixels, Places
<1>4. IsFiniteSet(Pixels(b, z))
  BY <1>2, <1>3, FS_Subset
<1>5. \A p \in Places(b) :
         p \in Pixels(b, z) <=> ZoneOf(FromCenter(p, b), Shorter(b) * Shorter(b)) = z
  BY DEF Pixels, Places, FromCenter, Off
<1>. QED
  BY <1>3, <1>4, <1>5, FS_CardinalityType DEF Size

(* The center, and the annulus.                                            *)
LEMMA ZoneLimits ==
  ASSUME NEW d \in Nat, NEW s \in Nat
  PROVE  /\ 2500 * d < 361 * s => ZoneOf(d, s) = "center"
         /\ s < 4 * d /\ 625 * d < 529 * s => ZoneOf(d, s) \in {"innerAnnulus", "outerAnnulus"}
BY DEF ZoneOf

(* What is compared are numbers.                                           *)
LEMMA DistanceNat ==
  ASSUME NEW b \in Boxes
  PROVE  Shorter(b) * Shorter(b) \in Nat /\ \A p \in Places(b) : FromCenter(p, b) \in Nat
<1>1. b[1] \in Nat /\ b[2] \in Nat /\ Shorter(b) \in Nat
  BY ShorterIs
<1>2. \A i \in Int : i * i \in Nat
  OBVIOUS
<1>3. ASSUME NEW p \in Places(b) PROVE FromCenter(p, b) \in Nat
  <2>1. p[1] \in Int /\ p[2] \in Int
    BY <1>1 DEF Places
  <2>2. Off(p[1], b[1]) \in Int /\ Off(p[2], b[2]) \in Int
    BY <1>1, <2>1 DEF Off
  <2>. QED
    BY <1>2, <2>2 DEF FromCenter
<1>. QED
  BY <1>1, <1>2, <1>3

(* Pixels that are near enough are in the center, ...                      *)
LEMMA CenterCounts ==
  ASSUME NEW b \in Boxes, NEW R \in SUBSET Places(b), NEW n \in Nat,
         IsFiniteSet(R) => n <= Cardinality(R),
         \A p \in R : 2500 * FromCenter(p, b) < 361 * (Shorter(b) * Shorter(b))
  PROVE  n <= Size[b]["center"]
<1>1. Shorter(b) * Shorter(b) \in Nat /\ \A p \in R : FromCenter(p, b) \in Nat
  BY DistanceNat
<1>2. R \subseteq Pixels(b, "center")
  BY <1>1, ZoneLimits, ZonesFinite DEF Zones
<1>3. /\ IsFiniteSet(Pixels(b, "center")) /\ Size[b]["center"] = Cardinality(Pixels(b, "center"))
  BY ZonesFinite DEF Zones
<1>4. IsFiniteSet(R) /\ Cardinality(R) \in Nat /\ Cardinality(R) <= Cardinality(Pixels(b, "center"))
      /\ Cardinality(Pixels(b, "center")) \in Nat
  BY <1>2, <1>3, FS_Subset, FS_CardinalityType
<1>. QED
  BY <1>3, <1>4

(* ... and those between the limits are in the annulus.                    *)
LEMMA AnnulusCounts ==
  ASSUME NEW b \in Boxes, NEW R \in SUBSET Places(b), NEW n \in Nat,
         IsFiniteSet(R) => n <= Cardinality(R),
         \A p \in R : /\ Shorter(b) * Shorter(b) < 4 * FromCenter(p, b)
                      /\ 625 * FromCenter(p, b) < 529 * (Shorter(b) * Shorter(b))
  PROVE  n <= OfAnnulus(Size[b])
<1>. DEFINE I == Pixels(b, "innerAnnulus")
            O == Pixels(b, "outerAnnulus")
<1>1. Shorter(b) * Shorter(b) \in Nat /\ \A p \in R : FromCenter(p, b) \in Nat
  BY DistanceNat
<1>2. R \subseteq I \cup O
  BY <1>1, ZoneLimits, ZonesFinite DEF Zones
<1>3. /\ IsFiniteSet(I) /\ IsFiniteSet(O)
      /\ Size[b]["innerAnnulus"] = Cardinality(I) /\ Size[b]["outerAnnulus"] = Cardinality(O)
  BY ZonesFinite DEF Zones
<1>. HIDE DEF I, O
<1>4. /\ IsFiniteSet(I \cup O) /\ Cardinality(I \cup O) = Cardinality(I) + Cardinality(O) - Cardinality(I \cap O)
      /\ Cardinality(I \cap O) \in Nat /\ Cardinality(I) \in Nat /\ Cardinality(O) \in Nat
  <2>1. /\ IsFiniteSet(I \cup O)
        /\ Cardinality(I \cup O) = Cardinality(I) + Cardinality(O) - Cardinality(I \cap O)
    BY <1>3, FS_Union
  <2>2. IsFiniteSet(I \cap O)
    BY <1>3, FS_Intersection
  <2>. QED
    BY <1>3, <2>1, <2>2, FS_CardinalityType
<1>5. IsFiniteSet(R) /\ Cardinality(R) \in Nat /\ Cardinality(R) <= Cardinality(I \cup O)
  BY <1>2, <1>4, FS_Subset, FS_CardinalityType
<1>. QED
  BY <1>3, <1>4, <1>5 DEF OfAnnulus

(* How many there have to be.                                              *)
Enough(b, n) == n >= 10 /\ n >= Shorter(b) \div 5

LEMMA EnoughIs ==
  ASSUME NEW b \in Boxes, Enough(b, Size[b]["center"]), Enough(b, OfAnnulus(Size[b]))
  PROVE  EnoughSamples(b)
<1>. DEFINE m == Max({10, Shorter(b) \div 5})
<1>1. Shorter(b) \div 5 \in Int
  BY ShorterIs
<1>2. m \in {10, Shorter(b) \div 5}
  <2>. DEFINE q == Shorter(b) \div 5
  <2>. HIDE DEF q
  <2>1. q \in Int
    BY <1>1 DEF q
  <2>2. \E x \in {10, q} : \A y \in {10, q} : x >= y
    BY <2>1
  <2>. QED
    BY <2>2 DEF Max, q
<1>3. Size[b]["center"] >= m /\ OfAnnulus(Size[b]) >= m
  BY <1>2 DEF Enough
<1>. QED
  BY <1>3 DEF EnoughSamples

-----------------------------------------------------------------------------
(* Large boxes: a rectangle of pixels fits in each zone.                   *)

(* A number between -h and h has no larger square.                         *)
LEMMA SquareWithin ==
  ASSUME NEW u \in Int, NEW h \in Nat, -h <= u, u <= h
  PROVE  u * u \in Nat /\ u * u <= h * h
<1>1. CASE u >= 0
  BY <1>1, SquareGrows
<1>2. CASE u < 0
  <2>1. -u \in Nat /\ -u <= h /\ (-u) * (-u) = u * u
    BY <1>2
  <2>. QED
    BY <2>1, SquareGrows
<1>. QED
  BY <1>1, <1>2

(* The pixels of a rectangle, given by where it begins and by its sides.   *)
Rectangles == Int \X Int \X Nat \X Nat
Rectangle(r) == (r[1] .. r[1] + r[3] - 1) \X (r[2] .. r[2] + r[4] - 1)

LEMMA RectangleCounts ==
  ASSUME NEW r \in Rectangles
  PROVE  IsFiniteSet(Rectangle(r)) /\ Cardinality(Rectangle(r)) = r[3] * r[4]
<1>1. ASSUME NEW i \in Int, NEW n \in Nat
      PROVE  IsFiniteSet(i .. i + n - 1) /\ Cardinality(i .. i + n - 1) = n
  <2>1. i + n - 1 \in Int
    OBVIOUS
  <2>2. /\ IsFiniteSet(i .. i + n - 1)
        /\ Cardinality(i .. i + n - 1) = IF i > i + n - 1 THEN 0 ELSE (i + n - 1) - i + 1
    BY <2>1, FS_Interval, Zenon
  <2>. QED
    BY <2>2
<1>. DEFINE X == r[1] .. r[1] + r[3] - 1
            Y == r[2] .. r[2] + r[4] - 1
<1>2. r[1] \in Int /\ r[2] \in Int /\ r[3] \in Nat /\ r[4] \in Nat
  BY DEF Rectangles
<1>3. IsFiniteSet(X) /\ Cardinality(X) = r[3] /\ IsFiniteSet(Y) /\ Cardinality(Y) = r[4]
  BY <1>1, <1>2
<1>. HIDE DEF X, Y
<1>4. IsFiniteSet(X \X Y) /\ Cardinality(X \X Y) = Cardinality(X) * Cardinality(Y)
  BY <1>3, FS_Product
<1>. QED
  BY <1>3, <1>4 DEF X, Y, Rectangle

(* A run of h pixels in the middle of n.                                   *)
LEMMA Middle ==
  ASSUME NEW n \in Nat, NEW h \in Nat, h <= n, NEW p \in (n - h) \div 2 .. (n - h) \div 2 + h - 1
  PROVE  p \in 0 .. n - 1 /\ -h <= Off(p, n) /\ Off(p, n) <= h
<1>. DEFINE x == (n - h) \div 2
<1>1. x \in Int /\ 2 * x <= n - h /\ n - h < 2 * x + 2
  BY Quotient
<1>. HIDE DEF x
<1>2. p \in Int /\ x <= p /\ p <= x + h - 1
  BY <1>1 DEF x
<1>. QED
  BY <1>1, <1>2 DEF Off

(* A run of w pixels on the right, beyond half the radius.                 *)
LEMMA Right ==
  ASSUME NEW n \in Nat, NEW s \in Nat, 16 <= s, s <= n,
         NEW w \in Nat, 16 * w <= 3 * s,
         NEW p \in (s + 2 * n - 2) \div 4 + 1 .. (s + 2 * n - 2) \div 4 + w
  PROVE  p \in 0 .. n - 1 /\ s < 2 * Off(p, n) /\ 8 * Off(p, n) <= 7 * s
<1>. DEFINE x == (s + 2 * n - 2) \div 4
<1>1. x \in Int /\ 4 * x <= s + 2 * n - 2 /\ s + 2 * n - 2 < 4 * x + 4
  BY Quotient
<1>. HIDE DEF x
<1>2. p \in Int /\ x + 1 <= p /\ p <= x + w
  BY <1>1 DEF x
<1>. QED
  BY <1>1, <1>2 DEF Off

(* A quarter of the side: its square, and enough of it.                    *)
LEMMA Quarter ==
  ASSUME NEW s \in Nat, 16 <= s, NEW h \in Nat, h = s \div 4
  PROVE  4 <= h /\ 4 * h <= s /\ s < 4 * h + 4 /\ 16 * (h * h) <= s * s
<1>1. 4 * h <= s /\ s < 4 * h + 4
  BY Quotient
<1>2. 4 <= h
  BY <1>1
<1>3. (4 * h) * (4 * h) <= s * s
  BY <1>1, SquareGrows
<1>4. (4 * h) * (4 * h) = 16 * (h * h)
  OBVIOUS
<1>. QED
  BY <1>1, <1>2, <1>3, <1>4

LEMMA LargeCenter ==
  ASSUME NEW b \in Boxes, 16 <= Shorter(b)
  PROVE  Enough(b, Size[b]["center"])
<1>. DEFINE s == Shorter(b)
            h == s \div 4
            x == (b[1] - h) \div 2
            y == (b[2] - h) \div 2
            R == Rectangle(<<x, y, h, h>>)
<1>1. b[1] \in Nat /\ b[2] \in Nat /\ s \in Nat /\ s <= b[1] /\ s <= b[2] /\ 16 <= s
  BY ShorterIs
<1>2. h \in Nat
  BY <1>1
<1>3. 4 <= h /\ 4 * h <= s /\ s < 4 * h + 4 /\ 16 * (h * h) <= s * s
  BY <1>1, <1>2, Quarter
<1>4. h <= b[1] /\ h <= b[2] /\ x \in Int /\ y \in Int
  BY <1>1, <1>2, <1>3
<1>. HIDE DEF h
<1>5. ASSUME NEW p \in R
      PROVE  p \in Places(b) /\ 2500 * FromCenter(p, b) < 361 * (s * s)
  <2>1. /\ p = <<p[1], p[2]>>
        /\ p[1] \in 0 .. b[1] - 1 /\ -h <= Off(p[1], b[1]) /\ Off(p[1], b[1]) <= h
        /\ p[2] \in 0 .. b[2] - 1 /\ -h <= Off(p[2], b[2]) /\ Off(p[2], b[2]) <= h
    BY <1>1, <1>2, <1>4, Middle DEF Rectangle
  <2>. DEFINE u == Off(p[1], b[1])
              v == Off(p[2], b[2])
  <2>2. u \in Int /\ v \in Int
    BY <1>1, <2>1 DEF Off
  <2>. HIDE DEF u, v
  <2>3. u * u \in Nat /\ v * v \in Nat /\ u * u <= h * h /\ v * v <= h * h
    BY <1>2, <2>1, <2>2, SquareWithin DEF u, v
  <2>4. h * h \in Nat /\ s * s \in Nat /\ 0 < h * h
    <3>1. 4 * 4 <= h * h
      BY <1>2, <1>3, SquareGrows
    <3>. QED
      BY <1>1, <1>2, <3>1
  <2>5. 2500 * (u * u + v * v) < 361 * (s * s)
    BY <1>3, <2>3, <2>4
  <2>. QED
    BY <2>1, <2>5 DEF u, v, FromCenter, Places
<1>6. Cardinality(R) = h * h
  <2>1. <<x, y, h, h>> \in Rectangles
    BY <1>2, <1>4 DEF Rectangles
  <2>. QED
    BY <2>1, RectangleCounts
<1>. HIDE DEF R
<1>7. h * h \in Nat /\ h * h <= Size[b]["center"]
  <2>1. h * h \in Nat
    BY <1>2
  <2>. QED
    BY <1>5, <1>6, <2>1, CenterCounts
<1>8. 4 * h <= h * h
  BY <1>2, <1>3, TimesGrows
<1>9. 10 <= h * h /\ s \div 5 <= h * h
  BY <1>1, <1>2, <1>3, <1>7, <1>8
<1>10. Size[b]["center"] \in Nat /\ s \div 5 \in Int
  BY <1>1, ZonesFinite DEF Zones
<1>. QED
  BY <1>7, <1>9, <1>10 DEF Enough

LEMMA LargeAnnulus ==
  ASSUME NEW b \in Boxes, 16 <= Shorter(b)
  PROVE  Enough(b, OfAnnulus(Size[b]))
<1>. DEFINE s == Shorter(b)
            h == s \div 4
            w == (3 * s) \div 16
            x == (s + 2 * b[1] - 2) \div 4 + 1
            y == (b[2] - h) \div 2
            R == Rectangle(<<x, y, w, h>>)
<1>1. b[1] \in Nat /\ b[2] \in Nat /\ s \in Nat /\ s <= b[1] /\ s <= b[2] /\ 16 <= s
  BY ShorterIs
<1>2. h \in Nat /\ w \in Nat
  BY <1>1
<1>3. 4 <= h /\ 4 * h <= s /\ s < 4 * h + 4 /\ 16 * (h * h) <= s * s
  BY <1>1, <1>2, Quarter
<1>4. 3 <= w /\ 16 * w <= 3 * s
  BY <1>1, Quotient
<1>5. h <= b[2] /\ x \in Int /\ y \in Int
  BY <1>1, <1>2, <1>3
<1>. HIDE DEF h, w
<1>6. ASSUME NEW p \in R
      PROVE  p \in Places(b) /\ s * s < 4 * FromCenter(p, b) /\ 625 * FromCenter(p, b) < 529 * (s * s)
  <2>1. p = <<p[1], p[2]>> /\ p[1] \in x .. x + w - 1 /\ p[2] \in y .. y + h - 1
    BY DEF Rectangle
  <2>2. p[2] \in 0 .. b[2] - 1 /\ -h <= Off(p[2], b[2]) /\ Off(p[2], b[2]) <= h
    BY <1>1, <1>2, <1>5, <2>1, Middle
  <2>3. p[1] \in 0 .. b[1] - 1 /\ s < 2 * Off(p[1], b[1]) /\ 8 * Off(p[1], b[1]) <= 7 * s
    <3>1. p[1] \in (s + 2 * b[1] - 2) \div 4 + 1 .. (s + 2 * b[1] - 2) \div 4 + w
      BY <1>1, <1>2, <2>1
    <3>. QED
      BY <1>1, <1>2, <1>4, <3>1, Right
  <2>. DEFINE u == Off(p[1], b[1])
              v == Off(p[2], b[2])
  <2>4. u \in Int /\ v \in Int
    BY <1>1, <2>2, <2>3 DEF Off
  <2>. HIDE DEF u, v
  <2>5. v * v \in Nat /\ v * v <= h * h
    BY <1>2, <2>2, <2>4, SquareWithin DEF v
  <2>6. s * s < 4 * (u * u) /\ 64 * (u * u) <= 49 * (s * s) /\ u * u \in Nat
    <3>1. u \in Nat /\ s + 1 <= 2 * u /\ 8 * u <= 7 * s
      BY <1>1, <2>3, <2>4 DEF u
    <3>2. (s + 1) * (s + 1) <= (2 * u) * (2 * u) /\ (8 * u) * (8 * u) <= (7 * s) * (7 * s)
      BY <1>1, <3>1, SquareGrows
    <3>3. /\ (s + 1) * (s + 1) = s * s + 2 * s + 1 /\ (2 * u) * (2 * u) = 4 * (u * u)
          /\ (8 * u) * (8 * u) = 64 * (u * u) /\ (7 * s) * (7 * s) = 49 * (s * s)
      BY <1>1, <3>1
    <3>4. u * u \in Nat /\ s * s \in Nat
      BY <1>1, <3>1
    <3>. QED
      BY <1>1, <3>2, <3>3, <3>4
  <2>7. h * h \in Nat /\ s * s \in Nat /\ 0 < s * s
    <3>1. 16 * 16 <= s * s
      BY <1>1, SquareGrows
    <3>. QED
      BY <1>1, <1>2, <3>1
  <2>8. s * s < 4 * (u * u + v * v) /\ 625 * (u * u + v * v) < 529 * (s * s)
    BY <1>3, <2>5, <2>6, <2>7
  <2>. QED
    BY <2>1, <2>2, <2>3, <2>8 DEF u, v, FromCenter, Places
<1>7. Cardinality(R) = w * h
  <2>1. <<x, y, w, h>> \in Rectangles
    BY <1>2, <1>5 DEF Rectangles
  <2>. QED
    BY <2>1, RectangleCounts
<1>. HIDE DEF R
<1>8. w * h \in Nat /\ w * h <= OfAnnulus(Size[b])
  <2>1. w * h \in Nat
    BY <1>2
  <2>. QED
    BY <1>6, <1>7, <2>1, AnnulusCounts
<1>9. 3 * h <= w * h
  <2>1. h * 3 <= h * w
    BY <1>2, <1>4, TimesGrows
  <2>. QED
    BY <1>2, <2>1
<1>10. 10 <= w * h /\ s \div 5 <= w * h
  BY <1>1, <1>2, <1>3, <1>8, <1>9
<1>11. OfAnnulus(Size[b]) \in Nat /\ s \div 5 \in Int
  BY <1>1, ZonesFinite DEF Zones, OfAnnulus
<1>. QED
  BY <1>8, <1>10, <1>11 DEF Enough

-----------------------------------------------------------------------------
(* Small boxes: two rectangles of pixels, given by their offsets from the  *)
(* middle, fit in each zone.                                               *)

(* What is enough in a small box.                                          *)
LEMMA SmallBox ==
  ASSUME NEW b \in Boxes, 10 <= Shorter(b), Shorter(b) <= 15
  PROVE  /\ b[1] \in Nat /\ b[2] \in Nat /\ 10 <= b[1] /\ 10 <= b[2]
         /\ Shorter(b) \in Nat /\ Shorter(b) <= b[1] /\ Shorter(b) <= b[2]
         /\ b[1] \div 2 \in Int /\ b[2] \div 2 \in Int
         /\ \A k \in Nat : 10 <= k => Enough(b, k)
<1>1. b[1] \in Nat /\ b[2] \in Nat /\ Shorter(b) \in Nat /\ Shorter(b) <= b[1] /\ Shorter(b) <= b[2]
  BY ShorterIs
<1>2. Shorter(b) \div 5 \in Int /\ Shorter(b) \div 5 <= 10
  BY <1>1
<1>. QED
  BY <1>1, <1>2 DEF Enough

(* The offsets of ten pixels.                                              *)
Ten(E) == E \subseteq (-5 .. 4) \X (-5 .. 4) /\ IsFiniteSet(E) /\ 10 <= Cardinality(E)

LEMMA RectangleWithin ==
  ASSUME NEW r \in Rectangles,
         -5 <= r[1], r[1] + r[3] <= 5, -5 <= r[2], r[2] + r[4] <= 5
  PROVE  Rectangle(r) \subseteq (-5 .. 4) \X (-5 .. 4)
<1>1. r[1] .. r[1] + r[3] - 1 \subseteq -5 .. 4
  BY DEF Rectangles
<1>2. r[2] .. r[2] + r[4] - 1 \subseteq -5 .. 4
  BY DEF Rectangles
<1>. QED
  BY <1>1, <1>2, Zenon DEF Rectangle

(* The two rectangles lie one after the other, or one below the other.     *)
LEMMA TwoRectangles ==
  ASSUME NEW r \in Rectangles, NEW t \in Rectangles,
         -5 <= r[1], r[1] + r[3] <= 5, -5 <= r[2], r[2] + r[4] <= 5,
         -5 <= t[1], t[1] + t[3] <= 5, -5 <= t[2], t[2] + t[4] <= 5,
         r[1] + r[3] <= t[1] \/ r[2] + r[4] <= t[2],
         10 <= r[3] * r[4] + t[3] * t[4]
  PROVE  Ten(Rectangle(r) \cup Rectangle(t))
<1>. DEFINE A == Rectangle(r)
            B == Rectangle(t)
<1>1. /\ IsFiniteSet(A) /\ Cardinality(A) = r[3] * r[4]
      /\ IsFiniteSet(B) /\ Cardinality(B) = t[3] * t[4]
  BY RectangleCounts
<1>2. A \cap B = {}
  BY DEF Rectangle, Rectangles
<1>3. A \subseteq (-5 .. 4) \X (-5 .. 4) /\ B \subseteq (-5 .. 4) \X (-5 .. 4)
  BY RectangleWithin
<1>. HIDE DEF A, B
<1>4. /\ IsFiniteSet(A \cup B)
      /\ Cardinality(A \cup B) = Cardinality(A) + Cardinality(B) - Cardinality(A \cap B)
  BY <1>1, FS_Union
<1>5. Cardinality(A \cap B) = 0
  BY <1>2, FS_EmptySet
<1>6. r[3] \in Nat /\ r[4] \in Nat /\ t[3] \in Nat /\ t[4] \in Nat
  BY DEF Rectangles
<1>. QED
  BY <1>1, <1>3, <1>4, <1>5, <1>6 DEF Ten, A, B

(* A pixel a few from the middle of a side.                                *)
LEMMA Near ==
  ASSUME NEW n \in Nat, 10 <= n, NEW e \in -5 .. 4
  PROVE  /\ n \div 2 + e \in 0 .. n - 1
         /\ n % 2 = 0 => Off(n \div 2 + e, n) = 2 * e + 1
         /\ n % 2 # 0 => Off(n \div 2 + e, n) = 2 * e
<1>. DEFINE m == n \div 2
<1>1. m \in Int /\ n = 2 * m + (n % 2) /\ n % 2 \in 0 .. 1
  OBVIOUS
<1>. HIDE DEF m
<1>2. m + e \in 0 .. n - 1
  BY <1>1
<1>3. Off(m + e, n) = 2 * e + 1 - (n % 2)
  BY <1>1 DEF Off
<1>. QED
  BY <1>1, <1>2, <1>3 DEF m

(* Twice the offset from the center, by the parity of the side.            *)
Twice(e, n) == IF n % 2 = 0 THEN 2 * e + 1 ELSE 2 * e

(* The square of that from the center.                                     *)
Distance(e, b) == Twice(e[1], b[1]) * Twice(e[1], b[1]) + Twice(e[2], b[2]) * Twice(e[2], b[2])

(* Ten offsets give ten pixels.                                            *)
LEMMA TenPixels ==
  ASSUME NEW b \in Boxes, 10 <= Shorter(b), Shorter(b) <= 15, NEW E, Ten(E)
  PROVE  \E R \in SUBSET Places(b) :
           /\ IsFiniteSet(R) => 10 <= Cardinality(R)
           /\ \A p \in R : \E e \in E :
                FromCenter(p, b) = Distance(e, b)
<1>. DEFINE At(e) == <<b[1] \div 2 + e[1], b[2] \div 2 + e[2]>>
            R == {At(e) : e \in E}
            f == [e \in E |-> At(e)]
<1>1. /\ b[1] \in Nat /\ b[2] \in Nat /\ 10 <= b[1] /\ 10 <= b[2]
      /\ b[1] \div 2 \in Int /\ b[2] \div 2 \in Int
  BY SmallBox
<1>2. E \subseteq (-5 .. 4) \X (-5 .. 4) /\ IsFiniteSet(E) /\ 10 <= Cardinality(E)
  BY DEF Ten
<1>3. ASSUME NEW e \in E
      PROVE  /\ At(e) \in Places(b)
             /\ FromCenter(At(e), b) = Distance(e, b)
  <2>1. e[1] \in -5 .. 4 /\ e[2] \in -5 .. 4
    BY <1>2
  <2>2. /\ b[1] \div 2 + e[1] \in 0 .. b[1] - 1 /\ b[2] \div 2 + e[2] \in 0 .. b[2] - 1
        /\ Off(b[1] \div 2 + e[1], b[1]) = Twice(e[1], b[1])
        /\ Off(b[2] \div 2 + e[2], b[2]) = Twice(e[2], b[2])
    BY <1>1, <2>1, Near DEF Twice
  <2>. QED
    BY <2>2 DEF Places, FromCenter, Distance
<1>4. R \in SUBSET Places(b)
  BY <1>3
<1>5. ASSUME IsFiniteSet(R) PROVE 10 <= Cardinality(R)
  <2>1. f \in [E -> R]
    OBVIOUS
  <2>2. ASSUME NEW d \in E, NEW e \in E, f[d] = f[e] PROVE d = e
    <3>1. /\ d = <<d[1], d[2]>> /\ d[1] \in Int /\ d[2] \in Int
          /\ e = <<e[1], e[2]>> /\ e[1] \in Int /\ e[2] \in Int
      BY <1>2
    <3>2. At(d) = At(e)
      BY <2>2
    <3>. QED
      BY <1>1, <3>1, <3>2
  <2>. HIDE DEF f, R
  <2>3. f \in Injection(E, R)
    BY <2>1, <2>2 DEF Injection, IsInjective
  <2>4. Cardinality(E) <= Cardinality(R)
    BY <1>5, <2>3, FS_Injection
  <2>5. Cardinality(E) \in Nat /\ Cardinality(R) \in Nat
    BY <1>2, <1>5, FS_CardinalityType
  <2>. QED
    BY <1>2, <2>4, <2>5
<1>6. \A p \in R : \E e \in E :
         FromCenter(p, b) = Distance(e, b)
  BY <1>3
<1>. QED
  BY <1>4, <1>5, <1>6

LEMMA CenterOfTen ==
  ASSUME NEW b \in Boxes, 10 <= Shorter(b), Shorter(b) <= 15, NEW E, Ten(E),
         \A e \in E : 2500 * Distance(e, b) < 361 * (Shorter(b) * Shorter(b))
  PROVE  Enough(b, Size[b]["center"])
<1>1. PICK R \in SUBSET Places(b) :
             /\ IsFiniteSet(R) => 10 <= Cardinality(R)
             /\ \A p \in R : \E e \in E :
                  FromCenter(p, b) = Distance(e, b)
  BY TenPixels
<1>2. \A p \in R : 2500 * FromCenter(p, b) < 361 * (Shorter(b) * Shorter(b))
  BY <1>1
<1>3. 10 \in Nat
  OBVIOUS
<1>4. 10 <= Size[b]["center"]
  BY <1>1, <1>2, <1>3, CenterCounts
<1>5. Size[b]["center"] \in Nat
  BY ZonesFinite DEF Zones
<1>. QED
  BY <1>4, <1>5, SmallBox

LEMMA AnnulusOfTen ==
  ASSUME NEW b \in Boxes, 10 <= Shorter(b), Shorter(b) <= 15, NEW E, Ten(E),
         \A e \in E :
            /\ Shorter(b) * Shorter(b) < 4 * Distance(e, b)
            /\ 625 * Distance(e, b) < 529 * (Shorter(b) * Shorter(b))
  PROVE  Enough(b, OfAnnulus(Size[b]))
<1>1. PICK R \in SUBSET Places(b) :
             /\ IsFiniteSet(R) => 10 <= Cardinality(R)
             /\ \A p \in R : \E e \in E :
                  FromCenter(p, b) = Distance(e, b)
  BY TenPixels
<1>2. \A p \in R : /\ Shorter(b) * Shorter(b) < 4 * FromCenter(p, b)
                   /\ 625 * FromCenter(p, b) < 529 * (Shorter(b) * Shorter(b))
  BY <1>1
<1>3. 10 \in Nat
  OBVIOUS
<1>4. 10 <= OfAnnulus(Size[b])
  BY <1>1, <1>2, <1>3, AnnulusCounts
<1>5. OfAnnulus(Size[b]) \in Nat
  BY ZonesFinite DEF Zones, OfAnnulus
<1>. QED
  BY <1>4, <1>5, SmallBox

(* Small squares.                                                          *)
LEMMA SmallSquares ==
  ASSUME NEW u \in Int
  PROVE  /\ u * u \in Nat
         /\ -1 <= u /\ u <= 1 => u * u <= 1
         /\ -2 <= u /\ u <= 2 => u * u <= 4
         /\ -3 <= u /\ u <= 3 => u * u <= 9
         /\ -4 <= u /\ u <= 4 => u * u <= 16
         /\ -5 <= u /\ u <= 5 => u * u <= 25
         /\ u = 7 \/ u = -7 => u * u = 49
         /\ u = 8 \/ u = -8 => u * u = 64
         /\ u = 9 \/ u = -9 => u * u = 81
<1>1. \A h \in Nat : -h <= u /\ u <= h => u * u <= h * h
  BY SquareWithin
<1>2. u * u \in Nat
  OBVIOUS
<1>. QED
  BY <1>1, <1>2

(* The square of the shorter side.                                         *)
LEMMA SmallSide ==
  ASSUME NEW b \in Boxes, 10 <= Shorter(b), Shorter(b) <= 15
  PROVE  /\ Shorter(b) * Shorter(b) \in 100 .. 225
         /\ 11 <= Shorter(b) => 121 <= Shorter(b) * Shorter(b)
         /\ 14 <= Shorter(b) => 196 <= Shorter(b) * Shorter(b)
         /\ Shorter(b) <= 13 => Shorter(b) * Shorter(b) <= 169
<1>1. Shorter(b) \in Nat
  BY SmallBox
<1>. QED
  BY <1>1, SquareGrows

LEMMA SmallCenter ==
  ASSUME NEW b \in Boxes, 10 <= Shorter(b), Shorter(b) <= 15
  PROVE  Enough(b, Size[b]["center"])
<1>1. b[1] \in Nat /\ b[2] \in Nat /\ Shorter(b) \in Nat /\ Shorter(b) <= b[1] /\ Shorter(b) <= b[2]
      /\ 10 <= Shorter(b) /\ Shorter(b) <= 15 /\ Shorter(b) \in {b[1], b[2]}
  BY SmallBox, ShorterIs
<1>2. CASE b[1] % 2 = 0
  <2>. DEFINE r == <<-2, -1, 4, 2>>
              t == <<-1, 1, 2, 1>>
              E == Rectangle(r) \cup Rectangle(t)
  <2>1. r \in Rectangles /\ t \in Rectangles
    BY DEF Rectangles
  <2>2. Ten(E)
    BY <2>1, TwoRectangles
  <2>3. ASSUME NEW e \in E
        PROVE  2500 * Distance(e, b) < 361 * (Shorter(b) * Shorter(b))
    <3>. DEFINE u == Twice(e[1], b[1])
                v == Twice(e[2], b[2])
    <3>1. /\ e[1] \in Int /\ e[2] \in Int
          /\ \/ -2 <= e[1] /\ e[1] <= 1 /\ -1 <= e[2] /\ e[2] <= 0
             \/ -1 <= e[1] /\ e[1] <= 0 /\ 1 <= e[2] /\ e[2] <= 1
      BY DEF Rectangle
    <3>2. u \in Int /\ v \in Int /\ ((-3 <= u /\ u <= 3 /\ -2 <= v /\ v <= 2) \/ (-1 <= u /\ u <= 1 /\ -3 <= v /\ v <= 3))
      BY <1>1, <1>2, <3>1 DEF Twice
    <3>. HIDE DEF u, v, Distance
    <3>3. u * u + v * v <= 13
      BY <3>2, SmallSquares
    <3>4. u * u \in Nat /\ v * v \in Nat
      BY <3>2, SmallSquares
    <3>. QED
      BY <1>1, <1>2, <3>3, <3>4, SmallSide DEF u, v, Distance
  <2>. HIDE DEF E
  <2>. QED
    BY <1>1, <2>2, <2>3, CenterOfTen
<1>3. CASE b[2] % 2 = 0
  <2>. DEFINE r == <<-1, -2, 2, 4>>
              t == <<1, -1, 1, 2>>
              E == Rectangle(r) \cup Rectangle(t)
  <2>1. r \in Rectangles /\ t \in Rectangles
    BY DEF Rectangles
  <2>2. Ten(E)
    BY <2>1, TwoRectangles
  <2>3. ASSUME NEW e \in E
        PROVE  2500 * Distance(e, b) < 361 * (Shorter(b) * Shorter(b))
    <3>. DEFINE u == Twice(e[1], b[1])
                v == Twice(e[2], b[2])
    <3>1. /\ e[1] \in Int /\ e[2] \in Int
          /\ \/ -1 <= e[1] /\ e[1] <= 0 /\ -2 <= e[2] /\ e[2] <= 1
             \/ 1 <= e[1] /\ e[1] <= 1 /\ -1 <= e[2] /\ e[2] <= 0
      BY DEF Rectangle
    <3>2. u \in Int /\ v \in Int /\ ((-2 <= u /\ u <= 2 /\ -3 <= v /\ v <= 3) \/ (-3 <= u /\ u <= 3 /\ -1 <= v /\ v <= 1))
      BY <1>1, <1>3, <3>1 DEF Twice
    <3>. HIDE DEF u, v, Distance
    <3>3. u * u + v * v <= 13
      BY <3>2, SmallSquares
    <3>4. u * u \in Nat /\ v * v \in Nat
      BY <3>2, SmallSquares
    <3>. QED
      BY <1>1, <1>3, <3>3, <3>4, SmallSide DEF u, v, Distance
  <2>. HIDE DEF E
  <2>. QED
    BY <1>1, <2>2, <2>3, CenterOfTen
<1>4. CASE b[1] % 2 # 0 /\ b[2] % 2 # 0
  <2>. DEFINE r == <<-1, -1, 3, 3>>
              t == <<2, 0, 1, 1>>
              E == Rectangle(r) \cup Rectangle(t)
  <2>1. r \in Rectangles /\ t \in Rectangles
    BY DEF Rectangles
  <2>2. Ten(E)
    BY <2>1, TwoRectangles
  <2>3. ASSUME NEW e \in E
        PROVE  2500 * Distance(e, b) < 361 * (Shorter(b) * Shorter(b))
    <3>. DEFINE u == Twice(e[1], b[1])
                v == Twice(e[2], b[2])
    <3>1. /\ e[1] \in Int /\ e[2] \in Int
          /\ \/ -1 <= e[1] /\ e[1] <= 1 /\ -1 <= e[2] /\ e[2] <= 1
             \/ 2 <= e[1] /\ e[1] <= 2 /\ 0 <= e[2] /\ e[2] <= 0
      BY DEF Rectangle
    <3>2. u \in Int /\ v \in Int /\ ((-2 <= u /\ u <= 2 /\ -2 <= v /\ v <= 2) \/ (u = 4 /\ v = 0))
      BY <1>1, <1>4, <3>1 DEF Twice
    <3>. HIDE DEF u, v, Distance
    <3>3. u * u + v * v <= 16
      BY <3>2, SmallSquares
    <3>4. u * u \in Nat /\ v * v \in Nat
      BY <3>2, SmallSquares
    <3>5. 11 <= Shorter(b)
      BY <1>1, <1>4
    <3>. QED
      BY <1>1, <1>4, <3>3, <3>4, <3>5, SmallSide DEF u, v, Distance
  <2>. HIDE DEF E
  <2>. QED
    BY <1>1, <2>2, <2>3, CenterOfTen
<1>. QED
  BY <1>2, <1>3, <1>4

LEMMA SmallAnnulus ==
  ASSUME NEW b \in Boxes, 10 <= Shorter(b), Shorter(b) <= 15
  PROVE  Enough(b, OfAnnulus(Size[b]))
<1>1. b[1] \in Nat /\ b[2] \in Nat /\ Shorter(b) \in Nat /\ 10 <= Shorter(b) /\ Shorter(b) <= 15
  BY SmallBox
<1>2. CASE b[1] % 2 = 0 /\ Shorter(b) <= 13
  <2>. DEFINE r == <<-4, -2, 1, 5>>
              t == <<3, -2, 1, 5>>
              E == Rectangle(r) \cup Rectangle(t)
  <2>1. r \in Rectangles /\ t \in Rectangles
    BY DEF Rectangles
  <2>2. Ten(E)
    BY <2>1, TwoRectangles
  <2>3. ASSUME NEW e \in E
        PROVE  /\ Shorter(b) * Shorter(b) < 4 * Distance(e, b)
               /\ 625 * Distance(e, b) < 529 * (Shorter(b) * Shorter(b))
    <3>. DEFINE u == Twice(e[1], b[1])
                v == Twice(e[2], b[2])
    <3>1. e[1] \in {-4, 3} /\ e[2] \in Int /\ -2 <= e[2] /\ e[2] <= 2
      BY DEF Rectangle
    <3>2. u \in {-7, 7} /\ v \in Int /\ -5 <= v /\ v <= 5
      BY <1>1, <1>2, <3>1 DEF Twice
    <3>. HIDE DEF u, v
    <3>3. u * u = 49 /\ v * v \in 0 .. 25
      BY <3>2, SmallSquares
    <3>. QED
      BY <1>1, <1>2, <3>3, SmallSide DEF u, v, Distance
  <2>. HIDE DEF E
  <2>. QED
    BY <1>1, <2>2, <2>3, AnnulusOfTen
<1>3. CASE b[1] % 2 = 0 /\ 14 <= Shorter(b)
  <2>. DEFINE r == <<-5, -2, 1, 5>>
              t == <<4, -2, 1, 5>>
              E == Rectangle(r) \cup Rectangle(t)
  <2>1. r \in Rectangles /\ t \in Rectangles
    BY DEF Rectangles
  <2>2. Ten(E)
    BY <2>1, TwoRectangles
  <2>3. ASSUME NEW e \in E
        PROVE  /\ Shorter(b) * Shorter(b) < 4 * Distance(e, b)
               /\ 625 * Distance(e, b) < 529 * (Shorter(b) * Shorter(b))
    <3>. DEFINE u == Twice(e[1], b[1])
                v == Twice(e[2], b[2])
    <3>1. e[1] \in {-5, 4} /\ e[2] \in Int /\ -2 <= e[2] /\ e[2] <= 2
      BY DEF Rectangle
    <3>2. u \in {-9, 9} /\ v \in Int /\ -5 <= v /\ v <= 5
      BY <1>1, <1>3, <3>1 DEF Twice
    <3>. HIDE DEF u, v
    <3>3. u * u = 81 /\ v * v \in 0 .. 25
      BY <3>2, SmallSquares
    <3>. QED
      BY <1>1, <1>3, <3>3, SmallSide DEF u, v, Distance
  <2>. HIDE DEF E
  <2>. QED
    BY <1>1, <2>2, <2>3, AnnulusOfTen
<1>4. CASE b[2] % 2 = 0 /\ Shorter(b) <= 13
  <2>. DEFINE r == <<-2, -4, 5, 1>>
              t == <<-2, 3, 5, 1>>
              E == Rectangle(r) \cup Rectangle(t)
  <2>1. r \in Rectangles /\ t \in Rectangles
    BY DEF Rectangles
  <2>2. Ten(E)
    BY <2>1, TwoRectangles
  <2>3. ASSUME NEW e \in E
        PROVE  /\ Shorter(b) * Shorter(b) < 4 * Distance(e, b)
               /\ 625 * Distance(e, b) < 529 * (Shorter(b) * Shorter(b))
    <3>. DEFINE u == Twice(e[1], b[1])
                v == Twice(e[2], b[2])
    <3>1. e[2] \in {-4, 3} /\ e[1] \in Int /\ -2 <= e[1] /\ e[1] <= 2
      BY DEF Rectangle
    <3>2. v \in {-7, 7} /\ u \in Int /\ -5 <= u /\ u <= 5
      BY <1>1, <1>4, <3>1 DEF Twice
    <3>. HIDE DEF u, v
    <3>3. v * v = 49 /\ u * u \in 0 .. 25
      BY <3>2, SmallSquares
    <3>. QED
      BY <1>1, <1>4, <3>3, SmallSide DEF u, v, Distance
  <2>. HIDE DEF E
  <2>. QED
    BY <1>1, <2>2, <2>3, AnnulusOfTen
<1>5. CASE b[2] % 2 = 0 /\ 14 <= Shorter(b)
  <2>. DEFINE r == <<-2, -5, 5, 1>>
              t == <<-2, 4, 5, 1>>
              E == Rectangle(r) \cup Rectangle(t)
  <2>1. r \in Rectangles /\ t \in Rectangles
    BY DEF Rectangles
  <2>2. Ten(E)
    BY <2>1, TwoRectangles
  <2>3. ASSUME NEW e \in E
        PROVE  /\ Shorter(b) * Shorter(b) < 4 * Distance(e, b)
               /\ 625 * Distance(e, b) < 529 * (Shorter(b) * Shorter(b))
    <3>. DEFINE u == Twice(e[1], b[1])
                v == Twice(e[2], b[2])
    <3>1. e[2] \in {-5, 4} /\ e[1] \in Int /\ -2 <= e[1] /\ e[1] <= 2
      BY DEF Rectangle
    <3>2. v \in {-9, 9} /\ u \in Int /\ -5 <= u /\ u <= 5
      BY <1>1, <1>5, <3>1 DEF Twice
    <3>. HIDE DEF u, v
    <3>3. v * v = 81 /\ u * u \in 0 .. 25
      BY <3>2, SmallSquares
    <3>. QED
      BY <1>1, <1>5, <3>3, SmallSide DEF u, v, Distance
  <2>. HIDE DEF E
  <2>. QED
    BY <1>1, <2>2, <2>3, AnnulusOfTen
<1>6. CASE b[1] % 2 # 0 /\ b[2] % 2 # 0
  <2>. DEFINE r == <<-4, -2, 1, 5>>
              t == <<4, -2, 1, 5>>
              E == Rectangle(r) \cup Rectangle(t)
  <2>1. r \in Rectangles /\ t \in Rectangles
    BY DEF Rectangles
  <2>2. Ten(E)
    BY <2>1, TwoRectangles
  <2>3. ASSUME NEW e \in E
        PROVE  /\ Shorter(b) * Shorter(b) < 4 * Distance(e, b)
               /\ 625 * Distance(e, b) < 529 * (Shorter(b) * Shorter(b))
    <3>. DEFINE u == Twice(e[1], b[1])
                v == Twice(e[2], b[2])
    <3>1. e[1] \in {-4, 4} /\ e[2] \in Int /\ -2 <= e[2] /\ e[2] <= 2
      BY DEF Rectangle
    <3>2. u \in {-8, 8} /\ v \in Int /\ -4 <= v /\ v <= 4
      BY <1>1, <1>6, <3>1 DEF Twice
    <3>. HIDE DEF u, v
    <3>3. u * u = 64 /\ v * v \in 0 .. 16
      BY <3>2, SmallSquares
    <3>. QED
      BY <1>1, <1>6, <3>3, SmallSide DEF u, v, Distance
  <2>. HIDE DEF E
  <2>. QED
    BY <1>1, <2>2, <2>3, AnnulusOfTen
<1>. QED
  BY <1>1, <1>2, <1>3, <1>4, <1>5, <1>6

(* A box that is looked at has pixels enough in the center and in the      *)
(* annulus.                                                                *)
LEMMA SamplesAreEnough ==
  ASSUME NEW b \in Boxes, ~TooSmall(b)
  PROVE  /\ EnoughSamples(b)
         /\ \A z \in Zones : Size[b][z] \in Nat
         /\ 10 <= Size[b]["center"] /\ 10 <= OfAnnulus(Size[b])
<1>1. Shorter(b) \in Nat /\ 10 <= Shorter(b)
  BY ShorterIs DEF TooSmall
<1>2. Enough(b, Size[b]["center"]) /\ Enough(b, OfAnnulus(Size[b]))
  <2>1. CASE Shorter(b) <= 15
    BY <1>1, <2>1, SmallCenter, SmallAnnulus
  <2>2. CASE 16 <= Shorter(b)
    BY <2>2, LargeCenter, LargeAnnulus
  <2>. QED
    BY <1>1, <2>1, <2>2
<1>3. \A z \in Zones : Size[b][z] \in Nat
  BY ZonesFinite
<1>. QED
  BY <1>2, <1>3, EnoughIs DEF Enough

-----------------------------------------------------------------------------
(* The threshold.                                                          *)

LEMMA IntervalFinite ==
  ASSUME NEW i \in Int, NEW j \in Int
  PROVE  IsFiniteSet(i .. j)
BY FS_Interval, Zenon

(* There is a root: the numbers whose square is at most n would otherwise  *)
(* be as many with 0 as without.                                           *)
LEMMA RootExists ==
  ASSUME NEW n \in Nat, NEW m \in Nat, n < (m + 1) * (m + 1)
  PROVE  \E r \in 0 .. m : r * r <= n /\ n < (r + 1) * (r + 1)
<1>. DEFINE S == {r \in 0 .. m : r * r <= n}
            f == [r \in S |-> r + 1]
<1>1. SUFFICES ASSUME \A r \in 0 .. m : ~(r * r <= n /\ n < (r + 1) * (r + 1)) PROVE FALSE
  OBVIOUS
<1>2. ASSUME NEW r \in S PROVE r + 1 \in S \ {0}
  <2>1. r \in 0 .. m /\ (r + 1) * (r + 1) \in Nat /\ r * r <= n
    OBVIOUS
  <2>2. (r + 1) * (r + 1) <= n
    BY <1>1, <2>1
  <2>3. r # m
    BY <2>1, <2>2
  <2>. QED
    BY <2>1, <2>2, <2>3
<1>3. 0 \in S
  OBVIOUS
<1>4. IsFiniteSet(S)
  <2>1. IsFiniteSet(0 .. m)
    BY IntervalFinite
  <2>. QED
    BY <2>1, FS_Subset
<1>5. f \in [S -> S \ {0}]
  BY <1>2, Zenon
<1>6. \A q, r \in S : f[q] = f[r] => q = r
  <2>1. \A q, r \in S : q \in Int /\ r \in Int /\ f[q] = q + 1 /\ f[r] = r + 1
    OBVIOUS
  <2>. HIDE DEF f, S
  <2>. QED
    BY <2>1
<1>. HIDE DEF f, S
<1>7. f \in Injection(S, S \ {0})
  BY <1>5, <1>6 DEF Injection, IsInjective
<1>8. IsFiniteSet(S \ {0}) /\ Cardinality(S \ {0}) = Cardinality(S) - 1
  BY <1>3, <1>4, FS_RemoveElement
<1>9. Cardinality(S) <= Cardinality(S \ {0}) /\ Cardinality(S) \in Nat
  BY <1>4, <1>7, <1>8, FS_Injection, FS_CardinalityType
<1>. QED
  BY <1>8, <1>9

LEMMA RootIs ==
  ASSUME NEW n \in Nat, n < (MaxRoot + 1) * (MaxRoot + 1)
  PROVE  /\ Root(n) \in 0 .. MaxRoot
         /\ Root(n) * Root(n) <= n /\ n < (Root(n) + 1) * (Root(n) + 1)
<1>1. MaxRoot \in Nat
  BY DEF MaxRoot
<1>2. \E r \in 0 .. MaxRoot : r * r <= n /\ n < (r + 1) * (r + 1)
  BY <1>1, RootExists
<1>. QED
  BY <1>2, Zenon DEF Root

(* The deviation stays below what is left to the bright level: for a share *)
(* of 89 percent at most.                                                  *)
LEMMA SpreadLimits ==
  ASSUME NEW s \in 5 .. 89
  PROVE  /\ Spread(s) \in Nat /\ 62500 <= 10000 * s + Spread(s)
         /\ 10000 * s + Spread(s) + 35 <= 1000000
<1>. DEFINE t == 100 - s
            n == 10000 * s * t
            R == Root(n)
<1>1. t \in 11 .. 95 /\ s = 100 - t
  BY SMT
<1>2. t * t \in Nat /\ 11 * t <= t * t /\ t * t <= 95 * t
  BY <1>1, TimesGrows, SMT
<1>3. n = 1000000 * t - 10000 * (t * t)
  BY <1>1, SMT
<1>. HIDE DEF t, n
<1>4. n \in Nat /\ 500000 <= n /\ n <= 25000000
  <2>1. (t - 50) * (t - 50) \in Nat /\ (t - 50) * (t - 50) = t * t - 100 * t + 2500
    BY <1>1, SMT
  <2>. QED
    BY <1>1, <1>2, <1>3, <2>1, SMT
<1>5. R \in 0 .. 5000 /\ R * R <= n /\ n < (R + 1) * (R + 1)
  <2>1. n < (MaxRoot + 1) * (MaxRoot + 1)
    BY <1>4, SMT DEF MaxRoot
  <2>2. R \in 0 .. MaxRoot /\ R * R <= n /\ n < (R + 1) * (R + 1)
    BY <1>4, <2>1, RootIs, SMT
  <2>. QED
    BY <2>2, SMT DEF MaxRoot
<1>. HIDE DEF R
<1>6. 358 <= R
  <2>1. SUFFICES ASSUME R + 1 <= 358 PROVE FALSE
    BY <1>5, SMT
  <2>2. (R + 1) * (R + 1) <= 358 * 358
    BY <1>5, <2>1, SquareGrows, SMT
  <2>. QED
    BY <1>4, <1>5, <2>2, SMT
<1>7. 35 * R + 35 <= 10000 * t
  <2>1. SUFFICES ASSUME 10000 * t < 35 * R + 35 PROVE FALSE
    BY <1>1, <1>5, SMT
  <2>2. 2000 * t - 6 <= 7 * R
    BY <1>1, <1>5, <2>1, SMT
  <2>3. (2000 * t - 6) * (2000 * t - 6) <= (7 * R) * (7 * R)
    <3>1. 2000 * t - 6 \in Nat /\ 7 * R \in Nat
      BY <1>1, <1>5, SMT
    <3>. QED
      BY <2>2, <3>1, SquareGrows, SMT
  <2>4. /\ (2000 * t - 6) * (2000 * t - 6) = 4000000 * (t * t) - 24000 * t + 36
        /\ (7 * R) * (7 * R) = 49 * (R * R)
    BY <1>1, <1>5, SMT
  <2>5. R * R \in Nat
    BY <1>5, SMT
  <2>. QED
    BY <1>1, <1>2, <1>3, <1>4, <1>5, <2>3, <2>4, <2>5, SMT
<1>8. Spread(s) = 35 * R
  BY SMT DEF Spread, R, n, t
<1>. QED
  BY <1>1, <1>5, <1>6, <1>7, <1>8, SMT

(* What is rounded and kept within the limits.                             *)
LEMMA RoundedIs ==
  ASSUME NEW v \in Nat
  PROVE  \E r \in Int : /\ 1000000 * r <= v + 500000 /\ v + 500000 < 1000000 * r + 1000000
                        /\ Rounded(v) = IF r < 32 THEN 32 ELSE IF r > 230 THEN 230 ELSE r
<1>. DEFINE r == (v + 500000) \div 1000000
<1>1. r \in Int /\ 1000000 * r <= v + 500000 /\ v + 500000 < 1000000 * r + 1000000
  BY Quotient, SMT
<1>2. Rounded(v) = IF r < 32 THEN 32 ELSE IF r > 230 THEN 230 ELSE r
  BY SMT DEF Rounded
<1>. QED
  BY <1>1, <1>2, SMT

(* What is between the levels, and rounds to more than the dark one.       *)
Between(low, high, v) == v \in Nat /\ 1000000 * low + 500000 <= v /\ v <= 1000000 * high

LEMMA RoundedSeparates ==
  ASSUME NEW low \in Nat, NEW high \in Nat, low < 230, 32 <= high, NEW v, Between(low, high, v)
  PROVE  low < Rounded(v) /\ Rounded(v) <= high
<1>1. v \in Nat /\ 1000000 * low + 500000 <= v /\ v <= 1000000 * high
  BY SMT DEF Between
<1>2. PICK r \in Int : /\ 1000000 * r <= v + 500000 /\ v + 500000 < 1000000 * r + 1000000
                       /\ Rounded(v) = IF r < 32 THEN 32 ELSE IF r > 230 THEN 230 ELSE r
  BY <1>1, RoundedIs, SMT
<1>3. low < r /\ r <= high
  BY <1>1, <1>2, SMT
<1>. QED
  BY <1>2, <1>3, SMT

(* A contrast c above low, of which k millionths are taken.                *)
Above(low, c, k) == 1000000 * low + c * k

LEMMA AboveBetween ==
  ASSUME NEW low \in Nat, NEW high \in Nat, NEW c \in Nat, 8 <= c, high = low + c,
         NEW k \in Int, 62500 <= k, k <= 1000000
  PROVE  Between(low, high, Above(low, c, k))
<1>1. c * 62500 <= c * k /\ c * k <= c * 1000000
  BY TimesGrows, SMT
<1>2. c * k \in Int
  BY SMT
<1>3. 500000 <= c * k /\ c * k <= 1000000 * c
  BY <1>1, <1>2, SMT
<1>. QED
  BY <1>2, <1>3, SMT DEF Between, Above

(* The threshold lies above the dark level and not above the bright one.   *)
LEMMA ThresholdBetween ==
  ASSUME NEW l \in Levels, NEW s \in 5 .. 89, NEW h \in Thresholds(l, s),
         8 <= l.bright - l.dark, 32 <= l.bright, l.dark < 230
  PROVE  l.dark < h /\ h <= l.bright
<1>. DEFINE low == l.dark
            high == l.bright
            c == high - low
            k == 10000 * s + Spread(s)
<1>1. low \in 0 .. 255 /\ high \in 0 .. 255
  BY ClassifierAssumption
<1>2. 8 <= high - low /\ 32 <= high /\ low < 230
  OBVIOUS
<1>3. \/ h = Rounded(1000000 * low + c * k)
      \/ h = Rounded(1000000 * low + c * k + 35 * c)
  BY SMT DEF Thresholds
<1>4. k \in Int /\ 62500 <= k /\ k + 35 <= 1000000
  BY SpreadLimits, SMT
<1>. HIDE DEF low, high, k
<1>5. c \in Nat /\ 8 <= c /\ low \in Nat /\ high \in Nat /\ high = low + c
  BY <1>1, <1>2
<1>. HIDE DEF c
<1>6. /\ Above(low, c, k) = 1000000 * low + c * k
      /\ Above(low, c, k + 35) = 1000000 * low + c * k + 35 * c
  <2>1. c * (k + 35) = c * k + 35 * c /\ c * k \in Int
    BY <1>4, <1>5
  <2>. QED
    BY <1>5, <2>1, SMT DEF Above
<1>7. Between(low, high, Above(low, c, k)) /\ Between(low, high, Above(low, c, k + 35))
  <2>1. k + 35 \in Int /\ 62500 <= k + 35 /\ k <= 1000000
    BY <1>4, SMT
  <2>. QED
    BY <1>4, <1>5, <2>1, AboveBetween, SMT
<1>8. \E v : Between(low, high, v) /\ h = Rounded(v)
  BY <1>3, <1>6, <1>7, SMT
<1>. QED
  BY <1>2, <1>5, <1>8, RoundedSeparates, SMT DEF low, high

-----------------------------------------------------------------------------
(* The verdict.                                                            *)

(* Pixels can be dark only where there are pixels.                         *)
DarkPixels(b, d) ==
  d \in [Zones -> Nat] /\ \A z \in Zones : d[z] <= Size[b][z]

(* The terms of the strength of a hole.                                    *)
Counted(b, c, d) == IF DarkEnough(b, c, d) THEN d ELSE [z \in Zones |-> 0]
ContrastPart(b, c, d) == (580 * AnnulusContrast(b, c, d)) \div Both(b)
CenterPart(b, f) == (28000 * f["center"]) \div Size[b]["center"]
MassPart(f) == IF OfDisc(f) = 0 THEN 0 ELSE (18000 * OfMassCenter(f)) \div OfDisc(f)
DiscPart(b, f) == (12000 * OfDisc(f)) \div OfDisc(Size[b])

LEMMA StrengthIs ==
  ASSUME NEW b, NEW c, NEW d
  PROVE  HoleStrength(b, c, d)
         = ContrastPart(b, c, d) + CenterPart(b, Counted(b, c, d))
           + MassPart(Counted(b, c, d)) + DiscPart(b, Counted(b, c, d))
BY SMT DEF HoleStrength, ContrastPart, CenterPart, MassPart, DiscPart, Counted

(* What is counted are pixels of the disc.                                 *)
LEMMA CountsAre ==
  ASSUME NEW f \in [Zones -> Nat]
  PROVE  /\ f["center"] \in Nat /\ OfAnnulus(f) \in Nat /\ OfMassCenter(f) \in Nat /\ OfDisc(f) \in Nat
         /\ f["center"] <= OfMassCenter(f) /\ OfMassCenter(f) <= OfDisc(f)
         /\ OfAnnulus(f) <= OfDisc(f)
<1>1. /\ f["center"] \in Nat /\ f["gap"] \in Nat /\ f["innerAnnulus"] \in Nat
      /\ f["outerAnnulus"] \in Nat /\ f["rim"] \in Nat
  BY DEF Zones
<1>. QED
  BY <1>1 DEF OfAnnulus, OfMassCenter, OfDisc

LEMMA SizeIs ==
  ASSUME NEW b \in Boxes, ~TooSmall(b)
  PROVE  /\ Size[b] \in [Zones -> Nat]
         /\ Size[b]["center"] \in Nat /\ 0 < Size[b]["center"]
         /\ OfAnnulus(Size[b]) \in Nat /\ 0 < OfAnnulus(Size[b])
         /\ OfDisc(Size[b]) \in Nat /\ 0 < OfDisc(Size[b])
         /\ Both(b) \in Nat /\ 0 < Both(b)
<1>1. Size[b] \in [Zones -> Nat]
  <2>1. Size[b] = [z \in Zones |-> Cardinality(Pixels(b, z))]
    BY DEF Size
  <2>. QED
    BY <2>1, ZonesFinite
<1>2. 10 <= Size[b]["center"] /\ 10 <= OfAnnulus(Size[b])
  BY SamplesAreEnough
<1>3. /\ Size[b]["center"] \in Nat /\ OfAnnulus(Size[b]) \in Nat /\ OfDisc(Size[b]) \in Nat
      /\ OfAnnulus(Size[b]) <= OfDisc(Size[b])
  BY <1>1, CountsAre
<1>4. Both(b) \in Nat /\ 0 < Both(b)
  <2>1. Size[b]["center"] * 10 <= Size[b]["center"] * OfAnnulus(Size[b])
    BY <1>2, <1>3, TimesGrows
  <2>. QED
    BY <1>2, <1>3, <2>1 DEF Both
<1>. QED
  BY <1>1, <1>2, <1>3, <1>4

(* A quotient of numbers is no negative one.                               *)
LEMMA QuotientNat ==
  ASSUME NEW a \in Nat, NEW n \in Nat, n > 0
  PROVE  a \div n \in Nat
OBVIOUS

LEMMA PartsAre ==
  ASSUME NEW b \in Boxes, ~TooSmall(b), NEW f \in [Zones -> Nat]
  PROVE  CenterPart(b, f) \in Nat /\ MassPart(f) \in Nat /\ DiscPart(b, f) \in Nat
<1>1. /\ 28000 * f["center"] \in Nat /\ 18000 * OfMassCenter(f) \in Nat
      /\ OfDisc(f) \in Nat /\ 12000 * OfDisc(f) \in Nat
  BY CountsAre
<1>2. CenterPart(b, f) \in Nat
  BY <1>1, SizeIs, QuotientNat, SMT DEF CenterPart
<1>3. DiscPart(b, f) \in Nat
  BY <1>1, SizeIs, QuotientNat, SMT DEF DiscPart
<1>4. MassPart(f) \in Nat
  <2>1. CASE OfDisc(f) = 0
    BY <2>1, SMT DEF MassPart
  <2>2. CASE OfDisc(f) # 0
    BY <1>1, <2>2, QuotientNat, SMT DEF MassPart
  <2>. QED
    BY <2>1, <2>2
<1>. QED
  BY <1>2, <1>3, <1>4

(* Of a hole over the whole center the contrast is that of the annulus     *)
(* with a dark pixel.                                                      *)
LEMMA WholeContrast ==
  ASSUME NEW b \in Boxes, ~TooSmall(b), NEW d, DarkPixels(b, d), NEW c \in Nat,
         d["center"] = Size[b]["center"]
  PROVE  /\ OfAnnulus(Size[b]) - OfAnnulus(d) \in Nat
         /\ c * (OfAnnulus(Size[b]) - OfAnnulus(d)) \in Nat
         /\ AnnulusContrast(b, c, d)
            = Size[b]["center"] * (c * (OfAnnulus(Size[b]) - OfAnnulus(d)))
         /\ AnnulusContrast(b, c, d) \in Nat
<1>. DEFINE S == Size[b]["center"]
            A == OfAnnulus(Size[b])
            a == OfAnnulus(d)
<1>1. S \in Nat /\ A \in Nat /\ a \in Nat /\ d \in [Zones -> Nat]
  BY SizeIs, CountsAre DEF DarkPixels
<1>2. a <= A
  <2>1. Size[b] \in [Zones -> Nat]
    BY SizeIs
  <2>2. /\ d["innerAnnulus"] <= Size[b]["innerAnnulus"] /\ d["outerAnnulus"] <= Size[b]["outerAnnulus"]
        /\ d["innerAnnulus"] \in Nat /\ d["outerAnnulus"] \in Nat
        /\ Size[b]["innerAnnulus"] \in Nat /\ Size[b]["outerAnnulus"] \in Nat
    BY <1>1, <2>1 DEF DarkPixels, Zones
  <2>. QED
    BY <2>2 DEF OfAnnulus
<1>3. AnnulusContrast(b, c, d) = c * (S * A - a * S)
  BY SMT DEF AnnulusContrast
<1>. HIDE DEF S, A, a
<1>4. PICK k \in Nat : A = a + k
  <2>1. A - a \in Nat /\ A = a + (A - a)
    BY <1>1, <1>2
  <2>. QED
    BY <2>1
<1>5. A - a = k
  BY <1>1, <1>4
<1>6. c * k \in Nat /\ S * (c * k) \in Nat
  BY <1>1
<1>7. c * (S * A - a * S) = S * (c * k)
  BY <1>1, <1>4, SMT
<1>. QED
  BY <1>3, <1>4, <1>5, <1>6, <1>7 DEF S, A, a

(* A hole over the whole center is a hole where the annulus is bright.     *)
LEMMA WholeHole ==
  ASSUME NEW b \in Boxes, ~TooSmall(b), NEW d, DarkPixels(b, d), NEW c \in Nat,
         d["center"] = Size[b]["center"], DarkEnough(b, c, d)
  PROVE  MayShowHole(b, c, d) /\ ~MayShowNone(b, c, d)
<1>. DEFINE S == Size[b]["center"]
            A == OfAnnulus(Size[b])
<1>1. S \in Nat /\ 0 < S /\ A \in Nat /\ 0 < A /\ Both(b) \in Nat /\ 0 < Both(b) /\ d \in [Zones -> Nat]
  BY SizeIs DEF DarkPixels
<1>2. Counted(b, c, d) = d
  BY DEF Counted
<1>3. CenterPart(b, d) = 28000
  <2>1. (28000 * S) \div S = 28000
    <3>1. /\ 28000 * S \in Int /\ S * 28000 <= 28000 * S
          /\ (28000 * S) \div S \in Int /\ S * ((28000 * S) \div S) <= 28000 * S
      BY <1>1, Quotient, SMT
    <3>. DEFINE q == (28000 * S) \div S
    <3>2. 28000 <= q
      BY <1>1, <3>1, QuotientAbove, SMT
    <3>3. q <= 28000
      <4>. HIDE DEF q
      <4>1. SUFFICES ASSUME 28001 <= q PROVE FALSE
        BY <3>1, SMT DEF q
      <4>2. S * 28001 <= S * q
        BY <1>1, <3>1, <4>1, TimesGrows, SMT DEF q
      <4>. QED
        BY <1>1, <3>1, <4>2, SMT DEF q
    <3>. QED
      BY <3>1, <3>2, <3>3, SMT
  <2>. QED
    BY <2>1, SMT DEF CenterPart
<1>4. ContrastPart(b, c, d) \in Nat
  <2>1. AnnulusContrast(b, c, d) \in Nat
    BY WholeContrast
  <2>2. 580 * AnnulusContrast(b, c, d) \in Nat
    BY <2>1
  <2>. QED
    BY <1>1, <2>2, QuotientNat, SMT DEF ContrastPart
<1>5. MassPart(d) \in Nat /\ DiscPart(b, d) \in Nat
  BY <1>1, PartsAre
<1>6. HoleStrength(b, c, d) \in Int /\ HoleStrength(b, c, d) > 17000
  <2>1. HoleStrength(b, c, d) = ContrastPart(b, c, d) + CenterPart(b, d) + MassPart(d) + DiscPart(b, d)
    BY <1>2, StrengthIs
  <2>. QED
    BY <1>3, <1>4, <1>5, <2>1, SMT
<1>. QED
  BY <1>6, SMT DEF MayShowHole, MayShowNone

(* A part without a dark pixel has no hole.                                *)
LEMMA ZeroQuotient ==
  ASSUME NEW n \in Nat, n > 0
  PROVE  0 \div n = 0
OBVIOUS

LEMMA NoDarkPart ==
  ASSUME NEW b \in Boxes, ~TooSmall(b)
  PROVE  CenterPart(b, NoDark) = 0 /\ MassPart(NoDark) = 0 /\ DiscPart(b, NoDark) = 0
<1>1. NoDark["center"] = 0 /\ OfDisc(NoDark) = 0
  BY DEF NoDark, Zones, OfMassCenter, OfDisc
<1>2. /\ Size[b]["center"] \in Nat /\ 0 < Size[b]["center"]
      /\ OfDisc(Size[b]) \in Nat /\ 0 < OfDisc(Size[b])
  BY SizeIs
<1>3. CenterPart(b, NoDark) = 0
  <2>1. 28000 * NoDark["center"] = 0
    BY <1>1, SMT
  <2>. QED
    BY <1>2, <2>1, ZeroQuotient, SMT DEF CenterPart
<1>4. MassPart(NoDark) = 0
  BY <1>1, SMT DEF MassPart
<1>5. DiscPart(b, NoDark) = 0
  <2>1. 12000 * OfDisc(NoDark) = 0
    BY <1>1, SMT
  <2>. QED
    BY <1>2, <2>1, ZeroQuotient, SMT DEF DiscPart
<1>. QED
  BY <1>3, <1>4, <1>5

LEMMA UniformIsNone ==
  ASSUME NEW b \in Boxes, ~TooSmall(b), NEW c \in Nat
  PROVE  ~MayShowHole(b, c, NoDark)
<1>1. /\ NoDark \in [Zones -> Nat] /\ NoDark["center"] = 0
      /\ OfAnnulus(NoDark) = 0 /\ OfMassCenter(NoDark) = 0 /\ OfDisc(NoDark) = 0
  BY DEF NoDark, Zones, OfAnnulus, OfMassCenter, OfDisc
<1>2. /\ Size[b]["center"] \in Nat /\ 0 < Size[b]["center"] /\ OfAnnulus(Size[b]) \in Nat
      /\ OfDisc(Size[b]) \in Nat /\ 0 < OfDisc(Size[b]) /\ Both(b) \in Nat /\ 0 < Both(b)
  BY SizeIs
<1>3. ~HoleDark(b, c, NoDark)
  BY <1>1, <1>2 DEF HoleDark
<1>4. Counted(b, c, NoDark) = NoDark
  BY DEF Counted, NoDark
<1>5. ContrastPart(b, c, NoDark) = 0
  <2>1. AnnulusContrast(b, c, NoDark) = 0
    <3>1. AnnulusContrast(b, c, NoDark) = c * (0 * OfAnnulus(Size[b]) - 0 * Size[b]["center"])
      BY <1>1 DEF AnnulusContrast
    <3>. QED
      BY <1>2, <3>1
  <2>2. 580 * AnnulusContrast(b, c, NoDark) = 0
    BY <2>1
  <2>. QED
    BY <1>2, <2>2, ZeroQuotient DEF ContrastPart
<1>6. CenterPart(b, NoDark) = 0 /\ MassPart(NoDark) = 0 /\ DiscPart(b, NoDark) = 0
  BY NoDarkPart
<1>7. HoleStrength(b, c, NoDark) = 0
  <2>1. HoleStrength(b, c, NoDark)
        = ContrastPart(b, c, NoDark) + CenterPart(b, NoDark) + MassPart(NoDark) + DiscPart(b, NoDark)
    BY <1>4, StrengthIs
  <2>. QED
    BY <1>5, <1>6, <2>1
<1>. QED
  BY <1>3, <1>7, SMT DEF MayShowHole

(* It is none where the annulus is not.                                    *)
LEMMA WholeHoleInShade ==
  ASSUME NEW b \in Boxes, ~TooSmall(b), NEW d, DarkPixels(b, d), NEW c \in Nat,
         d["center"] = Size[b]["center"], ~DarkEnough(b, c, d)
  PROVE  ~MayShowHole(b, c, d)
<1>. DEFINE S == Size[b]["center"]
            A == OfAnnulus(Size[b])
            m == c * (A - OfAnnulus(d))
            x == AnnulusContrast(b, c, d)
<1>1. /\ S \in Nat /\ 0 < S /\ A \in Nat /\ 0 < A /\ OfDisc(Size[b]) \in Nat /\ 0 < OfDisc(Size[b])
      /\ Both(b) \in Nat /\ 0 < Both(b) /\ Both(b) = S * A
  BY SizeIs DEF Both
<1>2. m \in Nat /\ x = S * m /\ x \in Nat
  BY WholeContrast
<1>3. ~HoleDark(b, c, d)
  BY DEF HoleDark
<1>4. Counted(b, c, d) = NoDark
  BY DEF Counted, NoDark
<1>5. m < 8 * A
  BY <1>1, <1>2 DEF DarkEnough
<1>. HIDE DEF m, x, S, A
<1>6. 580 * x \in Nat /\ 580 * x < 4640 * Both(b)
  <2>1. S * (m + 1) <= S * (8 * A)
    BY <1>1, <1>2, <1>5, TimesGrows
  <2>2. S * (m + 1) = S * m + S /\ S * (8 * A) = 8 * (S * A)
    BY <1>1, <1>2, SMT
  <2>. DEFINE y == S * m
  <2>3. y \in Nat /\ y + S <= 8 * Both(b)
    BY <1>1, <1>2, <2>1, <2>2
  <2>. HIDE DEF y
  <2>4. x = y
    BY <1>2 DEF y
  <2>. QED
    BY <1>1, <2>3, <2>4
<1>7. ContrastPart(b, c, d) \in Nat /\ ContrastPart(b, c, d) <= 4640
  <2>. DEFINE q == (580 * x) \div Both(b)
  <2>1. q \in Nat /\ Both(b) * q <= 580 * x
    BY <1>1, <1>6, QuotientNat, Quotient
  <2>. HIDE DEF q
  <2>2. q <= 4640
    <3>1. SUFFICES ASSUME 4641 <= q PROVE FALSE
      BY <2>1
    <3>2. Both(b) * 4641 <= Both(b) * q
      BY <1>1, <2>1, <3>1, TimesGrows
    <3>. DEFINE w == Both(b) * q
    <3>3. w \in Nat
      BY <1>1, <2>1
    <3>. HIDE DEF w
    <3>. QED
      BY <1>1, <1>6, <2>1, <3>2, <3>3 DEF w
  <2>. QED
    BY <2>1, <2>2 DEF q, x, ContrastPart
<1>8. CenterPart(b, NoDark) = 0 /\ MassPart(NoDark) = 0 /\ DiscPart(b, NoDark) = 0
  BY NoDarkPart
<1>9. HoleStrength(b, c, d)
      = ContrastPart(b, c, d) + CenterPart(b, NoDark) + MassPart(NoDark) + DiscPart(b, NoDark)
  BY <1>4, StrengthIs
<1>. QED
  BY <1>3, <1>7, <1>8, <1>9, SMT DEF MayShowHole

(* A hole that is larger in the center, or in the gap around it, is no     *)
(* weaker a hole.                                                          *)
OneMore(d, z) == [d EXCEPT ![z] = @ + 1]

LEMMA LargerIs ==
  ASSUME NEW d \in [Zones -> Nat], NEW z \in {"center", "gap"}
  PROVE  /\ OneMore(d, z) \in [Zones -> Nat]
         /\ OneMore(d, z)["center"] = d["center"] \/ OneMore(d, z)["center"] = d["center"] + 1
         /\ OfAnnulus(OneMore(d, z)) = OfAnnulus(d)
         /\ OfMassCenter(OneMore(d, z)) = OfMassCenter(d) + 1
         /\ OfDisc(OneMore(d, z)) = OfDisc(d) + 1
<1>. DEFINE e == OneMore(d, z)
<1>1. \A y \in Zones : d[y] \in Nat
  OBVIOUS
<1>2. e \in [Zones -> Nat]
  BY <1>1 DEF OneMore, Zones
<1>3. CASE z = "center"
  <2>1. /\ e["center"] = d["center"] + 1
        /\ \A y \in Zones \ {"center"} : e[y] = d[y]
    BY <1>3 DEF OneMore, Zones
  <2>. QED
    BY <1>1, <1>2, <2>1 DEF OfAnnulus, OfMassCenter, OfDisc, Zones
<1>4. CASE z = "gap"
  <2>1. /\ e["gap"] = d["gap"] + 1
        /\ \A y \in Zones \ {"gap"} : e[y] = d[y]
    BY <1>4 DEF OneMore, Zones
  <2>. QED
    BY <1>1, <1>2, <2>1 DEF OfAnnulus, OfMassCenter, OfDisc, Zones
<1>. QED
  BY <1>3, <1>4

(* Each term of the strength grows.                                        *)
LEMMA PartsGrow ==
  ASSUME NEW b \in Boxes, ~TooSmall(b), NEW d \in [Zones -> Nat],
         NEW z \in {"center", "gap"}
  PROVE  /\ CenterPart(b, d) <= CenterPart(b, OneMore(d, z))
         /\ MassPart(d) <= MassPart(OneMore(d, z))
         /\ DiscPart(b, d) <= DiscPart(b, OneMore(d, z))
<1>1. /\ d["center"] \in Nat /\ OfMassCenter(d) \in Nat /\ OfDisc(d) \in Nat
      /\ OfMassCenter(d) <= OfDisc(d)
  BY CountsAre
<1>2. /\ OneMore(d, z)["center"] = d["center"] \/ OneMore(d, z)["center"] = d["center"] + 1
      /\ OfMassCenter(OneMore(d, z)) = OfMassCenter(d) + 1 /\ OfDisc(OneMore(d, z)) = OfDisc(d) + 1
  BY LargerIs
<1>3. /\ Size[b]["center"] \in Nat /\ 0 < Size[b]["center"]
      /\ OfDisc(Size[b]) \in Nat /\ 0 < OfDisc(Size[b])
  BY SizeIs
<1>4. CenterPart(b, d) <= CenterPart(b, OneMore(d, z))
  <2>1. /\ 28000 * d["center"] \in Int /\ 28000 * OneMore(d, z)["center"] \in Int
        /\ 28000 * d["center"] <= 28000 * OneMore(d, z)["center"]
    BY <1>1, <1>2, SMT
  <2>. QED
    BY <1>3, <2>1, QuotientGrows, SMT DEF CenterPart
<1>5. DiscPart(b, d) <= DiscPart(b, OneMore(d, z))
  <2>1. /\ 12000 * OfDisc(d) \in Int /\ 12000 * (OfDisc(d) + 1) \in Int
        /\ 12000 * OfDisc(d) <= 12000 * (OfDisc(d) + 1)
    BY <1>1, SMT
  <2>. QED
    BY <1>2, <1>3, <2>1, QuotientGrows, SMT DEF DiscPart
<1>6. MassPart(d) <= MassPart(OneMore(d, z))
  <2>1. MassPart(OneMore(d, z)) = (18000 * (OfMassCenter(d) + 1)) \div (OfDisc(d) + 1)
    BY <1>1, <1>2, SMT DEF MassPart
  <2>2. CASE OfDisc(d) = 0
    <3>1. MassPart(d) = 0
      BY <2>2, SMT DEF MassPart
    <3>2. MassPart(OneMore(d, z)) \in Nat
      BY LargerIs, PartsAre
    <3>. QED
      BY <3>1, <3>2
  <2>3. CASE OfDisc(d) > 0
    <3>1. MassPart(d) = (18000 * OfMassCenter(d)) \div OfDisc(d)
      BY <1>1, <2>3, SMT DEF MassPart
    <3>2. 18000 \in Nat
      BY SMT
    <3>. QED
      BY <1>1, <2>1, <2>3, <3>1, <3>2, PartGrows, SMT
  <2>. QED
    BY <1>1, <2>2, <2>3
<1>. QED
  BY <1>4, <1>5, <1>6

LEMMA LargerHole ==
  ASSUME NEW b \in Boxes, ~TooSmall(b), NEW d \in [Zones -> Nat], NEW c \in Nat,
         NEW z \in {"center", "gap"},
         MayShowHole(b, c, d)
  PROVE  MayShowHole(b, c, OneMore(d, z))
<1>. DEFINE S == Size[b]["center"]
            A == OfAnnulus(Size[b])
            e == OneMore(d, z)
<1>1. /\ S \in Nat /\ 0 < S /\ A \in Nat /\ 0 < A /\ Both(b) \in Nat /\ 0 < Both(b)
      /\ OfDisc(Size[b]) \in Nat
  BY SizeIs
<1>2. /\ d["center"] \in Nat /\ OfAnnulus(d) \in Nat /\ OfDisc(d) \in Nat
  BY CountsAre
<1>3. /\ e \in [Zones -> Nat]
      /\ e["center"] = d["center"] \/ e["center"] = d["center"] + 1
      /\ OfAnnulus(e) = OfAnnulus(d) /\ OfDisc(e) = OfDisc(d) + 1
  BY LargerIs
<1>4. DarkEnough(b, c, e) <=> DarkEnough(b, c, d)
  BY <1>3 DEF DarkEnough
<1>5. /\ AnnulusContrast(b, c, d) \in Int /\ AnnulusContrast(b, c, e) \in Int
      /\ AnnulusContrast(b, c, d) <= AnnulusContrast(b, c, e)
  <2>. DEFINE p == d["center"]
              q == OfAnnulus(d)
              x == p * A - q * S
              r == e["center"]
              y == r * A - q * S
  <2>1. AnnulusContrast(b, c, d) = c * x /\ AnnulusContrast(b, c, e) = c * y
    BY <1>3 DEF AnnulusContrast
  <2>2. x \in Int /\ y \in Int /\ x <= y
    <3>1. S \in Nat /\ A \in Nat /\ p \in Nat /\ q \in Nat /\ (r = p \/ r = p + 1)
      BY <1>1, <1>2, <1>3
    <3>. HIDE DEF S, A, p, q, r
    <3>. QED
      BY <3>1
  <2>. HIDE DEF x, y
  <2>3. c * x <= c * y /\ c * x \in Int /\ c * y \in Int
    BY <1>1, <2>2, TimesGrows
  <2>. QED
    BY <2>1, <2>3
<1>. HIDE DEF S, A, e
<1>6. CASE HoleDark(b, c, d) /\ AnnulusContrast(b, c, d) >= 4 * Both(b)
  <2>1. 100 * e["center"] > 18 * S /\ 5 * OfDisc(e) > OfDisc(Size[b])
    BY <1>1, <1>2, <1>3, <1>6 DEF HoleDark, S
  <2>2. HoleDark(b, c, e)
    BY <1>4, <1>6, <2>1 DEF HoleDark, S
  <2>3. AnnulusContrast(b, c, e) >= 4 * Both(b)
    BY <1>1, <1>5, <1>6
  <2>. QED
    BY <2>2, <2>3 DEF MayShowHole, e
<1>7. CASE HoleStrength(b, c, d) + 3 >= 17000
  <2>. DEFINE f == Counted(b, c, d)
              g == Counted(b, c, e)
  <2>1. /\ CenterPart(b, f) \in Nat /\ MassPart(f) \in Nat /\ DiscPart(b, f) \in Nat
        /\ CenterPart(b, g) \in Nat /\ MassPart(g) \in Nat /\ DiscPart(b, g) \in Nat
        /\ CenterPart(b, f) <= CenterPart(b, g) /\ MassPart(f) <= MassPart(g)
        /\ DiscPart(b, f) <= DiscPart(b, g)
    <3>1. CASE DarkEnough(b, c, d)
      <4>1. f = d /\ g = e
        BY <1>4, <3>1 DEF Counted
      <4>. HIDE DEF f, g
      <4>. QED
        BY <1>3, <4>1, PartsAre, PartsGrow DEF e
    <3>2. CASE ~DarkEnough(b, c, d)
      <4>1. f = NoDark /\ g = NoDark
        BY <1>4, <3>2 DEF Counted, NoDark
      <4>2. NoDark \in [Zones -> Nat]
        BY DEF NoDark
      <4>. HIDE DEF f, g
      <4>3. CenterPart(b, NoDark) \in Nat /\ MassPart(NoDark) \in Nat /\ DiscPart(b, NoDark) \in Nat
        BY <4>2, PartsAre
      <4>. QED
        BY <4>1, <4>3
    <3>. QED
      BY <3>1, <3>2
  <2>2. /\ ContrastPart(b, c, d) \in Int /\ ContrastPart(b, c, e) \in Int
        /\ ContrastPart(b, c, d) <= ContrastPart(b, c, e)
    <3>1. /\ 580 * AnnulusContrast(b, c, d) \in Int /\ 580 * AnnulusContrast(b, c, e) \in Int
          /\ 580 * AnnulusContrast(b, c, d) <= 580 * AnnulusContrast(b, c, e)
      BY <1>5
    <3>. QED
      BY <1>1, <3>1, Quotient, QuotientGrows DEF ContrastPart
  <2>3. /\ HoleStrength(b, c, d) = ContrastPart(b, c, d) + CenterPart(b, f) + MassPart(f) + DiscPart(b, f)
        /\ HoleStrength(b, c, e) = ContrastPart(b, c, e) + CenterPart(b, g) + MassPart(g) + DiscPart(b, g)
    BY StrengthIs
  <2>. HIDE DEF f, g
  <2>4. HoleStrength(b, c, e) + 3 >= 17000
    BY <1>7, <2>1, <2>2, <2>3, SMT
  <2>. QED
    BY <2>4, SMT DEF MayShowHole, e
<1>. QED
  BY <1>6, <1>7, SMT DEF MayShowHole

-----------------------------------------------------------------------------
(* The inductive invariant: what each stage has found out.                 *)

Stages == {"load", "threshold", "search", "box", "features", "decided"}

PictureType == level \in Levels /\ share \in Shares \cup {0}

(* The threshold is one of the picture's until the search has used it.     *)
ThresholdOfPicture == stage = "search" => brightThreshold \in Thresholds(level, share)

(* Pixels can be dark only in a box that was found and is large enough.    *)
FoundPart == box \in Boxes /\ ~TooSmall(box) /\ DarkPixels(box, dark)

StageInv ==
  /\ stage \in Stages
  /\ stage # "decided" => verdict = "none"
  /\ stage \in {"load", "threshold", "search"} => box = NoBox /\ dark = NoDark
  /\ stage = "box" => box \in Boxes \cup {NoBox} /\ dark = NoDark
  /\ stage = "features" => FoundPart

(* The three ways to a verdict.                                            *)
DecidedInv ==
  stage = "decided" =>
    \/ box = NoBox /\ verdict \in {"Unknown", "Invalid"}
    \/ box \in Boxes /\ TooSmall(box) /\ verdict = "Invalid"
    \/ FoundPart /\ verdict \in Verdicts(box, contrastOf, dark)

ClassifierInv == PictureType /\ ThresholdOfPicture /\ StageInv /\ DecidedInv

(* No zone has more pixels than the largest picture.                       *)
LEMMA SizeWithin ==
  ASSUME NEW b \in Boxes, NEW z \in Zones
  PROVE  Size[b][z] \in 0 .. MaxImageDimension * MaxImageDimension
<1>. DEFINE w == b[1]
            h == b[2]
            M == MaxImageDimension
<1>1. w \in Nat /\ h \in Nat /\ w <= M /\ h <= M /\ M \in Nat
  <2>1. w \in 1 .. M /\ h \in 1 .. M
    BY ClassifierAssumption
  <2>2. M \in Nat
    BY DEF MaxImageDimension
  <2>. HIDE DEF w, h, M
  <2>. QED
    BY <2>1, <2>2
<1>2. IsFiniteSet(Places(b)) /\ Cardinality(Places(b)) = w * h
  <2>1. <<0, 0, w, h>> \in Rectangles
    BY <1>1 DEF Rectangles
  <2>2. Rectangle(<<0, 0, w, h>>) = Places(b)
    <3>1. 0 + w - 1 = w - 1 /\ 0 + h - 1 = h - 1
      BY <1>1
    <3>. QED
      BY <3>1 DEF Rectangle, Places
  <2>3. /\ IsFiniteSet(Rectangle(<<0, 0, w, h>>))
        /\ Cardinality(Rectangle(<<0, 0, w, h>>)) = <<0, 0, w, h>>[3] * <<0, 0, w, h>>[4]
    BY <2>1, RectangleCounts
  <2>. QED
    BY <2>2, <2>3
<1>3. Pixels(b, z) \subseteq Places(b) /\ Size[b][z] = Cardinality(Pixels(b, z)) /\ Size[b][z] \in Nat
  BY ZonesFinite
<1>4. Cardinality(Pixels(b, z)) <= Cardinality(Places(b))
  BY <1>2, <1>3, FS_Subset
<1>. HIDE DEF w, h, M
<1>5. w * h <= w * M /\ M * w <= M * M
  BY <1>1, TimesGrows
<1>6. w * h \in Nat /\ w * M = M * w /\ M * M \in Nat /\ M * w \in Nat
  BY <1>1
<1>7. Size[b][z] <= M * M
  BY <1>2, <1>3, <1>4, <1>5, <1>6
<1>. QED
  BY <1>3, <1>6, <1>7 DEF M

(* No box was found at first.                                              *)
LEMMA NoBoxIsNone == NoBox \notin Boxes
<1>1. SUFFICES ASSUME NoBox \in Boxes PROVE FALSE
  OBVIOUS
<1>2. <<0, 0>> \in (1 .. MaxImageDimension) \X (1 .. MaxImageDimension)
  BY <1>1, ClassifierAssumption DEF NoBox
<1>. QED
  BY <1>2 DEF MaxImageDimension

LEMMA InitClassifier == Init => ClassifierInv
BY DEF Init, ClassifierInv, PictureType, ThresholdOfPicture, StageInv, DecidedInv, Stages

(* A verdict without a look at the part.                                   *)
LEMMA DecideKeeps ==
  ASSUME ClassifierInv, NEW v, Decide(v),
         \/ box = NoBox /\ v \in {"Unknown", "Invalid"}
         \/ box \in Boxes /\ TooSmall(box) /\ v = "Invalid"
         \/ FoundPart /\ v \in Verdicts(box, contrastOf, dark)
  PROVE  ClassifierInv'
<1>1. stage' = "decided" /\ verdict' = v /\ box' = box /\ dark' = dark /\ level' = level /\ share' = share
  BY DEF Decide, picture, part
<1>2. PictureType'
  BY <1>1 DEF ClassifierInv, PictureType
<1>3. ThresholdOfPicture' /\ StageInv'
  BY <1>1 DEF ThresholdOfPicture, StageInv, Stages
<1>4. DecidedInv'
  <2>1. /\ FoundPart' <=> FoundPart
        /\ Verdicts(box, contrastOf, dark)' = Verdicts(box, contrastOf, dark)
    BY <1>1 DEF FoundPart, contrastOf
  <2>. QED
    BY <1>1, <2>1 DEF DecidedInv
<1>. QED
  BY <1>2, <1>3, <1>4 DEF ClassifierInv

LEMMA LoadKeeps == ClassifierInv /\ Load => ClassifierInv'
<1>. SUFFICES ASSUME ClassifierInv, Load PROVE ClassifierInv'
  OBVIOUS
<1>1. stage = "load" /\ box = NoBox
  BY DEF Load, ClassifierInv, StageInv
<1>2. CASE Decide("Unknown")
  BY <1>1, <1>2, DecideKeeps
<1>3. CASE stage' = "threshold" /\ UNCHANGED <<picture, brightThreshold, part, verdict>>
  BY <1>1, <1>3 DEF ClassifierInv, PictureType, ThresholdOfPicture, StageInv, DecidedInv, Stages, picture, part
<1>. QED
  BY <1>2, <1>3 DEF Load

LEMMA ThresholdKeeps == ClassifierInv /\ ComputeThreshold => ClassifierInv'
BY DEF ClassifierInv, ComputeThreshold, PictureType, ThresholdOfPicture, StageInv, DecidedInv, Stages, picture, part

LEMMA FindKeeps == ClassifierInv /\ FindBox => ClassifierInv'
<1>. SUFFICES ASSUME ClassifierInv, FindBox PROVE ClassifierInv'
  OBVIOUS
<1>1. /\ stage = "search" /\ stage' = "box" /\ box' \in Boxes \cup {NoBox}
      /\ share' = 0 /\ level' = level /\ dark' = dark /\ verdict' = verdict
  BY DEF FindBox
<1>2. level \in Levels /\ dark = NoDark /\ verdict = "none"
  BY <1>1 DEF ClassifierInv, PictureType, StageInv
<1>. QED
  BY <1>1, <1>2 DEF ClassifierInv, PictureType, ThresholdOfPicture, StageInv, DecidedInv, Stages

LEMMA CheckKeeps == ClassifierInv /\ CheckBox => ClassifierInv'
<1>. SUFFICES ASSUME ClassifierInv, CheckBox PROVE ClassifierInv'
  OBVIOUS
<1>1. stage = "box" /\ box \in Boxes \cup {NoBox} /\ verdict = "none" /\ level \in Levels
      /\ share \in Shares \cup {0}
  BY DEF CheckBox, ClassifierInv, StageInv, PictureType
<1>2. CASE box = NoBox \/ TooSmall(box)
  <2>1. Decide("Invalid")
    BY <1>2 DEF CheckBox
  <2>. QED
    BY <1>1, <1>2, <2>1, DecideKeeps
<1>3. CASE box # NoBox /\ ~TooSmall(box)
  <2>1. box \in Boxes /\ ~TooSmall(box)
    BY <1>1, <1>3
  <2>2. EnoughSamples(box)
    BY <2>1, SamplesAreEnough
  <2>3. PICK c \in 0 .. Size[box]["center"], g \in Some(Size[box]["gap"]),
             i \in Some(Size[box]["innerAnnulus"]), o \in Some(Size[box]["outerAnnulus"]),
             r \in Some(Size[box]["rim"]) :
          dark' = [center |-> c, gap |-> g, innerAnnulus |-> i, outerAnnulus |-> o, rim |-> r]
    BY <1>3, <2>2 DEF CheckBox
  <2>4. /\ stage' = "features" /\ box' = box /\ verdict' = "none"
        /\ level' = level /\ share' = share
    BY <1>1, <1>3, <2>2 DEF CheckBox, picture
  <2>5. \A z \in Zones : Size[box][z] \in 0 .. MaxImageDimension * MaxImageDimension
    BY <2>1, SizeWithin
  <2>6. \A z \in Zones : Size[box][z] \in Nat /\ Some(Size[box][z]) \subseteq 0 .. Size[box][z]
    BY <2>1, <2>5, ZonesFinite, ClassifierAssumption
  <2>7. /\ Size[box]["center"] \in Nat /\ Size[box]["gap"] \in Nat
        /\ Size[box]["innerAnnulus"] \in Nat /\ Size[box]["outerAnnulus"] \in Nat
        /\ Size[box]["rim"] \in Nat
        /\ c \in 0 .. Size[box]["center"] /\ g \in 0 .. Size[box]["gap"]
        /\ i \in 0 .. Size[box]["innerAnnulus"] /\ o \in 0 .. Size[box]["outerAnnulus"]
        /\ r \in 0 .. Size[box]["rim"]
    BY <2>6 DEF Zones
  <2>8. DarkPixels(box, dark')
    <3>1. dark' \in [Zones -> Nat]
      BY <2>3, <2>7 DEF Zones
    <3>2. \A z \in Zones : dark'[z] <= Size[box][z]
      BY <2>3, <2>7 DEF Zones
    <3>. QED
      BY <3>1, <3>2 DEF DarkPixels
  <2>9. FoundPart'
    BY <2>1, <2>4, <2>8 DEF FoundPart
  <2>. QED
    BY <1>1, <2>4, <2>9 DEF ClassifierInv, PictureType, ThresholdOfPicture, StageInv, DecidedInv, Stages
<1>. QED
  BY <1>2, <1>3

LEMMA JudgeKeeps == ClassifierInv /\ Judge => ClassifierInv'
<1>. SUFFICES ASSUME ClassifierInv, Judge PROVE ClassifierInv'
  OBVIOUS
<1>1. FoundPart
  BY DEF Judge, ClassifierInv, StageInv
<1>2. PICK v \in Verdicts(box, contrastOf, dark) : Decide(v)
  BY DEF Judge, contrastOf
<1>. QED
  BY <1>1, <1>2, DecideKeeps

LEMMA StillKeeps == ClassifierInv /\ UNCHANGED vars => ClassifierInv'
BY DEF ClassifierInv, vars, picture, part, PictureType, ThresholdOfPicture, StageInv, DecidedInv,
   FoundPart, contrastOf

(* At every stage of classifyWasher what was found out is so: the          *)
(* threshold is the picture's, the part has pixels enough in every zone,   *)
(* and a verdict is one that its rules allow.                              *)
THEOREM ClassifierIsSound == Spec => []ClassifierInv
<1>1. ClassifierInv /\ [Next]_vars => ClassifierInv'
  BY LoadKeeps, ThresholdKeeps, FindKeeps, CheckKeeps, JudgeKeeps, StillKeeps DEF Next
<1>. QED
  BY InitClassifier, <1>1, PTL DEF Spec

(* The threshold of any picture that computeAdaptiveBrightThreshold sees   *)
(* lies above the dark level and not above the bright one, within the      *)
(* limits the property names.                                              *)
THEOREM ThresholdAlwaysSeparates == Spec => []ThresholdSeparates
<1>1. ClassifierInv => ThresholdSeparates
  <2>. SUFFICES ASSUME ClassifierInv, stage = "search", share \in 5 .. 89,
                       contrastOf >= 8, level.bright >= 32, level.dark < 230
                PROVE  level.dark < brightThreshold /\ brightThreshold <= level.bright
    BY DEF ThresholdSeparates
  <2>1. level \in Levels /\ brightThreshold \in Thresholds(level, share)
    BY DEF ClassifierInv, PictureType, ThresholdOfPicture
  <2>2. level.bright \in 0 .. 255 /\ level.dark \in 0 .. 255
    BY <2>1, ClassifierAssumption
  <2>3. 8 <= level.bright - level.dark /\ 32 <= level.bright
    BY <2>2 DEF contrastOf
  <2>. QED
    BY <2>1, <2>3, ThresholdBetween
<1>. QED
  BY ClassifierIsSound, <1>1, PTL

(* A box of any size that computeHoleFeatures looks at has pixels enough:  *)
(* no picture that was read ends without a decision.                       *)
THEOREM ReadPictureIsAlwaysDecided == Spec => []ReadPictureIsDecided
<1>1. ClassifierInv => ReadPictureIsDecided
  <2>. SUFFICES ASSUME ClassifierInv, verdict = "Unknown" PROVE box = NoBox
    BY DEF ReadPictureIsDecided
  <2>1. stage = "decided"
    BY DEF ClassifierInv, StageInv
  <2>2. "Unknown" \notin Verdicts(box, contrastOf, dark)
    BY DEF Verdicts
  <2>. QED
    BY <2>1, <2>2 DEF ClassifierInv, DecidedInv
<1>. QED
  BY ClassifierIsSound, <1>1, PTL

(* What is judged is a part that was found.                                *)
LEMMA JudgedIsFound ==
  ASSUME ClassifierInv, Judged
  PROVE  /\ FoundPart /\ verdict \in Verdicts(box, contrastOf, dark)
         /\ contrastOf \in Nat
<1>1. stage = "decided"
  <2>1. verdict # "none"
    BY DEF Judged
  <2>. QED
    BY <2>1 DEF ClassifierInv, StageInv
<1>2. FoundPart /\ verdict \in Verdicts(box, contrastOf, dark)
  BY <1>1 DEF Judged, ClassifierInv, DecidedInv
<1>3. contrastOf \in Nat
  <2>1. level \in Levels
    BY DEF ClassifierInv, PictureType
  <2>. DEFINE low == level.dark
              high == level.bright
  <2>2. high \in 0 .. 255 /\ low \in 0 .. 255 /\ low < high /\ contrastOf = high - low
    BY <2>1, ClassifierAssumption DEF contrastOf
  <2>. HIDE DEF low, high
  <2>. QED
    BY <2>2
<1>. QED
  BY <1>2, <1>3

(* Whatever its size, a round part dark all over its center is a washer    *)
(* for likelyWasher exactly if its annulus is bright enough on average,    *)
(* and a uniform or a long part is none.                                   *)
THEOREM HoleAlwaysMakesWasher == Spec => []HoleMakesWasher
<1>1. ClassifierInv => HoleMakesWasher
  <2>. SUFFICES ASSUME ClassifierInv, Judged
                PROVE  /\ LikelyRoundPart(box) /\ CenterIsDark =>
                            (verdict = "Valid" <=> BrightAnnulus(dark))
                       /\ dark = NoDark \/ ~LikelyRoundPart(box) => verdict = "Invalid"
    BY DEF HoleMakesWasher
  <2>1. /\ box \in Boxes /\ ~TooSmall(box) /\ DarkPixels(box, dark)
        /\ verdict \in Verdicts(box, contrastOf, dark) /\ contrastOf \in Nat
    BY JudgedIsFound DEF FoundPart
  <2>2. /\ verdict \in {"Valid", "Invalid"}
        /\ verdict = "Valid" => LikelyRoundPart(box) /\ MayShowHole(box, contrastOf, dark)
        /\ verdict = "Invalid" => ~LikelyRoundPart(box) \/ MayShowNone(box, contrastOf, dark)
    BY <2>1 DEF Verdicts
  <2>3. ASSUME LikelyRoundPart(box), CenterIsDark
        PROVE  verdict = "Valid" <=> BrightAnnulus(dark)
    <3>1. dark["center"] = Size[box]["center"]
      BY <2>3 DEF CenterIsDark
    <3>2. BrightAnnulus(dark) <=> DarkEnough(box, contrastOf, dark)
      BY DEF BrightAnnulus, DarkEnough
    <3>3. CASE BrightAnnulus(dark)
      <4>1. ~MayShowNone(box, contrastOf, dark)
        BY <2>1, <3>1, <3>2, <3>3, WholeHole
      <4>. QED
        BY <2>2, <2>3, <3>3, <4>1
    <3>4. CASE ~BrightAnnulus(dark)
      <4>1. ~MayShowHole(box, contrastOf, dark)
        BY <2>1, <3>1, <3>2, <3>4, WholeHoleInShade
      <4>. QED
        BY <2>2, <3>4, <4>1
    <3>. QED
      BY <3>3, <3>4
  <2>4. ASSUME dark = NoDark \/ ~LikelyRoundPart(box)
        PROVE  verdict = "Invalid"
    <3>1. ~MayShowHole(box, contrastOf, NoDark)
      BY <2>1, UniformIsNone
    <3>. QED
      BY <2>2, <2>4, <3>1
  <2>. QED
    BY <2>3, <2>4
<1>. QED
  BY ClassifierIsSound, <1>1, PTL

(* For a part of any size that was called a washer, likelyWasher may say   *)
(* so again when one more pixel is dark, in its center or next to it; or   *)
(* anywhere, if its center is all dark and its annulus stays bright.       *)
THEOREM LargerHoleIsAlwaysWasher == Spec => []LargerHoleStillWasher
<1>1. ClassifierInv => LargerHoleStillWasher
  <2>. SUFFICES ASSUME ClassifierInv, Judged, verdict = "Valid", NEW z \in Zones,
                       dark[z] < Size[box][z],
                       z \in {"center", "gap"}
                         \/ (CenterIsDark /\ BrightAnnulus([dark EXCEPT ![z] = @ + 1]))
                PROVE  "Valid" \in Verdicts(box, contrastOf, [dark EXCEPT ![z] = @ + 1])
    BY DEF LargerHoleStillWasher
  <2>. DEFINE larger == OneMore(dark, z)
  <2>1. /\ box \in Boxes /\ ~TooSmall(box) /\ DarkPixels(box, dark) /\ dark \in [Zones -> Nat]
        /\ verdict \in Verdicts(box, contrastOf, dark) /\ contrastOf \in Nat
    BY JudgedIsFound DEF FoundPart, DarkPixels
  <2>2. LikelyRoundPart(box) /\ MayShowHole(box, contrastOf, dark)
    BY <2>1 DEF Verdicts
  <2>3. MayShowHole(box, contrastOf, larger)
    <3>1. CASE z \in {"center", "gap"}
      BY <2>1, <2>2, <3>1, LargerHole
    <3>2. CASE z \notin {"center", "gap"}
      <4>1. dark["center"] = Size[box]["center"] /\ BrightAnnulus(larger)
        BY <3>2 DEF CenterIsDark, OneMore
      <4>2. larger \in [Zones -> Nat] /\ \A y \in Zones : larger[y] = IF y = z THEN dark[y] + 1 ELSE dark[y]
        BY <2>1 DEF OneMore
      <4>3. DarkPixels(box, larger)
        <5>1. \A y \in Zones : larger[y] <= Size[box][y]
          <6>1. SUFFICES ASSUME NEW y \in Zones PROVE larger[y] <= Size[box][y]
            OBVIOUS
          <6>2. /\ dark[y] \in Nat /\ dark[y] <= Size[box][y] /\ Size[box][y] \in Nat
                /\ larger[y] = IF y = z THEN dark[y] + 1 ELSE dark[y]
            BY <2>1, <4>2, SizeIs DEF DarkPixels
          <6>. QED
            BY <6>2
        <5>. QED
          BY <4>2, <5>1 DEF DarkPixels
      <4>4. larger["center"] = Size[box]["center"]
        BY <3>2, <4>1, <4>2 DEF Zones
      <4>5. DarkEnough(box, contrastOf, larger)
        BY <4>1 DEF BrightAnnulus, DarkEnough
      <4>. QED
        BY <2>1, <4>3, <4>4, <4>5, WholeHole
    <3>. QED
      BY <3>1, <3>2
  <2>. QED
    BY <2>2, <2>3 DEF Verdicts, OneMore
<1>. QED
  BY ClassifierIsSound, <1>1, PTL

-----------------------------------------------------------------------------
(* The search for the part.                                                *)

(* Induction, with a set in place of a formula: the least number that is   *)
(* not in the set would have a predecessor that is.                        *)
LEMMA Inductive ==
  ASSUME NEW T, 0 \in T, \A n \in T \cap Nat : n + 1 \in T
  PROVE  Nat \subseteq T
<1>1. SUFFICES ASSUME Nat \ T # {} PROVE FALSE
  OBVIOUS
<1>2. PICK n \in Nat \ T : \A m \in Nat \ T : ~(<<m, n>> \in OpToRel(<, Nat))
  BY <1>1, WFMin, NatLessThanWellFounded
<1>3. \A m \in Nat \ T : ~(m < n)
  BY <1>2 DEF OpToRel
<1>4. n - 1 \in T \cap Nat /\ (n - 1) + 1 = n
  BY <1>3
<1>5. (n - 1) + 1 \in T
  BY <1>4
<1>. QED
  BY <1>4, <1>5

(* Values each of which is made of the one before.                         *)
Made(S, a, step, n, f) ==
  f \in [0 .. n -> S] /\ f[0] = a /\ \A i \in 1 .. n : f[i] = step[i][f[i - 1]]

LEMMA MadeLonger ==
  ASSUME NEW N \in Nat, NEW S, NEW a \in S, NEW step \in [1 .. N -> [S -> S]],
         NEW n \in Nat, n + 1 <= N, NEW f, Made(S, a, step, n, f)
  PROVE  \E g : Made(S, a, step, n + 1, g)
<1>. DEFINE v == step[n + 1][f[n]]
            g == [i \in 0 .. n + 1 |-> IF i = n + 1 THEN v ELSE f[i]]
<1>1. f \in [0 .. n -> S] /\ f[0] = a /\ \A i \in 1 .. n : f[i] = step[i][f[i - 1]]
  BY DEF Made
<1>2. v \in S
  BY <1>1
<1>. HIDE DEF v
<1>3. \A i \in 0 .. n : g[i] = f[i]
  OBVIOUS
<1>4. g[n + 1] = v
  OBVIOUS
<1>5. g \in [0 .. n + 1 -> S]
  BY <1>1, <1>2
<1>. HIDE DEF g
<1>6. ASSUME NEW i \in 1 .. n + 1 PROVE g[i] = step[i][g[i - 1]]
  <2>1. CASE i = n + 1
    <3>1. i - 1 = n /\ g[i - 1] = f[n]
      BY <1>3, <2>1
    <3>. QED
      BY <1>4, <2>1, <3>1 DEF v
  <2>2. CASE i \in 1 .. n
    <3>1. i \in 0 .. n /\ i - 1 \in 0 .. n
      BY <2>2
    <3>. QED
      BY <1>1, <1>3, <2>2, <3>1
  <2>. QED
    BY <2>1, <2>2
<1>7. g[0] = a
  BY <1>1, <1>3
<1>. QED
  BY <1>5, <1>6, <1>7 DEF Made

LEMMA Recursion ==
  ASSUME NEW N \in Nat, NEW S, NEW a \in S, NEW step \in [1 .. N -> [S -> S]]
  PROVE  \E f : Made(S, a, step, N, f)
<1>. DEFINE T == {n \in Nat : n <= N => \E f : Made(S, a, step, n, f)}
<1>1. 0 \in T
  <2>1. Made(S, a, step, 0, [i \in 0 .. 0 |-> a])
    BY DEF Made
  <2>. QED
    BY <2>1
<1>2. ASSUME NEW n \in T \cap Nat PROVE n + 1 \in T
  <2>1. ASSUME n + 1 <= N PROVE \E f : Made(S, a, step, n + 1, f)
    <3>1. PICK f : Made(S, a, step, n, f)
      BY <2>1
    <3>. QED
      BY <2>1, <3>1, MadeLonger
  <2>. QED
    BY <2>1
<1>. HIDE DEF T
<1>3. N \in T
  BY <1>1, <1>2, Inductive
<1>. QED
  BY <1>3 DEF T

-----------------------------------------------------------------------------
(* Regions.                                                                *)

(* The pixels that touch one of a set.                                     *)
Around(S) == UNION {bright \cap Touching(r) : r \in S}

LEMMA PicturesFinite ==
  ASSUME bright \subseteq Grid
  PROVE  IsFiniteSet(bright) /\ Cardinality(bright) \in Nat
<1>1. IsFiniteSet(0 .. Width - 1) /\ IsFiniteSet(0 .. Height - 1)
  BY BrightComponentsAssumption, FS_Interval
<1>2. IsFiniteSet(Grid)
  BY <1>1, FS_Product DEF Grid
<1>. QED
  BY <1>2, FS_Subset, FS_CardinalityType

(* The sets whose last one is the region of a pixel.                       *)
LEMMA RegionIs ==
  ASSUME NEW p \in bright, bright \subseteq Grid
  PROVE  \E w \in [0 .. Cardinality(bright) -> SUBSET bright] :
           /\ w[0] = {p} /\ \A n \in 1 .. Cardinality(bright) : w[n] = Around(w[n - 1])
           /\ Region(p) = w[Cardinality(bright)]
<1>. DEFINE N == Cardinality(bright)
            grow == [n \in 1 .. N |-> [S \in SUBSET bright |-> Around(S)]]
            made(w) == w = [n \in 0 .. N |->
                              IF n = 0 THEN {p}
                              ELSE UNION {bright \cap Touching(r) : r \in w[n - 1]}]
            within == CHOOSE w : made(w)
<1>1. N \in Nat
  BY PicturesFinite
<1>2. \A S \in SUBSET bright : Around(S) \in SUBSET bright
  BY DEF Around
<1>3. grow \in [1 .. N -> [SUBSET bright -> SUBSET bright]]
  BY <1>2, Zenon
<1>4. PICK f : Made(SUBSET bright, {p}, grow, N, f)
  BY <1>1, <1>3, Recursion, Zenon
<1>5. /\ f \in [0 .. N -> SUBSET bright] /\ f[0] = {p}
      /\ \A n \in 1 .. N : f[n] = Around(f[n - 1])
  <2>1. /\ f \in [0 .. N -> SUBSET bright] /\ f[0] = {p}
        /\ \A n \in 1 .. N : f[n] = grow[n][f[n - 1]]
    BY <1>4 DEF Made
  <2>2. \A n \in 1 .. N : n - 1 \in 0 .. N
    BY <1>1
  <2>3. \A n \in 1 .. N, S \in SUBSET bright : grow[n][S] = Around(S)
    BY Zenon
  <2>. HIDE DEF grow, N
  <2>. QED
    BY <2>1, <2>2, <2>3
<1>6. made(f)
  <2>1. \A n \in 0 .. N : n # 0 => n \in 1 .. N
    BY <1>1
  <2>. QED
    BY <1>5, <2>1 DEF Around
<1>7. made(within)
  BY <1>6, Zenon
<1>8. Region(p) = within[N]
  BY Zenon DEF Region
<1>. HIDE DEF within
<1>9. /\ within[0] = {p} /\ DOMAIN within = 0 .. N
      /\ \A n \in 1 .. N : within[n] = Around(within[n - 1])
  <2>1. \A n \in 1 .. N : n \in 0 .. N /\ n # 0
    BY <1>1
  <2>2. 0 \in 0 .. N
    BY <1>1
  <2>. QED
    BY <1>7, <2>1, <2>2, Zenon DEF Around
<1>10. ASSUME NEW n \in 0 .. N PROVE within[n] \in SUBSET bright
  <2>1. n = 0 \/ n \in 1 .. N
    BY <1>1
  <2>. QED
    BY <1>9, <2>1 DEF Around
<1>11. within \in [0 .. N -> SUBSET bright]
  <2>1. within = [n \in 0 .. N |-> within[n]]
    BY <1>7, Zenon
  <2>. QED
    BY <1>10, <2>1, Zenon
<1>. QED
  BY <1>8, <1>9, <1>11, Zenon

(* Touching is mutual, and each pixel touches itself.                      *)
LEMMA TouchingIs ==
  ASSUME NEW p \in Grid, NEW q \in Grid
  PROVE  p \in Touching(p) /\ (p \in Touching(q) <=> q \in Touching(p))
BY BrightComponentsAssumption DEF Touching, Grid

(* A set that all that touches it is in.                                   *)
Closed(S) == \A q \in S : bright \cap Touching(q) \subseteq S

LEMMA AroundIs ==
  ASSUME bright \subseteq Grid, NEW S \in SUBSET bright
  PROVE  S \subseteq Around(S) /\ (Around(S) \subseteq S <=> Closed(S))
<1>1. S \subseteq Around(S)
  <2>1. \A q \in S : q \in bright \cap Touching(q)
    BY TouchingIs
  <2>. QED
    BY <2>1 DEF Around
<1>. QED
  BY <1>1 DEF Around, Closed

(* A region is contained in every closed set with its first pixel, ...     *)
LEMMA RegionIsLeast ==
  ASSUME NEW p \in bright, bright \subseteq Grid, NEW S, p \in S, Closed(S)
  PROVE  Region(p) \subseteq S
<1>. DEFINE N == Cardinality(bright)
<1>1. N \in Nat
  BY PicturesFinite
<1>2. PICK w \in [0 .. N -> SUBSET bright] :
             /\ w[0] = {p} /\ \A n \in 1 .. N : w[n] = Around(w[n - 1])
             /\ Region(p) = w[N]
  BY RegionIs
<1>. DEFINE T == {n \in Nat : n <= N => w[n] \subseteq S}
<1>. HIDE DEF N
<1>3. 0 \in T
  BY <1>2
<1>4. ASSUME NEW n \in T \cap Nat PROVE n + 1 \in T
  <2>1. ASSUME n + 1 <= N PROVE w[n + 1] \subseteq S
    <3>1. w[n] \subseteq S /\ n + 1 \in 1 .. N /\ (n + 1) - 1 = n
      BY <1>1, <2>1
    <3>2. w[n + 1] = Around(w[n])
      BY <1>2, <3>1
    <3>. QED
      BY <3>1, <3>2 DEF Around, Closed
  <2>. QED
    BY <2>1
<1>. HIDE DEF T
<1>5. N \in T
  BY <1>1, <1>3, <1>4, Inductive
<1>. QED
  BY <1>1, <1>2, <1>5 DEF T

(* ... which it is itself: as long as it is not, the sets it is made of    *)
(* grow by a pixel at least.                                               *)
LEMMA RegionIsClosed ==
  ASSUME NEW p \in bright, bright \subseteq Grid
  PROVE  Region(p) \subseteq bright /\ p \in Region(p) /\ Closed(Region(p))
<1>. DEFINE N == Cardinality(bright)
<1>1. N \in Nat
  BY PicturesFinite
<1>2. PICK w \in [0 .. N -> SUBSET bright] :
             /\ w[0] = {p} /\ \A n \in 1 .. N : w[n] = Around(w[n - 1])
             /\ Region(p) = w[N]
  BY RegionIs
<1>3. \A n \in 0 .. N : /\ w[n] \in SUBSET bright /\ IsFiniteSet(w[n])
                        /\ Cardinality(w[n]) \in Nat /\ Cardinality(w[n]) <= N
  BY PicturesFinite, FS_Subset, FS_CardinalityType
<1>. DEFINE T == {n \in Nat : n <= N => /\ p \in w[n]
                                       /\ (Closed(w[n]) \/ n + 1 <= Cardinality(w[n]))}
<1>. HIDE DEF N
<1>4. 0 \in T
  <2>1. Cardinality({p}) = 1
    BY FS_Singleton
  <2>. QED
    BY <1>2, <2>1
<1>5. ASSUME NEW n \in T \cap Nat PROVE n + 1 \in T
  <2>1. ASSUME n + 1 <= N
        PROVE  p \in w[n + 1] /\ (Closed(w[n + 1]) \/ n + 2 <= Cardinality(w[n + 1]))
    <3>1. /\ p \in w[n] /\ (Closed(w[n]) \/ n + 1 <= Cardinality(w[n]))
          /\ n \in 0 .. N /\ n + 1 \in 0 .. N /\ n + 1 \in 1 .. N /\ (n + 1) - 1 = n
      BY <1>1, <2>1
    <3>2. w[n + 1] = Around(w[n]) /\ w[n] \in SUBSET bright
      BY <1>2, <3>1
    <3>3. w[n] \subseteq w[n + 1] /\ (w[n + 1] \subseteq w[n] <=> Closed(w[n]))
      BY <3>2, AroundIs
    <3>4. CASE Closed(w[n])
      <4>1. w[n + 1] = w[n]
        BY <3>3, <3>4
      <4>. QED
        BY <3>1, <3>4, <4>1
    <3>5. CASE ~Closed(w[n])
      <4>1. n + 1 <= Cardinality(w[n]) /\ w[n] # w[n + 1]
        BY <3>1, <3>3, <3>5
      <4>2. Cardinality(w[n]) < Cardinality(w[n + 1])
        <5>1. IsFiniteSet(w[n + 1]) /\ IsFiniteSet(w[n])
              /\ Cardinality(w[n]) \in Nat /\ Cardinality(w[n + 1]) \in Nat
          BY <1>3, <3>1
        <5>2. /\ Cardinality(w[n]) <= Cardinality(w[n + 1])
              /\ (Cardinality(w[n]) = Cardinality(w[n + 1]) => w[n] = w[n + 1])
          BY <3>3, <5>1, FS_Subset
        <5>. QED
          BY <4>1, <5>1, <5>2
      <4>3. Cardinality(w[n]) \in Nat /\ Cardinality(w[n + 1]) \in Nat
        BY <1>3, <3>1
      <4>. QED
        BY <3>1, <3>3, <4>1, <4>2, <4>3
    <3>. QED
      BY <3>4, <3>5
  <2>2. n + 1 \in Nat /\ (n + 1) + 1 = n + 2
    OBVIOUS
  <2>. QED
    BY <2>1, <2>2
<1>. HIDE DEF T
<1>6. N \in T
  BY <1>1, <1>4, <1>5, Inductive
<1>7. p \in w[N] /\ (Closed(w[N]) \/ N + 1 <= Cardinality(w[N]))
  BY <1>1, <1>6 DEF T
<1>8. w[N] \in SUBSET bright /\ Cardinality(w[N]) \in Nat /\ Cardinality(w[N]) <= N
  BY <1>1, <1>3
<1>. QED
  BY <1>1, <1>2, <1>7, <1>8

(* All pixels of a region have the same region.                            *)
LEMMA RegionOfEach ==
  ASSUME NEW p \in bright, bright \subseteq Grid, NEW q \in Region(p)
  PROVE  q \in bright /\ Region(q) = Region(p)
<1>. DEFINE back == {r \in Region(p) : p \in Region(r)}
<1>1. Region(p) \subseteq bright /\ p \in Region(p) /\ Closed(Region(p))
  BY RegionIsClosed
<1>2. q \in bright
  BY <1>1
<1>3. Region(q) \subseteq Region(p)
  BY <1>1, <1>2, RegionIsLeast
<1>4. Closed(back)
  <2>1. SUFFICES ASSUME NEW r \in back, NEW s \in bright \cap Touching(r) PROVE s \in back
    BY Zenon DEF Closed
  <2>2. r \in bright /\ r \in Region(p) /\ p \in Region(r) /\ s \in Region(p)
    BY <1>1 DEF Closed
  <2>3. r \in Touching(s)
    BY <2>2, TouchingIs
  <2>4. s \in Region(s) /\ Closed(Region(s))
    BY RegionIsClosed
  <2>5. r \in Region(s)
    BY <2>2, <2>3, <2>4 DEF Closed
  <2>6. Region(r) \subseteq Region(s)
    BY <2>2, <2>4, <2>5, RegionIsLeast
  <2>. QED
    BY <2>2, <2>6
<1>5. p \in back
  BY <1>1
<1>. HIDE DEF back
<1>6. Region(p) \subseteq back
  BY <1>4, <1>5, RegionIsLeast
<1>7. p \in Region(q)
  BY <1>6 DEF back
<1>8. Region(p) \subseteq Region(q)
  BY <1>2, <1>7, RegionIsClosed, RegionIsLeast
<1>. QED
  BY <1>2, <1>3, <1>8

-----------------------------------------------------------------------------
(* The stack.                                                              *)
Distinct(s) == \A i, j \in 1 .. Len(s) : s[i] = s[j] => i = j

LEMMA AppendAdds ==
  ASSUME NEW S, NEW s \in Seq(S), NEW x \in S
  PROVE  /\ Append(s, x) \in Seq(S) /\ ToSet(Append(s, x)) = ToSet(s) \cup {x}
         /\ Distinct(s) /\ x \notin ToSet(s) => Distinct(Append(s, x))
<1>1. /\ Append(s, x) \in Seq(S) /\ Len(Append(s, x)) = Len(s) + 1
      /\ \A i \in 1 .. Len(s) : Append(s, x)[i] = s[i]
      /\ Append(s, x)[Len(s) + 1] = x
      /\ Len(s) \in Nat /\ DOMAIN s = 1 .. Len(s)
      /\ DOMAIN Append(s, x) = 1 .. Len(s) + 1
  BY AppendProperties, LenProperties
<1>. QED
  BY <1>1 DEF ToSet, Distinct

LEMMA ConcatAdds ==
  ASSUME NEW S, NEW s \in Seq(S), NEW t \in Seq(S)
  PROVE  /\ s \o t \in Seq(S) /\ ToSet(s \o t) = ToSet(s) \cup ToSet(t)
         /\ Distinct(s) /\ Distinct(t) /\ ToSet(s) \cap ToSet(t) = {} => Distinct(s \o t)
<1>1. /\ s \o t \in Seq(S) /\ Len(s \o t) = Len(s) + Len(t)
      /\ \A i \in 1 .. Len(s) + Len(t) : (s \o t)[i] = IF i <= Len(s) THEN s[i] ELSE t[i - Len(s)]
      /\ Len(s) \in Nat /\ Len(t) \in Nat
      /\ DOMAIN s = 1 .. Len(s) /\ DOMAIN t = 1 .. Len(t)
      /\ DOMAIN (s \o t) = 1 .. Len(s) + Len(t)
  BY ConcatProperties, LenProperties
<1>2. \A i \in 1 .. Len(t) : (s \o t)[Len(s) + i] = t[i] /\ Len(s) + i \in 1 .. Len(s) + Len(t)
  BY <1>1
<1>3. \A i \in 1 .. Len(s) + Len(t) : i \in 1 .. Len(s) \/ i - Len(s) \in 1 .. Len(t)
  BY <1>1
<1>4. ASSUME NEW i \in 1 .. Len(s) + Len(t)
      PROVE  \/ i \in 1 .. Len(s) /\ (s \o t)[i] = s[i]
             \/ i - Len(s) \in 1 .. Len(t) /\ (s \o t)[i] = t[i - Len(s)]
  BY <1>1
<1>5. \A i \in 1 .. Len(s) : (s \o t)[i] = s[i] /\ i \in 1 .. Len(s) + Len(t)
  BY <1>1
<1>6. ToSet(s \o t) = ToSet(s) \cup ToSet(t)
  <2>1. ToSet(s \o t) \subseteq ToSet(s) \cup ToSet(t)
    BY <1>1, <1>4, Zenon DEF ToSet
  <2>2. ToSet(s) \subseteq ToSet(s \o t)
    BY <1>1, <1>5, Zenon DEF ToSet
  <2>3. ASSUME NEW i \in 1 .. Len(t) PROVE t[i] \in ToSet(s \o t)
    <3>1. Len(s) + i \in DOMAIN (s \o t) /\ (s \o t)[Len(s) + i] = t[i]
      BY <1>1, <1>2
    <3>. QED
      BY <3>1, Zenon DEF ToSet
  <2>. QED
    BY <1>1, <2>1, <2>2, <2>3 DEF ToSet
<1>7. ASSUME Distinct(s), Distinct(t), ToSet(s) \cap ToSet(t) = {},
             NEW i \in 1 .. Len(s) + Len(t), NEW j \in 1 .. Len(s) + Len(t),
             (s \o t)[i] = (s \o t)[j]
      PROVE  i = j
  <2>1. \A k \in 1 .. Len(s), l \in 1 .. Len(t) : s[k] # t[l]
    BY <1>1, <1>7, Zenon DEF ToSet
  <2>2. CASE i \in 1 .. Len(s) /\ (s \o t)[i] = s[i]
    BY <1>4, <1>7, <2>1, <2>2 DEF Distinct
  <2>3. CASE i - Len(s) \in 1 .. Len(t) /\ (s \o t)[i] = t[i - Len(s)]
    <3>1. j - Len(s) \in 1 .. Len(t) /\ (s \o t)[j] = t[j - Len(s)]
      BY <1>4, <1>7, <2>1, <2>3
    <3>2. i - Len(s) = j - Len(s)
      BY <1>7, <2>3, <3>1 DEF Distinct
    <3>. QED
      BY <1>1, <3>2
  <2>. QED
    BY <1>4, <2>2, <2>3
<1>. QED
  BY <1>1, <1>6, <1>7 DEF Distinct

LEMMA FrontTakes ==
  ASSUME NEW S, NEW s \in Seq(S), s # <<>>
  PROVE  /\ Last(s) \in S /\ Last(s) \in ToSet(s) /\ Front(s) \in Seq(S)
         /\ Distinct(s) => Distinct(Front(s)) /\ ToSet(Front(s)) = ToSet(s) \ {Last(s)}
<1>1. Len(s) \in Nat /\ Len(s) # 0 /\ DOMAIN s = 1 .. Len(s) /\ \A i \in 1 .. Len(s) : s[i] \in S
  BY EmptySeq, LenProperties, ElementOfSeq
<1>2. /\ Front(s) \in Seq(S) /\ Len(Front(s)) = Len(s) - 1
      /\ DOMAIN Front(s) = 1 .. Len(s) - 1
      /\ \A i \in 1 .. Len(s) - 1 : Front(s)[i] = s[i]
  BY <1>1 DEF Front
<1>3. Last(s) \in S /\ Last(s) \in ToSet(s)
  BY <1>1 DEF Last, ToSet
<1>. QED
  BY <1>1, <1>2, <1>3 DEF Last, ToSet, Distinct

-----------------------------------------------------------------------------
(* The neighbours of a pixel.                                              *)
LEMMA NineAre ==
  ASSUME NEW p \in Grid
  PROVE  /\ {Beside(p, i) : i \in 1 .. 9} = Touching(p)
         /\ \A i, j \in 1 .. 9 : Beside(p, i) = Beside(p, j) => i = j
<1>1. p[1] \in Int /\ p[2] \in Int
  BY BrightComponentsAssumption DEF Grid
<1>2. \A i \in 1 .. 9 : /\ (i - 1) % 3 \in 0 .. 2 /\ (i - 1) \div 3 \in 0 .. 2
                        /\ i = 1 + 3 * ((i - 1) \div 3) + ((i - 1) % 3)
  OBVIOUS
<1>3. \A i, j \in 1 .. 9 : Beside(p, i) = Beside(p, j) => i = j
  BY <1>1, <1>2 DEF Beside
<1>4. ASSUME NEW i \in 1 .. 9 PROVE Beside(p, i) \in Touching(p)
  BY <1>1, <1>2 DEF Beside, Touching
<1>5. ASSUME NEW q \in Touching(p) PROVE \E i \in 1 .. 9 : q = Beside(p, i)
  <2>1. PICK a \in 0 .. 2, b \in 0 .. 2 : q = <<p[1] - 1 + a, p[2] - 1 + b>>
    BY <1>1 DEF Touching
  <2>. DEFINE i == 1 + 3 * b + a
  <2>2. i \in 1 .. 9 /\ (i - 1) % 3 = a /\ (i - 1) \div 3 = b
    BY <2>1
  <2>. QED
    BY <2>1, <2>2 DEF Beside
<1>. QED
  BY <1>3, <1>4, <1>5

(* Those of the first n that are to be visited.                            *)
Worth(p, n) == {Beside(p, i) : i \in 1 .. n} \cap (Visitable \ {p})
Adds(p, i, s) == IF Beside(p, i) # p /\ Beside(p, i) \in Visitable THEN Append(s, Beside(p, i)) ELSE s
Kept(p, n, s) == s \in Seq(Visitable) /\ Distinct(s) /\ ToSet(s) = Worth(p, n)

LEMMA KeptMore ==
  ASSUME NEW p \in Grid, NEW n \in 0 .. 8, NEW s, Kept(p, n, s)
  PROVE  Kept(p, n + 1, Adds(p, n + 1, s))
<1>1. s \in Seq(Visitable) /\ Distinct(s) /\ ToSet(s) = Worth(p, n)
  BY DEF Kept
<1>. DEFINE q == Beside(p, n + 1)
<1>2. q \notin {Beside(p, i) : i \in 1 .. n}
  BY NineAre
<1>3. {Beside(p, i) : i \in 1 .. n + 1} = {Beside(p, i) : i \in 1 .. n} \cup {q}
  <2>1. 1 .. n + 1 = (1 .. n) \cup {n + 1}
    OBVIOUS
  <2>. QED
    BY <2>1, Zenon
<1>. HIDE DEF q
<1>4. CASE q # p /\ q \in Visitable
  <2>1. Worth(p, n + 1) = Worth(p, n) \cup {q} /\ q \notin Worth(p, n)
    BY <1>2, <1>3, <1>4, Zenon DEF Worth
  <2>2. Adds(p, n + 1, s) = Append(s, q)
    BY <1>4 DEF Adds, q
  <2>3. /\ Append(s, q) \in Seq(Visitable) /\ ToSet(Append(s, q)) = ToSet(s) \cup {q}
        /\ Distinct(s) /\ q \notin ToSet(s) => Distinct(Append(s, q))
    BY <1>1, <1>4, AppendAdds, Zenon
  <2>. QED
    BY <1>1, <2>1, <2>2, <2>3, Zenon DEF Kept
<1>5. CASE ~(q # p /\ q \in Visitable)
  <2>1. Worth(p, n + 1) = Worth(p, n)
    BY <1>3, <1>5, Zenon DEF Worth
  <2>2. Adds(p, n + 1, s) = s
    BY <1>5 DEF Adds, q
  <2>. QED
    BY <1>1, <2>1, <2>2 DEF Kept
<1>. QED
  BY <1>4, <1>5

LEMMA NeighboursAre ==
  ASSUME NEW p \in Grid
  PROVE  /\ Neighbours(p) \in Seq(Visitable) /\ Distinct(Neighbours(p))
         /\ ToSet(Neighbours(p)) = Touching(p) \cap (Visitable \ {p})
<1>. DEFINE grow == [i \in 1 .. 9 |-> [s \in Seq(Visitable) |-> Adds(p, i, s)]]
            made(k) == k = [i \in 0 .. 9 |->
                              IF i = 0 THEN <<>>
                              ELSE IF Beside(p, i) # p /\ Beside(p, i) \in Visitable
                                   THEN Append(k[i - 1], Beside(p, i))
                              ELSE k[i - 1]]
            kept == CHOOSE k : made(k)
<1>1. \A i \in 1 .. 9, s \in Seq(Visitable) : Adds(p, i, s) \in Seq(Visitable)
  BY AppendProperties DEF Adds
<1>2. grow \in [1 .. 9 -> [Seq(Visitable) -> Seq(Visitable)]]
  BY <1>1, Zenon
<1>3. <<>> \in Seq(Visitable) /\ 9 \in Nat
  BY EmptySeq
<1>4. PICK f : Made(Seq(Visitable), <<>>, grow, 9, f)
  BY <1>2, <1>3, Recursion, Zenon
<1>5. /\ f \in [0 .. 9 -> Seq(Visitable)] /\ f[0] = <<>>
      /\ \A n \in 1 .. 9 : f[n] = Adds(p, n, f[n - 1])
  <2>1. /\ f \in [0 .. 9 -> Seq(Visitable)] /\ f[0] = <<>>
        /\ \A n \in 1 .. 9 : f[n] = grow[n][f[n - 1]]
    BY <1>4 DEF Made
  <2>2. \A n \in 1 .. 9 : n - 1 \in 0 .. 9
    OBVIOUS
  <2>3. \A n \in 1 .. 9, s \in Seq(Visitable) : grow[n][s] = Adds(p, n, s)
    BY Zenon
  <2>. HIDE DEF grow
  <2>. QED
    BY <2>1, <2>2, <2>3
<1>6. made(f)
  <2>1. \A n \in 0 .. 9 : n # 0 => n \in 1 .. 9
    OBVIOUS
  <2>2. f = [n \in 0 .. 9 |-> f[n]]
    BY <1>5, Zenon
  <2>3. \A n \in 0 .. 9 : f[n] = IF n = 0 THEN <<>>
                                 ELSE IF Beside(p, n) # p /\ Beside(p, n) \in Visitable
                                      THEN Append(f[n - 1], Beside(p, n))
                                 ELSE f[n - 1]
    BY <1>5, <2>1, Zenon DEF Adds
  <2>. QED
    BY <2>2, <2>3, Zenon
<1>7. made(kept)
  BY <1>6, Zenon
<1>8. Neighbours(p) = kept[9]
  BY Zenon DEF Neighbours
<1>. HIDE DEF kept
<1>9. kept[0] = <<>> /\ \A n \in 1 .. 9 : kept[n] = Adds(p, n, kept[n - 1])
  <2>1. \A n \in 1 .. 9 : n \in 0 .. 9 /\ n # 0
    OBVIOUS
  <2>2. 0 \in 0 .. 9
    OBVIOUS
  <2>. QED
    BY <1>7, <2>1, <2>2, Zenon DEF Adds
<1>. DEFINE T == {n \in Nat : n <= 9 => Kept(p, n, kept[n])}
<1>10. 0 \in T
  <2>1. ToSet(<<>>) = {} /\ Worth(p, 0) = {} /\ Distinct(<<>>)
    BY EmptySeq DEF ToSet, Worth, Distinct
  <2>. QED
    BY <1>3, <1>9, <2>1 DEF Kept
<1>11. ASSUME NEW n \in T \cap Nat PROVE n + 1 \in T
  <2>1. ASSUME n + 1 <= 9 PROVE Kept(p, n + 1, kept[n + 1])
    <3>1. n \in 0 .. 8 /\ Kept(p, n, kept[n]) /\ n + 1 \in 1 .. 9 /\ (n + 1) - 1 = n
      BY <2>1
    <3>2. kept[n + 1] = Adds(p, n + 1, kept[n])
      BY <1>9, <3>1
    <3>. QED
      BY <3>1, <3>2, KeptMore
  <2>. QED
    BY <2>1
<1>. HIDE DEF T
<1>12. 9 \in T
  BY <1>3, <1>10, <1>11, Inductive
<1>13. Kept(p, 9, kept[9])
  BY <1>12 DEF T
<1>. QED
  BY <1>8, <1>13, NineAre DEF Kept, Worth

-----------------------------------------------------------------------------
(* What is recorded of a region.                                           *)
Components == [area : Nat, touchesBorder : BOOLEAN,
               box : [minX : Int, minY : Int, maxX : Int, maxY : Int]]

IsLeast(S, c, v) == (\E p \in S : p[c] = v) /\ \A p \in S : v <= p[c]
IsMost(S, c, v) == (\E p \in S : p[c] = v) /\ \A p \in S : p[c] <= v
Bounds(b, S) == /\ IsLeast(S, 1, b.minX) /\ IsLeast(S, 2, b.minY)
                /\ IsMost(S, 1, b.maxX) /\ IsMost(S, 2, b.maxY)

LEMMA PixelIs ==
  ASSUME NEW p \in Grid
  PROVE  p[1] \in Int /\ p[2] \in Int /\ p = <<p[1], p[2]>>
BY BrightComponentsAssumption DEF Grid

LEMMA ExtremesAre ==
  ASSUME NEW S, S \subseteq Grid, NEW c \in {1, 2}, NEW v \in Int
  PROVE  /\ IsLeast(S, c, v) => (CHOOSE p \in S : \A q \in S : ~(p[c] > q[c]))[c] = v
         /\ IsMost(S, c, v) => (CHOOSE p \in S : \A q \in S : ~(p[c] < q[c]))[c] = v
<1>1. \A p \in S : p[c] \in Int
  BY PixelIs
<1>2. ASSUME IsLeast(S, c, v)
      PROVE  (CHOOSE p \in S : \A q \in S : ~(p[c] > q[c]))[c] = v
  <2>1. \A p \in S : (\A q \in S : ~(p[c] > q[c])) <=> p[c] = v
    BY <1>1, <1>2 DEF IsLeast
  <2>2. \E p \in S : \A q \in S : ~(p[c] > q[c])
    BY <1>2, <2>1 DEF IsLeast
  <2>. QED
    BY <2>1, <2>2, Zenon
<1>3. ASSUME IsMost(S, c, v)
      PROVE  (CHOOSE p \in S : \A q \in S : ~(p[c] < q[c]))[c] = v
  <2>1. \A p \in S : (\A q \in S : ~(p[c] < q[c])) <=> p[c] = v
    BY <1>1, <1>3 DEF IsMost
  <2>2. \E p \in S : \A q \in S : ~(p[c] < q[c])
    BY <1>3, <2>1 DEF IsMost
  <2>. QED
    BY <2>1, <2>2, Zenon
<1>. QED
  BY <1>2, <1>3

LEMMA ShapeIs ==
  ASSUME NEW R, R \subseteq Grid, NEW c \in Components,
         c.area = Cardinality(R), c.touchesBorder <=> \E p \in R : OnBorder(p),
         Bounds(c.box, R)
  PROVE  c = Shape(R)
<1>. DEFINE minX == (CHOOSE p \in R : \A q \in R : ~(p[1] > q[1]))[1]
            minY == (CHOOSE p \in R : \A q \in R : ~(p[2] > q[2]))[2]
            maxX == (CHOOSE p \in R : \A q \in R : ~(p[1] < q[1]))[1]
            maxY == (CHOOSE p \in R : \A q \in R : ~(p[2] < q[2]))[2]
            touches == \E p \in R : OnBorder(p)
<1>1. Shape(R) = [area |-> Cardinality(R), touchesBorder |-> touches,
                  box |-> [minX |-> minX, minY |-> minY, maxX |-> maxX, maxY |-> maxY]]
  BY Zenon DEF Shape, Extreme
<1>2. c.box.minX = minX /\ c.box.minY = minY /\ c.box.maxX = maxX /\ c.box.maxY = maxY
  <2>1. c.box.minX \in Int /\ c.box.minY \in Int /\ c.box.maxX \in Int /\ c.box.maxY \in Int
    BY DEF Components
  <2>2. c.box.minX = minX
    BY <2>1, ExtremesAre, Zenon DEF Bounds
  <2>3. c.box.minY = minY
    BY <2>1, ExtremesAre, Zenon DEF Bounds
  <2>4. c.box.maxX = maxX
    BY <2>1, ExtremesAre, Zenon DEF Bounds
  <2>5. c.box.maxY = maxY
    BY <2>1, ExtremesAre, Zenon DEF Bounds
  <2>. QED
    BY <2>2, <2>3, <2>4, <2>5
<1>3. c.touchesBorder = touches
  BY DEF Components
<1>. HIDE DEF minX, minY, maxX, maxY, touches
<1>4. c.box = [minX |-> minX, minY |-> minY, maxX |-> maxX, maxY |-> maxY]
  BY <1>2 DEF Components
<1>5. c = [area |-> c.area, touchesBorder |-> c.touchesBorder, box |-> c.box]
  BY DEF Components
<1>. QED
  BY <1>1, <1>3, <1>4, <1>5

(* One pixel more.                                                         *)
LEMMA BoundsOfMore ==
  ASSUME NEW S, S \subseteq Grid, NEW p \in Grid, NEW c \in Components, Bounds(c.box, S)
  PROVE  Bounds(WithPixel(c, p).box, S \cup {p})
<1>1. /\ c.box.minX \in Int /\ c.box.minY \in Int /\ c.box.maxX \in Int /\ c.box.maxY \in Int
      /\ p[1] \in Int /\ p[2] \in Int /\ \A q \in S : q[1] \in Int /\ q[2] \in Int
  BY PixelIs DEF Components
<1>2. /\ WithPixel(c, p).box.minX = MinOf(c.box.minX, p[1])
      /\ WithPixel(c, p).box.minY = MinOf(c.box.minY, p[2])
      /\ WithPixel(c, p).box.maxX = MaxOf(c.box.maxX, p[1])
      /\ WithPixel(c, p).box.maxY = MaxOf(c.box.maxY, p[2])
  BY DEF WithPixel
<1>3. \A i \in {1, 2}, v \in Int :
        /\ IsLeast(S, i, v) => IsLeast(S \cup {p}, i, MinOf(v, p[i]))
        /\ IsMost(S, i, v) => IsMost(S \cup {p}, i, MaxOf(v, p[i]))
  BY <1>1 DEF IsLeast, IsMost, MinOf, MaxOf
<1>. QED
  BY <1>1, <1>2, <1>3, Zenon DEF Bounds

(* The order of the scan is total, and none is before itself.              *)
LEMMA ScanOrder ==
  ASSUME NEW p \in Grid, NEW q \in Grid
  PROVE  ~(Before(p, q) /\ Before(q, p)) /\ (Before(p, q) \/ Before(q, p) \/ p = q)
BY PixelIs DEF Before

LEMMA BeginningIs ==
  ASSUME NEW R, R \subseteq Grid, NEW p \in R, \A q \in R : q = p \/ Before(p, q)
  PROVE  Beginning(R) = p
<1>1. \A q \in R : ~Before(q, p)
  BY ScanOrder
<1>2. \A r \in R : (\A q \in R : ~Before(q, r)) => r = p
  OBVIOUS
<1>. QED
  BY <1>1, <1>2, Zenon DEF Beginning

-----------------------------------------------------------------------------
(* The largest of the regions found.                                       *)
Entry(R) == [shape |-> Shape(R), start |-> Beginning(R)]
Entries(V) == {Entry(Region(p)) : p \in V}
Large(V) == {r \in Entries(V) : r.shape.area >= MinComponentAreaPixels}
Inside(V) == {r \in Large(V) : ~r.shape.touchesBorder}

Exceeds(r, q) == \/ q.shape.area < r.shape.area
                 \/ q.shape.area = r.shape.area /\ Before(r.start, q.start)
Best(c, S) == \/ S = {} /\ c = NoComponent
              \/ \E r \in S : c = r.shape /\ \A q \in S \ {r} : Exceeds(r, q)

IsEntry(r) == r.shape \in Components /\ r.start \in Grid

LEMMA LargestIs ==
  ASSUME NEW S, \A r \in S : IsEntry(r), NEW c, Best(c, S), S # {}
  PROVE  Largest(S) = c
<1>1. PICK r \in S : c = r.shape /\ \A q \in S \ {r} : Exceeds(r, q)
  BY DEF Best
<1>2. ASSUME NEW s \in S, \A q \in S \ {s} : Exceeds(s, q) PROVE s = r
  <2>1. SUFFICES ASSUME s # r PROVE FALSE
    OBVIOUS
  <2>2. Exceeds(r, s) /\ Exceeds(s, r)
    BY <1>1, <1>2, <2>1
  <2>3. r.shape.area \in Int /\ s.shape.area \in Int /\ r.start \in Grid /\ s.start \in Grid
    BY DEF IsEntry, Components
  <2>. QED
    BY <2>2, <2>3, ScanOrder DEF Exceeds
<1>3. r = CHOOSE s \in S : \A q \in S \ {s} : Exceeds(s, q)
  BY <1>1, <1>2, Zenon
<1>4. Largest(S) = (CHOOSE s \in S : \A q \in S \ {s} : Exceeds(s, q)).shape
  BY Zenon DEF Largest, Exceeds
<1>. QED
  BY <1>1, <1>3, <1>4

(* A region found later takes the place of the largest if it is larger.    *)
LEMMA BestOfMore ==
  ASSUME NEW S, \A q \in S : IsEntry(q), NEW c, Best(c, S),
         NEW r, IsEntry(r), r.shape.area > 0, \A q \in S : Before(q.start, r.start)
  PROVE  Best(Larger(c, r.shape), S \cup {r})
<1>1. /\ r.shape.area \in Int /\ r.start \in Grid
      /\ \A q \in S : q.shape.area \in Int /\ q.start \in Grid
  BY DEF IsEntry, Components
<1>2. r \notin S
  BY <1>1, ScanOrder
<1>3. CASE S = {}
  <2>1. Larger(c, r.shape) = r.shape
    BY <1>1, <1>3 DEF Best, Larger, NoComponent
  <2>. QED
    BY <1>3, <2>1 DEF Best
<1>4. CASE S # {}
  <2>1. PICK b \in S : c = b.shape /\ \A q \in S \ {b} : Exceeds(b, q)
    BY <1>4 DEF Best
  <2>2. CASE r.shape.area > b.shape.area
    <3>1. Larger(c, r.shape) = r.shape
      BY <2>1, <2>2 DEF Larger
    <3>2. ASSUME NEW q \in S PROVE Exceeds(r, q)
      <4>1. q = b \/ Exceeds(b, q)
        BY <2>1
      <4>. QED
        BY <1>1, <2>2, <4>1 DEF Exceeds
    <3>. QED
      BY <3>1, <3>2 DEF Best
  <2>3. CASE ~(r.shape.area > b.shape.area)
    <3>1. Larger(c, r.shape) = b.shape
      BY <2>1, <2>3 DEF Larger
    <3>2. Exceeds(b, r)
      BY <1>1, <2>3 DEF Exceeds
    <3>. QED
      BY <2>1, <3>1, <3>2 DEF Best
  <2>. QED
    BY <2>2, <2>3
<1>. QED
  BY <1>3, <1>4

-----------------------------------------------------------------------------
(* The invariant of the search.                                            *)

(* The pixels of the regions that have been compared.                      *)
Settled == IF phase = "fill" THEN visited \ Region(start) ELSE visited
Whole(V) == \A p \in V : Region(p) \subseteq V

(* The scan is past the beginnings of these regions, and has recorded the  *)
(* largest of them.                                                        *)
Recorded(V) ==
  /\ \A r \in Entries(V) : IsEntry(r) /\ \A q \in bright \ V : Before(r.start, q)
  /\ Best(bestAny, Large(V)) /\ Best(bestNonBorder, Inside(V))

(* The pixels the fill has popped: their neighbours have been pushed.      *)
Popped == (visited \cap Region(start)) \ ToSet(stack)

Filling ==
  /\ start \in bright /\ start \in visited
  /\ \A q \in bright \ Settled : q = start \/ Before(start, q)
  /\ stack \in Seq(visited \cap Region(start)) /\ Distinct(stack)
  /\ \A q \in Popped : bright \cap Touching(q) \subseteq visited
  /\ component \in Components
  /\ component.area = Cardinality(Popped)
  /\ component.touchesBorder <=> \E q \in Popped : OnBorder(q)
  /\ Bounds(component.box, Popped \cup {start})

SearchInv ==
  /\ bright \subseteq Grid /\ visited \subseteq bright
  /\ phase \in {"scan", "fill", "found"}
  /\ phase # "found" => Whole(Settled) /\ Recorded(Settled)
  /\ phase = "fill" => Filling
  /\ phase = "found" => FindsByRule

LEMMA InitSearch == SearchInit => SearchInv
<1>1. SUFFICES ASSUME SearchInit PROVE SearchInv
  OBVIOUS
<1>2. /\ bright \subseteq Grid /\ visited = {} /\ phase = "scan"
      /\ bestAny = NoComponent /\ bestNonBorder = NoComponent
  BY <1>1, BrightComponentsAssumption DEF SearchInit
<1>3. Settled = {}
  BY <1>2 DEF Settled
<1>4. Entries({}) = {} /\ Large({}) = {} /\ Inside({}) = {}
  BY DEF Entries, Large, Inside
<1>5. Recorded({})
  BY <1>2, <1>4, Zenon DEF Recorded, Best
<1>. QED
  BY <1>2, <1>3, <1>5 DEF SearchInv, Whole

(* When the stack is empty, the fill has popped the whole region.          *)
LEMMA FillFinds ==
  ASSUME SearchInv, phase = "fill", stack = <<>>
  PROVE  /\ Popped = Region(start) /\ component = Shape(Region(start))
         /\ Region(start) \subseteq visited
<1>1. bright \subseteq Grid /\ Filling
  BY DEF SearchInv
<1>2. Region(start) \subseteq bright /\ start \in Region(start) /\ Closed(Region(start))
  BY <1>1, RegionIsClosed DEF Filling
<1>3. Popped = visited \cap Region(start)
  BY DEF Popped, ToSet
<1>4. start \in Popped
  BY <1>1, <1>2, <1>3 DEF Filling
<1>5. Closed(Popped)
  BY <1>1, <1>2, <1>3 DEF Filling, Closed
<1>6. Region(start) \subseteq Popped
  BY <1>1, <1>4, <1>5, RegionIsLeast DEF Filling
<1>7. Popped = Region(start) /\ Popped \cup {start} = Region(start)
  BY <1>3, <1>4, <1>6
<1>8. component = Shape(Region(start))
  <2>1. /\ component \in Components
        /\ component.area = Cardinality(Region(start))
        /\ component.touchesBorder <=> \E q \in Region(start) : OnBorder(q)
        /\ Bounds(component.box, Region(start))
    BY <1>1, <1>7, Zenon DEF Filling
  <2>2. Region(start) \subseteq Grid
    BY <1>1, <1>2
  <2>. QED
    BY <2>1, <2>2, ShapeIs
<1>. QED
  BY <1>3, <1>6, <1>7, <1>8

(* While bright stays as it is, so do the regions.                         *)
LEMMA RegionSame == ASSUME bright' = bright, NEW p PROVE Region(p)' = Region(p)
BY SMT DEF Region

LEMMA StartFillKeeps ==
  ASSUME SearchInv, NEW p \in Visitable, StartFill(p)
  PROVE  SearchInv'
<1>. DEFINE R == Region(p)
<1>1. /\ phase = "scan" /\ phase' = "fill" /\ start' = p /\ stack' = <<p>>
      /\ visited' = visited \cup {p}
      /\ component' = [NoComponent EXCEPT !.box = [minX |-> p[1], minY |-> p[2],
                                                  maxX |-> p[1], maxY |-> p[2]]]
      /\ bright' = bright /\ bestAny' = bestAny /\ bestNonBorder' = bestNonBorder
      /\ \A q \in Visitable : ~Before(q, p)
  BY DEF StartFill
<1>2. /\ bright \subseteq Grid /\ visited \subseteq bright
      /\ Whole(visited) /\ Recorded(visited)
  BY <1>1 DEF SearchInv, Settled
<1>3. p \in bright /\ p \notin visited /\ p \in Grid
  BY <1>2 DEF Visitable
<1>4. R \subseteq bright /\ p \in R
  BY <1>2, <1>3, RegionIsClosed
<1>5. visited \cap R = {}
  <2>1. SUFFICES ASSUME NEW q \in visited \cap R PROVE FALSE
    OBVIOUS
  <2>2. Region(q) = R
    BY <1>2, <1>3, RegionOfEach
  <2>. QED
    BY <1>2, <1>3, <1>4, <2>2 DEF Whole
<1>6. Region(start)' = R
  BY <1>1, RegionSame
<1>. HIDE DEF R
<1>7. Settled' = visited
  BY <1>1, <1>4, <1>5, <1>6 DEF Settled
<1>8. Whole(Settled)' /\ Recorded(Settled)'
  <2>1. Whole(Settled)' = Whole(visited)
    BY <1>1, <1>7, RegionSame, Zenon DEF Whole
  <2>2. Recorded(Settled)' = Recorded(visited)
    <3>1. Entries(Settled)' = Entries(visited)
      BY <1>1, <1>7, RegionSame, Zenon DEF Entries
    <3>. QED
      BY <1>1, <1>7, <3>1, Zenon DEF Recorded, Large, Inside
  <2>. QED
    BY <1>2, <2>1, <2>2
<1>9. ToSet(stack') = {p} /\ Distinct(stack)' /\ stack' \in Seq((visited \cap Region(start))')
  <2>1. p \in (visited \cap Region(start))'
    BY <1>1, <1>4, <1>6
  <2>2. stack' \in Seq((visited \cap Region(start))') /\ Len(stack') = 1 /\ stack'[1] = p
        /\ DOMAIN stack' = 1 .. 1
    BY <1>1, <2>1
  <2>. QED
    BY <2>2 DEF ToSet, Distinct
<1>10. Popped' = {}
  <2>1. visited' \cap Region(start)' = {p}
    BY <1>1, <1>4, <1>5, <1>6
  <2>. QED
    BY <1>9, <2>1 DEF Popped
<1>11. \A q \in bright \ visited : q = p \/ Before(p, q)
  BY <1>1, <1>2, <1>3, ScanOrder DEF Visitable
<1>12. /\ component' \in Components /\ component'.area = 0 /\ component'.touchesBorder = FALSE
       /\ component'.box = [minX |-> p[1], minY |-> p[2], maxX |-> p[1], maxY |-> p[2]]
  BY <1>1, <1>3, PixelIs DEF NoComponent, Components, DefaultBox
<1>13. Bounds(component'.box, {p})
  BY <1>3, <1>12, PixelIs DEF Bounds, IsLeast, IsMost
<1>14. Cardinality({}) = 0
  BY FS_EmptySet
<1>15. Filling'
  <2>1. Popped' \cup {start'} = {p}
    BY <1>1, <1>10
  <2>2. start' \in bright' /\ start' \in visited'
    BY <1>1, <1>3
  <2>3. \A q \in bright' \ Settled' : q = start' \/ Before(start', q)
    BY <1>1, <1>7, <1>11
  <2>. QED
    BY <1>9, <1>10, <1>12, <1>13, <1>14, <2>1, <2>2, <2>3, Zenon DEF Filling
<1>. QED
  BY <1>1, <1>2, <1>3, <1>8, <1>15 DEF SearchInv

(* A pixel is popped and its neighbours are pushed.                        *)
LEMMA VisitMoves ==
  ASSUME SearchInv, NEW p \in visited, Visit(p)
  PROVE  /\ visited \subseteq visited' /\ visited' \subseteq bright
         /\ visited' \ Region(start) = visited \ Region(start)
         /\ stack' \in Seq(visited' \cap Region(start)) /\ Distinct(stack')
         /\ (visited' \cap Region(start)) \ ToSet(stack') = Popped \cup {p}
         /\ p \notin Popped /\ p \in bright
         /\ bright \cap Touching(p) \subseteq visited'
<1>. DEFINE R == Region(start)
            N == Neighbours(p)
<1>1. /\ phase = "fill" /\ stack # <<>> /\ p = Last(stack)
      /\ visited' = visited \cup ToSet(N) /\ stack' = Front(stack) \o N
  BY DEF Visit
<1>2. /\ bright \subseteq Grid /\ visited \subseteq bright /\ Filling
  BY <1>1 DEF SearchInv
<1>3. start \in bright /\ stack \in Seq(visited \cap R) /\ Distinct(stack)
  BY <1>2 DEF Filling
<1>4. R \subseteq bright /\ Closed(R)
  BY <1>2, <1>3, RegionIsClosed
<1>5. /\ p \in visited \cap R /\ p \in ToSet(stack) /\ Front(stack) \in Seq(visited \cap R)
      /\ Distinct(Front(stack)) /\ ToSet(Front(stack)) = ToSet(stack) \ {p}
  BY <1>1, <1>3, FrontTakes
<1>6. N \in Seq(Visitable) /\ Distinct(N) /\ ToSet(N) = Touching(p) \cap (Visitable \ {p})
  BY <1>2, NeighboursAre
<1>. HIDE DEF R, N
<1>7. ToSet(N) \subseteq R /\ ToSet(N) \cap visited = {} /\ ToSet(N) \subseteq bright
  BY <1>4, <1>5, <1>6 DEF Closed, Visitable
<1>8. ToSet(stack) \subseteq visited \cap R
  <2>1. \A i \in DOMAIN stack : stack[i] \in visited \cap R
    BY <1>3, LenProperties, ElementOfSeq
  <2>. QED
    BY <2>1 DEF ToSet
<1>9. N \in Seq(visited' \cap R) /\ Front(stack) \in Seq(visited' \cap R)
  <2>1. \A i \in 1 .. Len(N) : N[i] \in visited' \cap R
    <3>1. \A i \in 1 .. Len(N) : N[i] \in ToSet(N)
      BY <1>6, LenProperties DEF ToSet
    <3>. QED
      BY <1>1, <1>7, <3>1
  <2>2. Len(N) \in Nat /\ N = [i \in 1 .. Len(N) |-> N[i]]
    BY <1>6, LenProperties
  <2>3. N \in Seq(visited' \cap R)
    BY <2>1, <2>2, IsASeq
  <2>4. visited \cap R \subseteq visited' \cap R
    BY <1>1
  <2>5. Front(stack) \in Seq(visited' \cap R)
    BY <1>5, <2>4, SeqMonotonic
  <2>. QED
    BY <2>3, <2>5
<1>10. /\ stack' \in Seq(visited' \cap R) /\ Distinct(stack')
       /\ ToSet(stack') = (ToSet(stack) \ {p}) \cup ToSet(N)
  <2>1. ToSet(Front(stack)) \cap ToSet(N) = {}
    BY <1>5, <1>7, <1>8
  <2>. QED
    BY <1>1, <1>5, <1>6, <1>9, <2>1, ConcatAdds
<1>11. (visited' \cap R) \ ToSet(stack') = Popped \cup {p}
  <2>1. Popped = (visited \cap R) \ ToSet(stack)
    BY DEF Popped, R
  <2>. QED
    BY <1>1, <1>5, <1>7, <1>8, <1>10, <2>1
<1>12. p \notin Popped
  BY <1>5 DEF Popped
<1>13. bright \cap Touching(p) \subseteq visited'
  BY <1>1, <1>6 DEF Visitable
<1>14. visited' \ R = visited \ R
  BY <1>1, <1>7
<1>. QED
  BY <1>1, <1>2, <1>7, <1>10, <1>11, <1>12, <1>13, <1>14 DEF R

LEMMA VisitKeeps ==
  ASSUME SearchInv, NEW p \in visited, Visit(p)
  PROVE  SearchInv'
<1>. DEFINE R == Region(start)
<1>1. /\ phase = "fill" /\ phase' = "fill" /\ component' = WithPixel(component, p)
      /\ bright' = bright /\ start' = start
      /\ bestAny' = bestAny /\ bestNonBorder' = bestNonBorder
  BY DEF Visit
<1>2. /\ bright \subseteq Grid /\ visited \subseteq bright /\ Filling
      /\ Whole(visited \ R) /\ Recorded(visited \ R)
  BY <1>1 DEF SearchInv, Settled
<1>3. /\ visited \subseteq visited' /\ visited' \subseteq bright /\ visited' \ R = visited \ R
      /\ stack' \in Seq(visited' \cap R) /\ Distinct(stack')
      /\ (visited' \cap R) \ ToSet(stack') = Popped \cup {p}
      /\ p \notin Popped /\ p \in bright /\ bright \cap Touching(p) \subseteq visited'
  BY VisitMoves
<1>4. Region(start)' = R
  BY <1>1, RegionSame
<1>. HIDE DEF R
<1>5. Settled' = visited \ R
  BY <1>1, <1>3, <1>4 DEF Settled
<1>6. Whole(Settled)' /\ Recorded(Settled)'
  <2>1. Whole(Settled)' = Whole(visited \ R)
    BY <1>1, <1>5, RegionSame, Zenon DEF Whole
  <2>2. Recorded(Settled)' = Recorded(visited \ R)
    <3>1. Entries(Settled)' = Entries(visited \ R)
      BY <1>1, <1>5, RegionSame, Zenon DEF Entries
    <3>. QED
      BY <1>1, <1>5, <3>1, Zenon DEF Recorded, Large, Inside
  <2>. QED
    BY <1>2, <2>1, <2>2
<1>7. Popped' = Popped \cup {p}
  BY <1>3, <1>4, Zenon DEF Popped
<1>8. Popped \subseteq Grid /\ IsFiniteSet(Popped) /\ p \in Grid /\ start \in Grid
  <2>1. Popped \subseteq bright
    BY <1>2 DEF Popped
  <2>. QED
    BY <1>2, <1>3, <2>1, PicturesFinite, FS_Subset DEF Filling
<1>9. /\ component' \in Components /\ component'.area = component.area + 1
      /\ component'.touchesBorder = (component.touchesBorder \/ OnBorder(p))
  <2>1. component \in Components
    BY <1>2 DEF Filling
  <2>2. /\ component.box.minX \in Int /\ component.box.minY \in Int
        /\ component.box.maxX \in Int /\ component.box.maxY \in Int /\ component.area \in Nat
        /\ component.touchesBorder \in BOOLEAN
    BY <2>1 DEF Components
  <2>3. OnBorder(p) \in BOOLEAN
    BY DEF OnBorder
  <2>. QED
    BY <1>1, <1>8, <2>2, <2>3, PixelIs DEF WithPixel, Components, MinOf, MaxOf
<1>10. component'.area = Cardinality(Popped')
  <2>1. component.area = Cardinality(Popped)
    BY <1>2 DEF Filling
  <2>2. Cardinality(Popped \cup {p}) = Cardinality(Popped) + 1
    BY <1>3, <1>8, FS_AddElement
  <2>. QED
    BY <1>7, <1>9, <2>1, <2>2
<1>11. component'.touchesBorder <=> \E q \in Popped' : OnBorder(q)
  <2>1. component.touchesBorder <=> \E q \in Popped : OnBorder(q)
    BY <1>2 DEF Filling
  <2>. QED
    BY <1>7, <1>9, <2>1, Zenon
<1>12. Bounds(component'.box, Popped' \cup {start'})
  <2>1. Bounds(component.box, Popped \cup {start}) /\ component \in Components
    BY <1>2 DEF Filling
  <2>2. Bounds(WithPixel(component, p).box, (Popped \cup {start}) \cup {p})
    BY <1>8, <2>1, BoundsOfMore
  <2>3. (Popped \cup {start}) \cup {p} = Popped' \cup {start'}
    BY <1>1, <1>7
  <2>. QED
    BY <1>1, <2>2, <2>3
<1>13. \A q \in Popped' : bright' \cap Touching(q) \subseteq visited'
  <2>1. \A q \in Popped : bright \cap Touching(q) \subseteq visited
    BY <1>2 DEF Filling
  <2>. QED
    BY <1>1, <1>3, <1>7, <2>1
<1>14. /\ start' \in bright' /\ start' \in visited'
       /\ \A q \in bright' \ Settled' : q = start' \/ Before(start', q)
  BY <1>1, <1>2, <1>3, <1>5 DEF Filling, R, Settled
<1>15. stack' \in Seq((visited \cap Region(start))') /\ Distinct(stack)'
  BY <1>3, <1>4
<1>16. Filling'
  BY <1>9, <1>10, <1>11, <1>12, <1>13, <1>14, <1>15, Zenon DEF Filling
<1>. QED
  BY <1>1, <1>2, <1>3, <1>6, <1>16 DEF SearchInv

(* The region filled last joins those compared before.                     *)
LEMMA SettledGrows ==
  ASSUME SearchInv, phase = "fill", stack = <<>>, NEW e, e = [shape |-> component, start |-> start]
  PROVE  /\ Whole(visited) /\ Entries(visited) = Entries(Settled) \cup {e} /\ IsEntry(e)
         /\ e.shape.area > 0
         /\ \A r \in Entries(Settled) : Before(r.start, e.start)
         /\ \A q \in bright \ visited : Before(e.start, q)
<1>. DEFINE R == Region(start)
<1>1. /\ bright \subseteq Grid /\ visited \subseteq bright /\ Filling
      /\ Settled = visited \ R /\ Whole(Settled) /\ Recorded(Settled)
  BY DEF SearchInv, Settled
<1>2. /\ start \in bright /\ start \in visited /\ component \in Components
      /\ \A q \in bright \ Settled : q = start \/ Before(start, q)
  BY <1>1 DEF Filling
<1>3. R \subseteq bright /\ start \in R
  BY <1>1, <1>2, RegionIsClosed
<1>4. \A q \in R : Region(q) = R
  BY <1>1, <1>2, RegionOfEach
<1>5. component = Shape(R) /\ R \subseteq visited /\ component.area = Cardinality(R)
  BY <1>1, FillFinds DEF Filling
<1>. HIDE DEF R
<1>6. visited = Settled \cup R /\ Settled \cap R = {}
  BY <1>1, <1>5
<1>7. Whole(visited)
  BY <1>1, <1>4, <1>6 DEF Whole
<1>8. Entry(R) = e
  <2>1. Beginning(R) = start
    BY <1>1, <1>2, <1>3, <1>6, BeginningIs
  <2>. QED
    BY <1>5, <2>1 DEF Entry
<1>9. Entries(visited) = Entries(Settled) \cup {e}
  <2>1. {Entry(Region(q)) : q \in R} = {e}
    BY <1>3, <1>4, <1>8
  <2>. QED
    BY <1>6, <2>1, Zenon DEF Entries
<1>10. /\ e.shape = component /\ e.start = start
  OBVIOUS
<1>11. IsEntry(e)
  BY <1>1, <1>2, <1>10 DEF IsEntry
<1>12. component.area > 0
  <2>1. IsFiniteSet(R) /\ R # {}
    BY <1>1, <1>3, PicturesFinite, FS_Subset
  <2>2. Cardinality(R) \in Nat /\ Cardinality(R) # 0
    BY <2>1, FS_EmptySet, FS_CardinalityType
  <2>. QED
    BY <1>5, <2>2
<1>13. \A r \in Entries(Settled) : Before(r.start, start)
  BY <1>1, <1>2, <1>3, <1>6, Zenon DEF Recorded
<1>14. \A q \in bright \ visited : Before(start, q)
  BY <1>2, <1>6
<1>. QED
  BY <1>7, <1>9, <1>10, <1>11, <1>12, <1>13, <1>14

LEMMA CompareKeeps == SearchInv /\ Compare => SearchInv'
<1>1. SUFFICES ASSUME SearchInv, Compare PROVE SearchInv'
  OBVIOUS
<1>. DEFINE e == [shape |-> component, start |-> start]
            small == component.area < MinComponentAreaPixels
<1>2. /\ phase = "fill" /\ stack = <<>> /\ phase' = "scan"
      /\ bright' = bright /\ visited' = visited
      /\ small => bestAny' = bestAny /\ bestNonBorder' = bestNonBorder
      /\ ~small => /\ bestAny' = Larger(bestAny, component)
                   /\ bestNonBorder' = IF component.touchesBorder THEN bestNonBorder
                                       ELSE Larger(bestNonBorder, component)
  BY <1>1 DEF Compare
<1>3. /\ bright \subseteq Grid /\ visited \subseteq bright /\ Recorded(Settled)
  BY <1>1, <1>2 DEF SearchInv
<1>4. /\ Whole(visited) /\ Entries(visited) = Entries(Settled) \cup {e} /\ IsEntry(e)
      /\ e.shape.area > 0
      /\ \A r \in Entries(Settled) : Before(r.start, e.start)
      /\ \A q \in bright \ visited : Before(e.start, q)
  BY <1>1, <1>2, SettledGrows, Zenon
<1>5. e.shape = component /\ e.start = start
  OBVIOUS
<1>6. component.area \in Nat /\ MinComponentAreaPixels \in Nat
  BY <1>4, <1>5, BrightComponentsAssumption DEF IsEntry, Components
<1>7. /\ \A r \in Entries(Settled) : IsEntry(r) /\ \A q \in bright \ Settled : Before(r.start, q)
      /\ Best(bestAny, Large(Settled)) /\ Best(bestNonBorder, Inside(Settled))
  BY <1>3 DEF Recorded
<1>8. Settled \subseteq visited
  BY DEF Settled
<1>. HIDE DEF e, small
<1>9. \A r \in Entries(visited) : IsEntry(r) /\ \A q \in bright \ visited : Before(r.start, q)
  BY <1>4, <1>7, <1>8
<1>10. Large(Settled) \subseteq Entries(Settled) /\ Inside(Settled) \subseteq Entries(Settled)
  BY DEF Large, Inside
<1>11. /\ Large(visited) = IF small THEN Large(Settled) ELSE Large(Settled) \cup {e}
       /\ Inside(visited) = IF small \/ component.touchesBorder THEN Inside(Settled)
                            ELSE Inside(Settled) \cup {e}
  <2>1. e.shape.area >= MinComponentAreaPixels <=> ~small
    BY <1>5, <1>6 DEF small
  <2>2. Large(visited) = IF small THEN Large(Settled) ELSE Large(Settled) \cup {e}
    BY <1>4, <2>1 DEF Large
  <2>. QED
    BY <1>5, <2>2 DEF Inside
<1>12. Best(bestAny', Large(visited))
  <2>1. CASE small
    BY <1>2, <1>7, <1>11, <2>1
  <2>2. CASE ~small
    <3>1. Best(Larger(bestAny, e.shape), Large(Settled) \cup {e})
      BY <1>4, <1>7, <1>10, BestOfMore
    <3>. QED
      BY <1>2, <1>5, <1>11, <2>2, <3>1
  <2>. QED
    BY <2>1, <2>2
<1>13. Best(bestNonBorder', Inside(visited))
  <2>1. CASE small \/ component.touchesBorder
    BY <1>2, <1>7, <1>11, <2>1
  <2>2. CASE ~(small \/ component.touchesBorder)
    <3>1. Best(Larger(bestNonBorder, e.shape), Inside(Settled) \cup {e})
      BY <1>4, <1>7, <1>10, BestOfMore
    <3>. QED
      BY <1>2, <1>5, <1>11, <2>2, <3>1
  <2>. QED
    BY <2>1, <2>2
<1>14. Settled' = visited
  BY <1>2 DEF Settled
<1>15. Whole(Settled)' /\ Recorded(Settled)'
  <2>1. Whole(Settled)' = Whole(visited)
    BY <1>2, <1>14, RegionSame, Zenon DEF Whole
  <2>2. Entries(Settled)' = Entries(visited)
    BY <1>2, <1>14, RegionSame, Zenon DEF Entries
  <2>3. Large(Settled)' = Large(visited) /\ Inside(Settled)' = Inside(visited)
    BY <2>2, Zenon DEF Large, Inside
  <2>. QED
    BY <1>2, <1>4, <1>9, <1>12, <1>13, <1>14, <2>1, <2>2, <2>3, Zenon DEF Recorded
<1>. QED
  BY <1>2, <1>3, <1>15 DEF SearchInv

(* At the end all regions have been compared, and the choice between the   *)
(* two that are remembered is the rule's.                                  *)
LEMMA FinishKeeps == SearchInv /\ Finish => SearchInv'
<1>1. SUFFICES ASSUME SearchInv, Finish PROVE SearchInv'
  OBVIOUS
<1>2. /\ phase = "scan" /\ Visitable = {} /\ phase' = "found"
      /\ foundBox' =
           IF \/ Compact(bestNonBorder)
              \/ /\ bestNonBorder.area > 0
                 /\ bestNonBorder.area >= MaxOf(NonBorderFallbackMinArea, bestAny.area \div 3)
           THEN bestNonBorder.box ELSE bestAny.box
      /\ bright' = bright /\ visited' = visited
  BY <1>1 DEF Finish, search
<1>3. /\ bright \subseteq Grid /\ visited = bright /\ Recorded(bright)
  <2>1. visited = bright
    BY <1>1, <1>2 DEF SearchInv, Visitable
  <2>2. Settled = bright
    BY <1>2, <2>1 DEF Settled
  <2>. QED
    BY <1>1, <1>2, <2>1, <2>2 DEF SearchInv
<1>. DEFINE big == Large(bright)
            inside == Inside(bright)
            preferred(c) == \/ Compact(c)
                            \/ /\ c.area >= NonBorderFallbackMinArea
                               /\ c.area >= Largest(big).area \div 3
            rule == IF big = {} THEN DefaultBox
                    ELSE IF inside # {} /\ preferred(Largest(inside))
                    THEN Largest(inside).box ELSE Largest(big).box
<1>4. /\ \A r \in big : IsEntry(r) /\ r.shape.area >= MinComponentAreaPixels
      /\ \A r \in inside : IsEntry(r) /\ r.shape.area >= MinComponentAreaPixels
      /\ inside \subseteq big
      /\ Best(bestAny, big) /\ Best(bestNonBorder, inside)
  BY <1>3 DEF Recorded, Large, Inside
<1>5. /\ big # {} => Largest(big) = bestAny
      /\ inside # {} => Largest(inside) = bestNonBorder
  BY <1>4, LargestIs
<1>6. /\ big = {} => bestAny = NoComponent
      /\ inside = {} => bestNonBorder = NoComponent
      /\ big # {} => bestAny.area \in Nat
      /\ inside # {} => bestNonBorder.area \in Nat /\ bestNonBorder.area > 0
  <2>1. MinComponentAreaPixels \in Nat /\ MinComponentAreaPixels > 0
    BY BrightComponentsAssumption
  <2>2. \A r \in big \cup inside : r.shape.area \in Nat /\ r.shape.area > 0
    BY <1>4, <2>1 DEF IsEntry, Components
  <2>. QED
    BY <1>4, <2>2, Zenon DEF Best
<1>. HIDE DEF big, inside
<1>7. foundBox' = rule
  <2>1. NoComponent.area = 0 /\ NoComponent.box = DefaultBox /\ ~Compact(NoComponent)
    BY DEF NoComponent, Compact
  <2>2. CASE inside = {}
    <3>1. foundBox' = bestAny.box
      BY <1>2, <1>6, <2>1, <2>2
    <3>. QED
      BY <1>5, <1>6, <2>1, <2>2, <3>1
  <2>3. CASE inside # {}
    <3>1. big # {}
      BY <1>4, <2>3
    <3>2. NonBorderFallbackMinArea \in Int /\ bestAny.area \div 3 \in Int
      BY <1>6, <3>1, BrightComponentsAssumption
    <3>3. \/ Compact(bestNonBorder)
          \/ /\ bestNonBorder.area > 0
             /\ bestNonBorder.area >= MaxOf(NonBorderFallbackMinArea, bestAny.area \div 3)
          <=> preferred(bestNonBorder)
      BY <1>5, <1>6, <2>3, <3>1, <3>2 DEF MaxOf
    <3>. QED
      BY <1>2, <1>5, <2>3, <3>1, <3>3, Zenon
  <2>. QED
    BY <2>2, <2>3
<1>8. Regions' = Entries(bright)
  BY <1>2, RegionSame, SMT DEF Regions, Entries, Entry
<1>9. /\ {r \in Regions' : r.shape.area >= MinComponentAreaPixels} = big
      /\ {r \in big : ~r.shape.touchesBorder} = inside
  BY <1>8, Zenon DEF big, inside, Large, Inside
<1>10. FindsByRule'
  BY <1>7, <1>9, Zenon DEF FindsByRule
<1>. QED
  BY <1>2, <1>3, <1>10 DEF SearchInv

LEMMA SearchStands == SearchInv /\ UNCHANGED searchVars => SearchInv'
<1>1. SUFFICES ASSUME SearchInv, UNCHANGED searchVars PROVE SearchInv'
  OBVIOUS
<1>2. /\ bright' = bright /\ visited' = visited /\ start' = start /\ stack' = stack
      /\ component' = component /\ bestAny' = bestAny /\ bestNonBorder' = bestNonBorder
      /\ phase' = phase /\ foundBox' = foundBox
  BY <1>1 DEF searchVars, search
<1>3. Region(start)' = Region(start)
  BY <1>2, RegionSame
<1>4. Settled' = Settled /\ Popped' = Popped
  BY <1>2, <1>3, Zenon DEF Settled, Popped
<1>5. Whole(Settled)' = Whole(Settled)
  BY <1>2, <1>4, RegionSame, Zenon DEF Whole
<1>6. Entries(Settled)' = Entries(Settled)
  BY <1>2, <1>4, RegionSame, Zenon DEF Entries
<1>7. Recorded(Settled)' = Recorded(Settled)
  BY <1>2, <1>4, <1>6, Zenon DEF Recorded, Large, Inside
<1>8. Filling' = Filling
  BY <1>2, <1>3, <1>4, Zenon DEF Filling, Distinct
<1>9. Regions' = Regions
  BY <1>2, RegionSame, SMT DEF Regions
<1>10. FindsByRule' = FindsByRule
  BY <1>2, <1>9, Zenon DEF FindsByRule
<1>. QED
  BY <1>1, <1>2, <1>5, <1>7, <1>8, <1>10 DEF SearchInv

(* At every step of findBrightBoundingBox the regions it has compared are  *)
(* whole, the two largest are recorded, and what a fill has counted is     *)
(* what it has popped.                                                     *)
THEOREM SearchIsSound == SearchSpec => []SearchInv
<1>1. SearchInv /\ [SearchNext]_searchVars => SearchInv'
  BY StartFillKeeps, VisitKeeps, CompareKeeps, FinishKeeps, SearchStands DEF SearchNext
<1>. QED
  BY InitSearch, <1>1, PTL DEF SearchSpec

(* When the stack of floodFillBrightComponent is empty, what it has        *)
(* collected is the region of its start, of every picture of any size.     *)
THEOREM FillIsAlwaysRegion == SearchSpec => []FillIsRegion
<1>1. SearchInv => FillIsRegion
  BY FillFinds DEF FillIsRegion
<1>. QED
  BY SearchIsSound, <1>1, PTL

(* For every picture, the box that findBrightBoundingBox returns is that   *)
(* of the rule, ties and regions at the border included.                   *)
THEOREM AlwaysFindsByRule == SearchSpec => []FindsByRule
<1>1. SearchInv => FindsByRule
  BY DEF SearchInv, FindsByRule
<1>. QED
  BY SearchIsSound, <1>1, PTL

=============================================================================
