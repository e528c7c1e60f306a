----------------------------- MODULE PmmProofs -----------------------------
(***************************************************************************)
(* Proofs about the physical memory manager, for every number of orders and*)
(* pages, every memory map and every finite set of clients.                *)
(***************************************************************************)
EXTENDS Pmm, FiniteSetTheorems, WellFoundedInduction, TLAPS

-----------------------------------------------------------------------------
(* Buddy blocks: how aligned blocks nest, what a split leaves over and what*)
(* a merge puts together.  Induction on orders is done by taking the least *)
(* counterexample.                                                         *)

(* A non-empty set of naturals has a least element, and MinOf is it.       *)
LEMMA MinOfNat ==
  ASSUME NEW S \in SUBSET Nat, S # {}
  PROVE  MinOf(S) \in S /\ \A y \in S : MinOf(S) <= y
<1> DEFINE lt == OpToRel(<, Nat)
<1>1. \E x \in S : \A y \in S : <<y, x>> \notin lt
  <2>1. S \subseteq Nat
    OBVIOUS
  <2>2. IsWellFoundedOn(lt, Nat)
    BY NatLessThanWellFounded
  <2> HIDE DEF lt
  <2>3. QED
    BY <2>1, <2>2, WFMin
<1>2. \A x, y \in Nat : <<y, x>> \notin lt => x <= y
  BY DEF OpToRel
<1>3. \E x \in S : \A y \in S : x <= y
  <2> HIDE DEF lt
  <2>1. QED
    BY <1>1, <1>2
<1>4. QED
  BY <1>3 DEF MinOf

(* A non-empty set of naturals below a bound has a greatest element.       *)
LEMMA MaxOfBounded ==
  ASSUME NEW n \in Nat, NEW S \in SUBSET (0 .. n), S # {}
  PROVE  MaxOf(S) \in S /\ \A y \in S : y <= MaxOf(S)
<1> DEFINE D == {d \in 0 .. n : n - d \in S}
<1>1. D \in SUBSET Nat /\ D # {}
  <2>1. PICK y \in S : TRUE
    OBVIOUS
  <2>2. n - y \in D
    BY <2>1
  <2>3. D \in SUBSET Nat
    OBVIOUS
  <2>4. D # {}
    BY <2>2
  <2>5. QED
    BY <2>3, <2>4
<1>2. MinOf(D) \in D /\ \A d \in D : MinOf(D) <= d
  <2> HIDE DEF D
  <2>1. QED
    BY <1>1, MinOfNat
<1>3. \A y \in S : n - y \in D
  OBVIOUS
<1>4. n - MinOf(D) \in S /\ \A y \in S : y <= n - MinOf(D)
  BY <1>2, <1>3
<1>5. QED
  BY <1>4 DEF MaxOf

(* Arithmetic of multiples and remainders, which the provers do not find.  *)
LEMMA MulLess ==
  ASSUME NEW q \in Int, NEW n \in Int, NEW s \in Nat \ {0}, q * s < n * s
  PROVE  q < n
<1>1. SUFFICES ASSUME n <= q PROVE n * s <= q * s
  OBVIOUS
<1>2. (q - n) * s >= 0
  BY <1>1
<1>3. QED
  BY <1>2

(* Division with remainder.                                                *)
LEMMA DivMod ==
  ASSUME NEW a \in Nat, NEW s \in Nat \ {0}
  PROVE  /\ a % s \in 0 .. (s - 1)
         /\ a % s <= a
         /\ \E q, r \in Nat : a = q * s + r /\ r = a % s
<1>1. a % s \in 0 .. (s - 1)
  OBVIOUS
<1>2. a = (a \div s) * s + (a % s)
  OBVIOUS
<1>3. a \div s \in Nat /\ a % s \in Nat
  OBVIOUS
<1>4. (a \div s) * s >= 0
  BY <1>3
<1>5. a % s <= a
  BY <1>1, <1>2, <1>3, <1>4
<1>6. QED
  BY <1>1, <1>2, <1>3, <1>5

(* The remainder is determined by any such decomposition.                  *)
LEMMA ModUnique ==
  ASSUME NEW s \in Nat \ {0}, NEW q \in Nat, NEW r \in 0 .. (s - 1)
  PROVE  (q * s + r) % s = r
  OBVIOUS

(* A larger order's size is a multiple of a smaller one's, at least twice. *)
LEMMA SpanMultiple ==
  ASSUME NEW j \in Order, NEW k \in Order, j <= k
  PROVE  /\ \E n \in Nat \ {0} : Span[k] = n * Span[j]
         /\ Span[j] <= Span[k]
         /\ j < k => 2 * Span[j] <= Span[k]
<1> DEFINE Good(i) == \E n \in Nat \ {0} : Span[i] = n * Span[j] /\ (j < i => n > 1)
<1> DEFINE Bad == {i \in Order : j <= i /\ ~Good(i)}
<1>1. Good(j)
  BY GeometryAssumption DEF Order
<1>2. ASSUME NEW i \in Order, j <= i, i + 1 \in Order, Good(i)
      PROVE  Good(i + 1)
  <2>1. PICK n \in Nat \ {0} : Span[i] = n * Span[j]
    BY <1>2
  <2>2. Span[i + 1] = (2 * n) * Span[j]
    BY <1>2, <2>1, GeometryAssumption
  <2>3. QED
    BY <2>2
<1>3. Bad = {}
  <2>1. SUFFICES ASSUME Bad # {} PROVE FALSE
    OBVIOUS
  <2>2. Bad \in SUBSET Nat
    BY DEF Order
  <2>3. MinOf(Bad) \in Bad /\ \A y \in Bad : MinOf(Bad) <= y
    <3> HIDE DEF Bad
    <3>1. QED
      BY <2>1, <2>2, MinOfNat
  <2>4. PICK i \in Order : j <= i /\ ~Good(i) /\ \A y \in Order : j <= y /\ ~Good(y) => i <= y
    BY <2>3
  <2> HIDE DEF Bad
  <2>5. i # j
    BY <2>4, <1>1
  <2>6. i - 1 \in Order /\ j <= i - 1
    <3>1. j <= i
      BY <2>4
    <3>2. QED
      BY <3>1, <2>5, GeometryAssumption DEF Order
  <2>7. Good(i - 1)
    BY <2>4, <2>6 DEF Order
  <2>8. Good((i - 1) + 1)
    <3> HIDE DEF Good
    <3>1. (i - 1) + 1 = i /\ (i - 1) + 1 \in Order
      BY DEF Order
    <3>2. QED
      BY <1>2, <2>6, <2>7, <3>1
  <2>9. QED
    BY <2>4, <2>8 DEF Order
<1>4. Good(k)
  BY <1>3
<1>5. PICK n \in Nat \ {0} : Span[k] = n * Span[j] /\ (j < k => n > 1)
  BY <1>4
<1>6. Span[j] \in Nat \ {0}
  BY GeometryAssumption
<1>7. \A s \in Nat \ {0} : s <= n * s /\ (n > 1 => 2 * s <= n * s)
  OBVIOUS
<1>8. QED
  BY <1>5, <1>6, <1>7

(* Sizes are positive naturals.                                            *)
LEMMA SpanType ==
  ASSUME NEW o \in Order
  PROVE  Span[o] \in Nat \ {0} /\ o \in Nat
  BY GeometryAssumption DEF Order

(* An order between two orders.                                            *)
LEMMA OrderBetween ==
  ASSUME NEW o \in Order, NEW k \in Order, NEW j \in o .. (k - 1)
  PROVE  j \in Order /\ o <= j /\ j < k
<1>1. o \in Int /\ k \in Int /\ 0 <= o /\ k <= MaxOrder - 1 /\ MaxOrder \in Int
  BY GeometryAssumption DEF Order
<1>2. j \in Int /\ o <= j /\ j <= k - 1
  BY <1>1
<1>3. QED
  BY <1>1, <1>2 DEF Order

(* A multiple of s has remainder 0.                                        *)
LEMMA ModOfMultiple ==
  ASSUME NEW s \in Nat \ {0}, NEW q \in Nat
  PROVE  (q * s) % s = 0
<1>1. 0 \in 0 .. (s - 1)
  OBVIOUS
<1>2. (q * s + 0) % s = 0
  BY <1>1, ModUnique
<1>3. QED
  BY <1>2

(* Rounding down to a multiple of s.                                       *)
LEMMA RoundDown ==
  ASSUME NEW p \in Nat, NEW s \in Nat \ {0}
  PROVE  /\ p - (p % s) \in Nat
         /\ (p - (p % s)) % s = 0
         /\ p - (p % s) <= p
         /\ p < (p - (p % s)) + s
<1>1. p % s \in 0 .. (s - 1) /\ p % s <= p
  BY DivMod
<1>2. PICK q, r \in Nat : p = q * s + r /\ r = p % s
  BY DivMod
<1>3. p - r = q * s
  <2>1. q * s \in Nat
    OBVIOUS
  <2>2. QED
    BY <1>2, <2>1
<1>4. (q * s) % s = 0
  BY ModOfMultiple
<1>5. QED
  BY <1>1, <1>2, <1>3, <1>4

(* Base(p, o) starts an aligned block around p ...                         *)
LEMMA BaseFacts ==
  ASSUME NEW p \in Nat, NEW o \in Order
  PROVE  /\ Base(p, o) \in Nat
         /\ Base(p, o) % Span[o] = 0
         /\ p \in Block(Base(p, o), o)
<1>1. Span[o] \in Nat \ {0}
  BY SpanType
<1>2. /\ Base(p, o) \in Nat
      /\ Base(p, o) % Span[o] = 0
      /\ Base(p, o) <= p
      /\ p < Base(p, o) + Span[o]
  BY <1>1, RoundDown DEF Base
<1>3. QED
  BY <1>1, <1>2 DEF Block

(* An aligned number is a multiple.                                        *)
LEMMA AlignedQuotient ==
  ASSUME NEW b \in Nat, NEW s \in Nat \ {0}, b % s = 0
  PROVE  \E q \in Nat : b = q * s
<1>1. PICK q, r \in Nat : b = q * s + r /\ r = b % s
  BY DivMod
<1>2. b = q * s
  BY <1>1
<1>3. QED
  BY <1>2

(* ... and it is the only one.                                             *)
LEMMA BaseUnique ==
  ASSUME NEW b \in Nat, NEW o \in Order, b % Span[o] = 0, NEW p \in Block(b, o)
  PROVE  p \in Nat /\ Base(p, o) = b
<1> DEFINE s == Span[o]
<1>1. s \in Nat \ {0}
  BY SpanType
<1>2. PICK q \in Nat : b = q * s
  BY <1>1, AlignedQuotient
<1>3. p - b \in 0 .. (s - 1) /\ p \in Nat
  BY <1>1 DEF Block
<1>4. (q * s + (p - b)) % s = p - b
  BY <1>1, <1>3, ModUnique
<1>5. p = q * s + (p - b)
  BY <1>1, <1>2, <1>3
<1>6. p % s = p - b
  BY <1>4, <1>5
<1> HIDE DEF s
<1>7. QED
  BY <1>3, <1>6 DEF Base, s

(* Alignment for an order is alignment for every lower order.              *)
LEMMA AlignedDown ==
  ASSUME NEW j \in Order, NEW k \in Order, j <= k, NEW y \in Nat, y % Span[k] = 0
  PROVE  y % Span[j] = 0
<1>1. Span[j] \in Nat \ {0} /\ Span[k] \in Nat \ {0}
  BY SpanType
<1>2. PICK n \in Nat \ {0} : Span[k] = n * Span[j]
  BY SpanMultiple
<1>3. PICK q \in Nat : y = q * Span[k]
  BY <1>1, AlignedQuotient
<1>4. y = (q * n) * Span[j] /\ q * n \in Nat
  BY <1>1, <1>2, <1>3
<1>5. ((q * n) * Span[j]) % Span[j] = 0
  BY <1>1, <1>4, ModOfMultiple
<1>6. QED
  BY <1>4, <1>5

(* Two aligned blocks that share a page are nested.                        *)
LEMMA Nested ==
  ASSUME NEW j \in Order, NEW k \in Order, j <= k,
         NEW x \in Nat, x % Span[j] = 0, NEW y \in Nat, y % Span[k] = 0,
         NEW p \in Block(x, j), p \in Block(y, k)
  PROVE  Block(x, j) \subseteq Block(y, k)
<1> DEFINE s == Span[j] t == Span[k]
<1>1. s \in Nat \ {0} /\ t \in Nat \ {0}
  BY SpanType
<1>2. PICK n \in Nat \ {0} : t = n * s
  BY SpanMultiple
<1>3. PICK q \in Nat : x = q * s
  BY <1>1, AlignedQuotient
<1>4. PICK r \in Nat : y = r * t
  BY <1>1, AlignedQuotient
<1>5. p \in Nat /\ x <= p /\ p < x + s /\ y <= p /\ p < y + t
  BY <1>1 DEF Block
<1> HIDE DEF s, t
<1>6. r * n < q + 1
  <2>1. y = (r * n) * s
    BY <1>1, <1>2, <1>4
  <2>2. (r * n) * s < (q + 1) * s
    BY <1>1, <1>3, <1>5, <2>1
  <2>3. QED
    BY <1>1, <2>2, MulLess
<1>7. q < (r + 1) * n
  <2>1. y + t = ((r + 1) * n) * s
    BY <1>1, <1>2, <1>4
  <2>2. q * s < ((r + 1) * n) * s
    BY <1>1, <1>3, <1>5, <2>1
  <2>3. (r + 1) * n \in Int
    OBVIOUS
  <2>4. QED
    BY <1>1, <2>2, <2>3, MulLess
<1>8. y <= x
  <2>1. (q - r * n) * s >= 0
    BY <1>1, <1>6
  <2>2. QED
    BY <1>1, <1>2, <1>3, <1>4, <2>1
<1>9. x + s <= y + t
  <2>1. ((r + 1) * n - (q + 1)) * s >= 0
    BY <1>1, <1>7
  <2>2. QED
    BY <1>1, <1>2, <1>3, <1>4, <2>1
<1>10. QED
  BY <1>1, <1>8, <1>9 DEF Block, s, t

(* The block a split leaves over at order j is aligned and inside.         *)
LEMMA UpperHalf ==
  ASSUME NEW b \in Nat, NEW j \in Order, NEW k \in Order, j < k, b % Span[k] = 0
  PROVE  /\ (b + Span[j]) % Span[j] = 0
         /\ Block(b + Span[j], j) \subseteq Block(b, k)
<1>1. Span[j] \in Nat \ {0} /\ Span[k] \in Nat \ {0} /\ 2 * Span[j] <= Span[k]
  BY SpanType, SpanMultiple
<1>2. b % Span[j] = 0
  <2>1. j <= k
    BY SpanType
  <2>2. QED
    BY <2>1, AlignedDown
<1>3. PICK q \in Nat : b = q * Span[j]
  BY <1>1, <1>2, AlignedQuotient
<1>4. b + Span[j] = (q + 1) * Span[j]
  <2>1. \A s \in Nat : q * s + s = (q + 1) * s
    OBVIOUS
  <2>2. QED
    BY <1>1, <1>3, <2>1
<1>5. ((q + 1) * Span[j]) % Span[j] = 0
  BY <1>1, ModOfMultiple
<1>6. QED
  BY <1>1, <1>4, <1>5 DEF Block

(* The blocks a split leaves over are disjoint ...                         *)
LEMMA SplitUnique ==
  ASSUME NEW b \in Nat, NEW i \in Order, NEW j \in Order,
         NEW p \in Block(b + Span[i], i), p \in Block(b + Span[j], j)
  PROVE  i = j
<1>1. SUFFICES ASSUME NEW u \in Order, NEW v \in Order, u < v,
                      p \in Block(b + Span[u], u), p \in Block(b + Span[v], v)
               PROVE  FALSE
  BY DEF Order
<1>2. Span[u] \in Nat \ {0} /\ Span[v] \in Nat \ {0} /\ 2 * Span[u] <= Span[v]
  BY <1>1, SpanType, SpanMultiple
<1>3. QED
  BY <1>1, <1>2 DEF Block

(* ... and cover everything above the part that is kept.                   *)
LEMMA SplitCover ==
  ASSUME NEW b \in Nat, NEW o \in Order, NEW k \in Order, o <= k,
         NEW p \in Block(b, k), p \notin Block(b, o)
  PROVE  \E j \in o .. (k - 1) : p \in Block(b + Span[j], j)
<1> DEFINE S == {i \in Order : p - b < Span[i]}
<1>1. p - b \in Nat /\ p - b < Span[k] /\ p - b >= Span[o]
  BY SpanType DEF Block
<1>2. S \in SUBSET Nat
  BY DEF Order
<1>3. k \in S
  BY <1>1
<1>4. MinOf(S) \in S /\ \A y \in S : MinOf(S) <= y
  <2> HIDE DEF S
  <2>1. S # {}
    BY <1>3
  <2>2. QED
    BY <1>2, <2>1, MinOfNat
<1>5. PICK i \in Order : p - b < Span[i] /\ i <= k /\ \A y \in Order : p - b < Span[y] => i <= y
  BY <1>3, <1>4
<1>6. o < i
  <2>1. SUFFICES ASSUME i <= o PROVE FALSE
    BY SpanType
  <2>2. Span[i] <= Span[o]
    BY <2>1, SpanMultiple
  <2>3. Span[i] \in Nat /\ Span[o] \in Nat
    BY SpanType
  <2>4. QED
    BY <1>1, <1>5, <2>2, <2>3
<1>7. i - 1 \in Order /\ i - 1 \in o .. (k - 1)
  BY <1>5, <1>6, GeometryAssumption DEF Order
<1>8. Span[i - 1] <= p - b
  BY <1>1, <1>5, <1>7, SpanType
<1>9. Span[i] = 2 * Span[i - 1]
  <2>1. (i - 1) + 1 = i
    BY SpanType
  <2>2. QED
    BY <1>7, <2>1, GeometryAssumption
<1>10. p \in Block(b + Span[i - 1], i - 1)
  BY <1>1, <1>5, <1>7, <1>8, <1>9, SpanType DEF Block
<1>11. QED
  BY <1>7, <1>10

(* Rounding down in two steps is rounding down in one.                     *)
LEMMA BaseOfBase ==
  ASSUME NEW f \in Nat, NEW j \in Order, NEW k \in Order, j <= k
  PROVE  /\ Base(Base(f, j), k) = Base(f, k)
         /\ Block(Base(f, j), j) \subseteq Block(Base(f, k), k)
<1>1. /\ Base(f, j) \in Nat /\ Base(f, j) % Span[j] = 0 /\ f \in Block(Base(f, j), j)
      /\ Base(f, k) \in Nat /\ Base(f, k) % Span[k] = 0 /\ f \in Block(Base(f, k), k)
  BY BaseFacts
<1>2. Block(Base(f, j), j) \subseteq Block(Base(f, k), k)
  BY <1>1, Nested
<1>3. Base(f, j) \in Block(Base(f, j), j)
  BY <1>1, SpanType DEF Block
<1>4. QED
  BY <1>1, <1>2, <1>3, BaseUnique

(* A block and its buddy make up the enclosing block of the next order.    *)
LEMMA BuddyPair ==
  ASSUME NEW o \in Order, o + 1 \in Order, NEW b \in Nat, b % Span[o] = 0
  PROVE  /\ Buddy(b, o) \in Nat
         /\ Buddy(b, o) % Span[o] = 0
         /\ Block(Base(b, o + 1), o + 1) = Block(b, o) \cup Block(Buddy(b, o), o)
         /\ Block(b, o) \cap Block(Buddy(b, o), o) = {}
<1>1. PICK s, t \in Nat \ {0} : s = Span[o] /\ t = Span[o + 1] /\ t = 2 * s
  BY GeometryAssumption
<1>2. PICK q \in Nat : b = q * s
  BY <1>1, AlignedQuotient
<1>3. PICK n, r \in Nat : b = n * t + r /\ r = b % t
  BY DivMod
<1>4. r < t
  BY <1>3, DivMod
<1>5. r = 0 \/ r = s
  <2>1. r = (q - 2 * n) * s
    <3>1. n * t = (2 * n) * s
      BY <1>1
    <3>2. b = (2 * n) * s + r
      BY <1>3, <3>1
    <3>3. q * s = (2 * n) * s + r
      BY <1>2, <3>2
    <3>4. QED
      BY <3>3
  <2>2. q - 2 * n < 2
    <3>1. (q - 2 * n) * s < 2 * s
      BY <1>1, <1>4, <2>1
    <3>2. QED
      BY <3>1, MulLess
  <2>3. -1 < q - 2 * n
    <3>1. (-1) * s < (q - 2 * n) * s
      BY <2>1
    <3>2. -1 \in Int /\ q - 2 * n \in Int
      OBVIOUS
    <3>3. QED
      BY <3>1, <3>2, MulLess
  <2>4. q - 2 * n = 0 \/ q - 2 * n = 1
    BY <2>2, <2>3
  <2>5. QED
    BY <2>1, <2>4
<1>6. Base(b, o + 1) = b - r
  BY <1>1, <1>3 DEF Base
<1>7. Buddy(b, o) = IF r < s THEN b + s ELSE b - s
  BY <1>1, <1>3 DEF Buddy
<1>8. CASE r = 0
  <2>1. Buddy(b, o) = b + s /\ Base(b, o + 1) = b
    BY <1>6, <1>7, <1>8
  <2>2. b + s = (q + 1) * s
    BY <1>2
  <2>3. ((q + 1) * s) % s = 0
    BY ModOfMultiple
  <2>4. QED
    BY <1>1, <2>1, <2>2, <2>3 DEF Block
<1>9. CASE r = s
  <2>1. Buddy(b, o) = b - s /\ Base(b, o + 1) = b - s
    BY <1>6, <1>7, <1>9
  <2>2. b - s \in Nat
    <3>1. n * t \in Nat
      OBVIOUS
    <3>2. b = n * t + s
      BY <1>3, <1>9
    <3>3. QED
      BY <3>1, <3>2
  <2>3. (b - s) % s = 0
    <3>1. b - s = (q - 1) * s
      BY <1>2
    <3>2. q # 0
      BY <1>2, <2>2
    <3>3. QED
      BY <3>1, <3>2, ModOfMultiple
  <2>4. QED
    BY <1>1, <2>1, <2>2, <2>3 DEF Block
<1>10. QED
  BY <1>5, <1>8, <1>9

(* The block that merging reaches at order m consists of the block freed   *)
(* and of its buddies at the orders below m.                               *)
LEMMA MergeChain ==
  ASSUME NEW f \in Nat, NEW o \in Order, NEW m \in Order, o <= m, f % Span[o] = 0
  PROVE  /\ Base(f, o) = f
         /\ Block(f, o) \subseteq Block(Base(f, m), m)
         /\ \A k \in o .. (m - 1) : Block(Buddy(Base(f, k), k), k) \subseteq Block(Base(f, m), m)
         /\ \A p \in Block(Base(f, m), m) :
              p \in Block(f, o) \/ \E k \in o .. (m - 1) : p \in Block(Buddy(Base(f, k), k), k)
<1>1. Base(f, o) = f
  <2>1. f \in Block(f, o)
    BY SpanType DEF Block
  <2>2. QED
    BY <2>1, BaseUnique
<1>2. ASSUME NEW k \in Order, k + 1 \in Order
      PROVE  Block(Base(f, k + 1), k + 1) = Block(Base(f, k), k) \cup Block(Buddy(Base(f, k), k), k)
  <2>1. Base(f, k) \in Nat /\ Base(f, k) % Span[k] = 0
    BY BaseFacts
  <2>2. Base(Base(f, k), k + 1) = Base(f, k + 1)
    BY <1>2, SpanType, BaseOfBase
  <2>3. QED
    BY <1>2, <2>1, <2>2, BuddyPair
<1>3. Block(f, o) \subseteq Block(Base(f, m), m)
  BY <1>1, BaseOfBase
<1>4. ASSUME NEW k \in o .. (m - 1)
      PROVE  Block(Buddy(Base(f, k), k), k) \subseteq Block(Base(f, m), m)
  <2>1. k \in Order /\ k + 1 \in Order /\ k + 1 <= m
    BY GeometryAssumption DEF Order
  <2>2. QED
    BY <1>2, <2>1, BaseOfBase
<1>5. ASSUME NEW p \in Block(Base(f, m), m), p \notin Block(f, o)
      PROVE  \E k \in o .. (m - 1) : p \in Block(Buddy(Base(f, k), k), k)
  <2> DEFINE S == {i \in Order : o <= i /\ p \in Block(Base(f, i), i)}
  <2>1. S \in SUBSET Nat
    BY DEF Order
  <2>2. m \in S
    BY <1>5
  <2>3. MinOf(S) \in S /\ \A y \in S : MinOf(S) <= y
    <3> HIDE DEF S
    <3>1. S # {}
      BY <2>2
    <3>2. QED
      BY <2>1, <3>1, MinOfNat
  <2>4. PICK i \in Order : /\ o <= i /\ i <= m /\ p \in Block(Base(f, i), i)
                           /\ \A y \in Order : o <= y /\ p \in Block(Base(f, y), y) => i <= y
    BY <2>2, <2>3
  <2>5. i # o
    BY <1>1, <1>5, <2>4
  <2>6. i - 1 \in Order /\ i - 1 \in o .. (m - 1) /\ (i - 1) + 1 = i
    BY <2>4, <2>5, GeometryAssumption DEF Order
  <2>7. p \notin Block(Base(f, i - 1), i - 1)
    <3>1. o <= i - 1 /\ ~(i <= i - 1)
      BY <2>4, <2>6, SpanType
    <3>2. QED
      BY <2>4, <2>6, <3>1
  <2>8. p \in Block(Buddy(Base(f, i - 1), i - 1), i - 1)
    BY <1>2, <2>4, <2>6, <2>7
  <2>9. QED
    BY <2>6, <2>8
<1>6. QED
  BY <1>1, <1>3, <1>4, <1>5

-----------------------------------------------------------------------------
(* The inductive invariant.  None of its parts is inductive alone: a merge *)
(* is safe because lists and metadata agree, they agree because a lent     *)
(* block is apart from every free one.                                     *)
IInv ==
  /\ TypeOK
  /\ ListsMatchMetadata
  /\ LentBlocksAreExclusive
  /\ NoFrameLost
  /\ FreeMemoryExact

-----------------------------------------------------------------------------
(* Facts about a state that satisfies the invariant                        *)

LEMMA PageType == Page \subseteq Nat /\ IsFiniteSet(Page)
<1>1. IsFiniteSet(0 .. (TotalPages - 1))
  BY MapAssumption, FS_Interval
<1>2. QED
  BY <1>1, MapAssumption DEF Page

(* A free block is aligned, and free all over.                             *)
LEMMA FreeBlockFacts ==
  ASSUME TypeOK, ListsMatchMetadata, NEW o \in Order, NEW b \in free_blocks[o]
  PROVE  /\ b \in Page /\ b \in Nat
         /\ b % Span[o] = 0
         /\ b \in Block(b, o)
         /\ Block(b, o) \subseteq FreePages
         /\ \A p \in Block(b, o) : order[p] = o /\ ref_count[p] = 0 /\ Base(p, o) = b
<1>1. b \in Page /\ b \in Nat
  BY PageType DEF TypeOK
<1>2. /\ b % Span[o] = 0
      /\ Block(b, o) \subseteq Page
      /\ \A p \in Block(b, o) : is_free[p] /\ order[p] = o /\ ref_count[p] = 0
  BY DEF ListsMatchMetadata
<1>3. b \in Block(b, o)
  BY <1>1, SpanType DEF Block
<1>4. \A p \in Block(b, o) : Base(p, o) = b
  BY <1>1, <1>2, BaseUnique
<1>5. QED
  BY <1>1, <1>2, <1>3, <1>4 DEF FreePages

(* A page lies in at most one free block.                                  *)
LEMMA FreeBlocksDisjoint ==
  ASSUME TypeOK, ListsMatchMetadata,
         NEW o \in Order, NEW b \in free_blocks[o],
         NEW k \in Order, NEW d \in free_blocks[k],
         NEW p \in Block(b, o), p \in Block(d, k)
  PROVE  o = k /\ b = d
<1>1. order[p] = o /\ order[p] = k /\ Base(p, o) = b /\ Base(p, k) = d
  BY FreeBlockFacts
<1>2. QED
  BY <1>1

(* The block of a free page.                                               *)
LEMMA FreePageFacts ==
  ASSUME TypeOK, ListsMatchMetadata, NEW p \in FreePages
  PROVE  /\ p \in Page /\ order[p] \in Order
         /\ Base(p, order[p]) \in free_blocks[order[p]]
         /\ p \in Block(Base(p, order[p]), order[p])
<1>1. p \in Page /\ p \in Nat /\ order[p] \in Order
  BY PageType DEF FreePages, TypeOK
<1>2. QED
  BY <1>1, BaseFacts DEF FreePages, ListsMatchMetadata

(* The pages of a block are as many as its size.                           *)
LEMMA BlockCardinality ==
  ASSUME NEW b \in Nat, NEW o \in Order
  PROVE  IsFiniteSet(Block(b, o)) /\ Cardinality(Block(b, o)) = Span[o]
<1>1. Span[o] \in Nat \ {0} /\ b \in Int /\ b + Span[o] - 1 \in Int
  BY SpanType
<1>2. \A u, v \in Int : u <= v => IsFiniteSet(u .. v) /\ Cardinality(u .. v) = v - u + 1
  BY FS_Interval
<1>3. b <= b + Span[o] - 1 /\ (b + Span[o] - 1) - b + 1 = Span[o]
  BY <1>1
<1>4. QED
  BY <1>1, <1>2, <1>3 DEF Block

-----------------------------------------------------------------------------
(* pmm_init establishes the invariant                                      *)

LEMMA UsableFacts ==
  /\ \A i \in FreeRegions : Usable(i) \subseteq Page
  /\ \A i, j \in FreeRegions : i # j => Usable(i) \cap Usable(j) = {}
  BY MapAssumption DEF Usable, FreeRegions, Page, RegionEnd

(* The carved order of a managed page, and the block it names.             *)
LEMMA CarvedFacts ==
  ASSUME NEW i \in FreeRegions, NEW p \in Usable(i)
  PROVE  /\ p \in Page /\ p \in Nat
         /\ CarvedOrder(p) \in Order
         /\ Block(Base(p, CarvedOrder(p)), CarvedOrder(p)) \subseteq Usable(i)
         /\ \A o \in Order : Block(Base(p, o), o) \subseteq Usable(i) => o <= CarvedOrder(p)
<1> DEFINE S == {o \in Order : \E j \in FreeRegions : p \in Usable(j) /\ Block(Base(p, o), o) \subseteq Usable(j)}
<1>1. p \in Page /\ p \in Nat
  BY UsableFacts, PageType
<1>2. S = {o \in Order : Block(Base(p, o), o) \subseteq Usable(i)}
  BY UsableFacts
<1>3. 0 \in S
  <2>1. 0 \in Order /\ Span[0] = 1
    BY GeometryAssumption DEF Order
  <2>2. Block(Base(p, 0), 0) = {p}
    BY <1>1, <2>1, BaseFacts DEF Block
  <2>3. QED
    BY <1>2, <2>1, <2>2
<1>4. S \in SUBSET (0 .. (MaxOrder - 1)) /\ MaxOrder - 1 \in Nat
  BY GeometryAssumption DEF Order
<1>5. CarvedOrder(p) = MaxOf(S)
  BY DEF CarvedOrder
<1>6. MaxOf(S) \in S /\ \A o \in S : o <= MaxOf(S)
  <2> HIDE DEF S
  <2>1. S # {}
    BY <1>3
  <2>2. QED
    BY <1>4, <2>1, MaxOfBounded
<1>7. QED
  BY <1>1, <1>2, <1>5, <1>6

(* All pages of a carved block have its order and its base.                *)
LEMMA CarvedBlockFacts ==
  ASSUME NEW o \in Order, NEW b \in CarvedBlocks(o), NEW p \in Block(b, o)
  PROVE  /\ p \in Managed /\ p \in Page
         /\ CarvedOrder(p) = o
         /\ Base(p, o) = b
<1>1. PICK i \in FreeRegions : b \in Usable(i)
  BY DEF CarvedBlocks, Managed
<1>2. b \in Nat /\ CarvedOrder(b) = o /\ b % Span[o] = 0
  BY <1>1, CarvedFacts DEF CarvedBlocks
<1>3. b \in Block(b, o)
  BY <1>2, SpanType DEF Block
<1>4. Base(b, o) = b /\ Base(p, o) = b
  BY <1>2, <1>3, BaseUnique
<1>5. p \in Usable(i)
  BY <1>1, <1>2, <1>4, CarvedFacts
<1>6. /\ CarvedOrder(p) \in Order /\ o <= CarvedOrder(p)
      /\ Block(Base(p, CarvedOrder(p)), CarvedOrder(p)) \subseteq Usable(i)
  BY <1>1, <1>2, <1>4, <1>5, CarvedFacts
<1>7. CarvedOrder(p) <= o
  <2> DEFINE q == CarvedOrder(p)
  <2>1. p \in Nat
    BY <1>5, CarvedFacts
  <2>2. Base(b, q) = Base(p, q)
    BY <1>4, <1>6, <2>1, BaseOfBase
  <2>3. QED
    BY <1>1, <1>2, <1>6, <2>2, CarvedFacts
<1>8. CarvedOrder(p) = o
  BY <1>6, <1>7, SpanType
<1>9. QED
  BY <1>4, <1>5, <1>8, CarvedFacts DEF Managed

LEMMA InitInv == Init => IInv
<1> SUFFICES ASSUME Init PROVE IInv
  OBVIOUS
<1>1. Managed \subseteq Page /\ IsFiniteSet(Managed)
  BY UsableFacts, PageType, FS_Subset DEF Managed
<1>2. FreePages = Managed
  BY <1>1 DEF FreePages, Init
<1>3. Held = {} /\ HeldPages = {}
  BY DEF Held, HeldPages, Init
<1>4. \A p \in Managed : CarvedOrder(p) \in Order
  BY CarvedFacts DEF Managed
<1>5. TypeOK
  <2>1. \A o \in Order : CarvedBlocks(o) \subseteq Page
    BY <1>1 DEF CarvedBlocks
  <2>2. 0 \in Order
    BY GeometryAssumption DEF Order
  <2>3. Cardinality(Managed) \in Int
    BY <1>1, FS_CardinalityType
  <2>4. QED
    BY <1>4, <2>1, <2>2, <2>3 DEF Init, TypeOK
<1>6. ListsMatchMetadata
  <2>1. ASSUME NEW o \in Order, NEW b \in free_blocks[o]
        PROVE  /\ b % Span[o] = 0
               /\ Block(b, o) \subseteq Page
               /\ \A p \in Block(b, o) : is_free[p] /\ order[p] = o /\ ref_count[p] = 0
    <3>1. b \in CarvedBlocks(o)
      BY <2>1 DEF Init
    <3>2. b % Span[o] = 0
      BY <3>1 DEF CarvedBlocks
    <3>3. QED
      BY <3>1, <3>2, CarvedBlockFacts DEF Init
  <2>2. ASSUME NEW p \in Page, is_free[p]
        PROVE  Base(p, order[p]) \in free_blocks[order[p]]
    <3>1. p \in Managed
      BY <2>2 DEF Init
    <3>2. PICK i \in FreeRegions : p \in Usable(i)
      BY <3>1 DEF Managed
    <3> DEFINE o == CarvedOrder(p)
              b == Base(p, o)
    <3>3. o \in Order /\ p \in Nat /\ Block(b, o) \subseteq Usable(i)
      BY <3>2, CarvedFacts
    <3>4. b \in Nat /\ b % Span[o] = 0 /\ p \in Block(b, o) /\ b \in Block(b, o)
      <4>1. b \in Nat /\ b % Span[o] = 0 /\ p \in Block(b, o)
        BY <3>3, BaseFacts
      <4>2. QED
        BY <3>3, <4>1, SpanType DEF Block
    <3>5. b \in Usable(i) /\ b \in Managed
      BY <3>2, <3>3, <3>4 DEF Managed
    <3>6. o <= CarvedOrder(b) /\ CarvedOrder(b) \in Order
      <4>1. Base(b, o) = b
        BY <3>3, <3>4, BaseUnique
      <4>2. QED
        BY <3>2, <3>3, <3>5, <4>1, CarvedFacts
    <3>7. CarvedOrder(b) <= o
      <4>1. Base(b, CarvedOrder(b)) = Base(p, CarvedOrder(b))
        BY <3>3, <3>6, BaseOfBase
      <4>2. QED
        BY <3>2, <3>5, <3>6, <4>1, CarvedFacts
    <3>8. CarvedOrder(b) = o
      BY <3>3, <3>6, <3>7, SpanType
    <3>9. b \in CarvedBlocks(o)
      BY <3>4, <3>5, <3>8 DEF CarvedBlocks
    <3>10. QED
      BY <2>2, <3>1, <3>3, <3>9 DEF Init
  <2>3. QED
    BY <2>1, <2>2 DEF ListsMatchMetadata
<1>7. LentBlocksAreExclusive
  BY <1>3 DEF LentBlocksAreExclusive
<1>8. NoFrameLost
  BY <1>2, <1>3 DEF NoFrameLost, Init
<1>9. FreeMemoryExact
  BY <1>2 DEF FreeMemoryExact, Init
<1>10. QED
  BY <1>5, <1>6, <1>7, <1>8, <1>9 DEF IInv
-----------------------------------------------------------------------------
(* Every call preserves the invariant                                      *)

LEMMA HeldFacts ==
  ASSUME TypeOK
  PROVE  \A h \in Held : h \in Page \X Order /\ h[1] \in Page /\ h[1] \in Nat /\ h[2] \in Order
<1>1. \A h \in Held : h \in Page \X Order
  BY DEF TypeOK, Held
<1>2. \A h \in Page \X Order : h[1] \in Page /\ h[2] \in Order
  OBVIOUS
<1>3. QED
  BY <1>1, <1>2, PageType

(* Splitting and handing out a free block.                                 *)
LEMMA TakeBlockInv ==
  ASSUME IInv, NEW c \in Client, NEW o \in Order, NEW k \in Order, o <= k,
         NEW b \in free_blocks[k], TakeBlock(c, b, k, o)
  PROVE  IInv'
<1> DEFINE rest == Block(b, k) \ Block(b, o)
           new == <<b, o>>
<1>0. TypeOK /\ ListsMatchMetadata /\ LentBlocksAreExclusive /\ NoFrameLost /\ FreeMemoryExact
  BY DEF IInv
<1>1. /\ b \in Page /\ b \in Nat /\ b % Span[k] = 0 /\ b \in Block(b, k)
      /\ Block(b, k) \subseteq FreePages
      /\ \A p \in Block(b, k) : order[p] = k /\ ref_count[p] = 0 /\ Base(p, k) = b
  BY <1>0, FreeBlockFacts
<1>2. /\ b % Span[o] = 0 /\ b \in Block(b, o) /\ Block(b, o) \subseteq Block(b, k)
      /\ b \notin rest
  <2>1. b % Span[o] = 0
    BY <1>1, AlignedDown
  <2>2. b \in Block(b, o)
    BY <1>1, SpanType DEF Block
  <2>3. QED
    BY <1>1, <2>1, <2>2, Nested
<1>3. ASSUME NEW j \in o .. (k - 1)
      PROVE  /\ j \in Order /\ b + Span[j] \in Page /\ (b + Span[j]) % Span[j] = 0
             /\ Block(b + Span[j], j) \subseteq rest
             /\ b + Span[j] \in Block(b + Span[j], j)
             /\ \A p \in Block(b + Span[j], j) : SplitOrder(b, p) = j
  <2>1. j \in Order /\ o <= j /\ j < k
    BY OrderBetween
  <2>2. (b + Span[j]) % Span[j] = 0 /\ Block(b + Span[j], j) \subseteq Block(b, k)
    BY <1>1, <2>1, UpperHalf
  <2>3. Block(b + Span[j], j) \cap Block(b, o) = {}
    BY <1>1, <2>1, SpanMultiple, SpanType DEF Block
  <2>4. b + Span[j] \in Block(b + Span[j], j)
    BY <1>1, <2>1, SpanType DEF Block
  <2>5. b + Span[j] \in Page
    BY <1>1, <2>2, <2>4 DEF FreePages
  <2>6. ASSUME NEW p \in Block(b + Span[j], j)
        PROVE  SplitOrder(b, p) = j
    BY <1>1, <2>1, SplitUnique DEF SplitOrder
  <2>7. QED
    BY <2>1, <2>2, <2>3, <2>4, <2>5, <2>6
<1>4. \A p \in rest : SplitOrder(b, p) \in o .. (k - 1) /\ p \in Block(b + Span[SplitOrder(b, p)], SplitOrder(b, p))
  <2>1. ASSUME NEW p \in rest
        PROVE  \E j \in o .. (k - 1) : p \in Block(b + Span[j], j)
    BY <1>1, SplitCover
  <2>2. QED
    BY <1>3, <2>1
<1>5. /\ free_blocks' = [j \in Order |-> IF j = k THEN free_blocks[k] \ {b}
                                         ELSE IF j \in o .. (k - 1) THEN free_blocks[j] \cup {b + Span[j]}
                                         ELSE free_blocks[j]]
      /\ is_free' = [p \in Page |-> IF p \in Block(b, k) THEN p \in rest ELSE is_free[p]]
      /\ order' = [p \in Page |-> IF p = b THEN o
                                  ELSE IF p \in rest THEN SplitOrder(b, p)
                                  ELSE order[p]]
      /\ ref_count' = [p \in Page |-> IF p = b THEN 1 ELSE IF p \in rest THEN 0 ELSE ref_count[p]]
      /\ free_memory' = free_memory - Span[o]
      /\ ret' = "OK"
      /\ holds' = [holds EXCEPT ![c] = @ \cup {new}]
      /\ reserved' = reserved
  BY DEF TakeBlock, Rest
<1>6. FreePages' = FreePages \ Block(b, o)
  BY <1>1, <1>2, <1>5 DEF FreePages
<1>7. Held' = Held \cup {new}
  BY <1>0, <1>5 DEF Held, TypeOK
<1>8. HeldPages' = HeldPages \cup Block(b, o)
  <2>1. UNION {Block(h[1], h[2]) : h \in Held \cup {new}} = HeldPages \cup Block(new[1], new[2])
    BY DEF HeldPages
  <2>2. QED
    BY <1>7, <2>1 DEF HeldPages
<1>9. TypeOK'
  <2>1. \A p \in rest : SplitOrder(b, p) \in Order
    BY <1>3, <1>4
  <2>2. free_memory' \in Int
    BY <1>0, <1>5, SpanType DEF TypeOK
  <2>3. free_blocks' \in [Order -> SUBSET Page]
    BY <1>0, <1>3, <1>5 DEF TypeOK
  <2>4. order' \in [Page -> Order]
    BY <1>0, <1>5, <2>1 DEF TypeOK
  <2>8. is_free' \in [Page -> BOOLEAN]
    <3>1. \A p \in Page : is_free[p] \in BOOLEAN
      BY <1>0 DEF TypeOK
    <3>2. ASSUME NEW p \in Page
          PROVE  (IF p \in Block(b, k) THEN p \in rest ELSE is_free[p]) \in BOOLEAN
      <4>1. CASE p \in Block(b, k)
        <5>1. (p \in rest) \in BOOLEAN
          OBVIOUS
        <5>2. QED
          BY <4>1, <5>1
      <4>2. CASE p \notin Block(b, k)
        BY <3>1, <4>2
      <4>3. QED
        BY <4>1, <4>2
    <3>3. QED
      BY <1>5, <3>2, Zenon
  <2>9. ref_count' \in [Page -> Nat]
    BY <1>0, <1>5 DEF TypeOK
  <2>5. holds' \in [Client -> SUBSET (Page \X Order)]
    BY <1>0, <1>1, <1>5 DEF TypeOK
  <2>6. ret' \in {"OK", "EINVAL", "ENOMEM", "EFAULT"} /\ reserved' \subseteq Page
    BY <1>0, <1>5 DEF TypeOK
  <2>7. QED
    BY <2>2, <2>3, <2>4, <2>5, <2>6, <2>8, <2>9 DEF TypeOK
<1>10. ListsMatchMetadata'
  <2>1. ASSUME NEW j \in Order, NEW d \in free_blocks'[j]
        PROVE  /\ d % Span[j] = 0
               /\ Block(d, j) \subseteq Page
               /\ \A p \in Block(d, j) : is_free'[p] /\ order'[p] = j /\ ref_count'[p] = 0
    <3>1. CASE j \in o .. (k - 1) /\ d = b + Span[j]
      <4>1. d % Span[j] = 0 /\ Block(d, j) \subseteq rest /\ \A p \in Block(d, j) : SplitOrder(b, p) = j
        BY <1>3, <3>1
      <4>2. rest \subseteq Page /\ rest \subseteq Block(b, k)
        BY <1>1 DEF FreePages
      <4>3. QED
        BY <1>2, <1>5, <4>1, <4>2
    <3>2. CASE ~(j \in o .. (k - 1) /\ d = b + Span[j])
      <4>1. d \in free_blocks[j] /\ ~(j = k /\ d = b)
        BY <1>5, <3>2
      <4>2. /\ d % Span[j] = 0 /\ Block(d, j) \subseteq FreePages
            /\ \A p \in Block(d, j) : order[p] = j /\ ref_count[p] = 0
        BY <1>0, <4>1, FreeBlockFacts
      <4>3. Block(d, j) \cap Block(b, k) = {}
        BY <1>0, <4>1, FreeBlocksDisjoint
      <4>4. \A p \in Block(d, j) : p \in Page /\ is_free[p] /\ p # b /\ p \notin rest
        BY <1>1, <4>2, <4>3 DEF FreePages
      <4>5. QED
        BY <1>5, <4>2, <4>3, <4>4
    <3>3. QED
      BY <3>1, <3>2
  <2>2. ASSUME NEW p \in Page, is_free'[p]
        PROVE  Base(p, order'[p]) \in free_blocks'[order'[p]]
    <3>1. CASE p \in rest
      <4> DEFINE j == SplitOrder(b, p)
      <4>1. j \in o .. (k - 1) /\ p \in Block(b + Span[j], j)
        BY <1>4, <3>1
      <4>2. j \in Order /\ (b + Span[j]) % Span[j] = 0 /\ b + Span[j] \in Nat
        BY <1>3, <4>1, PageType
      <4>3. Base(p, j) = b + Span[j]
        BY <4>1, <4>2, BaseUnique
      <4>4. order'[p] = j
        BY <1>2, <1>5, <3>1
      <4>5. j # k
        BY <4>1, SpanType
      <4>6. b + Span[j] \in free_blocks'[j]
        BY <1>5, <4>1, <4>2, <4>5
      <4>7. QED
        BY <4>3, <4>4, <4>6
    <3>2. CASE p \notin rest
      <4>1. p \notin Block(b, k) /\ is_free[p]
        BY <1>5, <2>2, <3>2
      <4>2. order'[p] = order[p]
        BY <1>1, <1>5, <3>2, <4>1
      <4>3. /\ order[p] \in Order /\ Base(p, order[p]) \in free_blocks[order[p]]
            /\ p \in Block(Base(p, order[p]), order[p])
        BY <1>0, <4>1, FreePageFacts DEF FreePages
      <4>4. ~(order[p] = k /\ Base(p, order[p]) = b)
        BY <4>1, <4>3
      <4>5. QED
        BY <1>5, <4>2, <4>3, <4>4
    <3>3. QED
      BY <3>1, <3>2
  <2>3. QED
    BY <2>1, <2>2 DEF ListsMatchMetadata
<1>11. \A h \in Held : /\ Block(h[1], h[2]) \subseteq Page \ (FreePages \cup reserved)
                       /\ h[1] \in Block(h[1], h[2])
                       /\ h # new
  <2> SUFFICES ASSUME NEW h \in Held
               PROVE  /\ Block(h[1], h[2]) \subseteq Page \ (FreePages \cup reserved)
                      /\ h[1] \in Block(h[1], h[2])
                      /\ h # new
    OBVIOUS
  <2>1. Block(h[1], h[2]) \subseteq Page \ (FreePages \cup reserved)
    BY <1>0 DEF LentBlocksAreExclusive
  <2>2. h[1] \in Block(h[1], h[2])
    BY <1>0, HeldFacts, SpanType DEF Block
  <2>3. QED
    BY <1>1, <2>1, <2>2
<1>12. LentBlocksAreExclusive'
  <2>1. ASSUME NEW h \in Held'
        PROVE  /\ h[1] % Span[h[2]] = 0
               /\ Block(h[1], h[2]) \subseteq Page \ (FreePages' \cup reserved')
               /\ order'[h[1]] = h[2]
               /\ ref_count'[h[1]] = Cardinality({d \in Client : h \in holds'[d]})
    <3>1. CASE h = new
      <4>1. {d \in Client : h \in holds'[d]} = {c}
        BY <1>0, <1>5, <1>11, <3>1 DEF Held, TypeOK
      <4>2. Cardinality({c}) = 1
        BY FS_Singleton
      <4>3. Block(b, o) \cap reserved = {} /\ Block(b, o) \subseteq Page
        BY <1>0, <1>1, <1>2 DEF NoFrameLost, FreePages
      <4>4. ref_count'[b] = 1 /\ order'[b] = o
        BY <1>1, <1>5
      <4>5. QED
        BY <1>2, <1>5, <1>6, <3>1, <4>1, <4>2, <4>3, <4>4
    <3>2. CASE h # new
      <4>1. h \in Held
        BY <1>7, <3>2
      <4>2. /\ h[1] % Span[h[2]] = 0
            /\ order[h[1]] = h[2]
            /\ ref_count[h[1]] = Cardinality({d \in Client : h \in holds[d]})
        BY <1>0, <4>1 DEF LentBlocksAreExclusive
      <4>3. {d \in Client : h \in holds'[d]} = {d \in Client : h \in holds[d]}
        BY <1>0, <1>5, <3>2 DEF TypeOK
      <4>4. h[1] \in Page /\ h[1] \notin Block(b, k)
        BY <1>1, <1>11, <4>1
      <4>5. order'[h[1]] = order[h[1]] /\ ref_count'[h[1]] = ref_count[h[1]]
        BY <1>1, <1>5, <4>4
      <4>6. QED
        BY <1>5, <1>6, <1>11, <4>1, <4>2, <4>3, <4>5
    <3>3. QED
      BY <3>1, <3>2
  <2>2. ASSUME NEW h \in Held', NEW g \in Held', h # g
        PROVE  Block(h[1], h[2]) \cap Block(g[1], g[2]) = {}
    <3>1. \A x \in Held : Block(x[1], x[2]) \cap Block(b, o) = {}
      BY <1>1, <1>2, <1>11
    <3>2. \A x, y \in Held : x # y => Block(x[1], x[2]) \cap Block(y[1], y[2]) = {}
      BY <1>0 DEF LentBlocksAreExclusive
    <3>3. QED
      BY <1>7, <2>2, <3>1, <3>2
  <2>3. QED
    BY <2>1, <2>2 DEF LentBlocksAreExclusive
<1>13. NoFrameLost'
  BY <1>0, <1>1, <1>2, <1>5, <1>6, <1>8 DEF NoFrameLost
<1>14. FreeMemoryExact'
  <2>1. IsFiniteSet(FreePages)
    BY PageType, FS_Subset DEF FreePages
  <2>2. Cardinality(FreePages \ Block(b, o)) = Cardinality(FreePages) - Cardinality(FreePages \cap Block(b, o))
    BY <2>1, FS_Difference
  <2>3. FreePages \cap Block(b, o) = Block(b, o)
    BY <1>1, <1>2
  <2>4. QED
    BY <1>0, <1>1, <1>5, <1>6, <2>2, <2>3, BlockCardinality DEF FreeMemoryExact
<1>15. QED
  BY <1>9, <1>10, <1>12, <1>13, <1>14 DEF IInv

(* What the merge loop climbs over: at each order below the one it stops   *)
(* at, the buddy is a linked block, and the merged block is made of them   *)
(* and of the block being freed.                                           *)
LEMMA MergeFacts ==
  ASSUME TypeOK, ListsMatchMetadata,
         NEW o \in Order, NEW f \in Page, f % Span[o] = 0
  PROVE  LET m == MergedOrder(f, o)
             merged == Block(Base(f, m), m)
         IN  /\ m \in Order /\ o <= m
             /\ \A k \in o .. (m - 1) :
                  /\ k \in Order
                  /\ Buddy(Base(f, k), k) \in free_blocks[k]
                  /\ Block(Buddy(Base(f, k), k), k) \subseteq merged
             /\ Base(f, m) \in Nat /\ Base(f, m) % Span[m] = 0
             /\ Base(f, m) \in merged
             /\ Block(f, o) \subseteq merged
             /\ \A p \in merged :
                  p \in Block(f, o) \/ \E k \in o .. (m - 1) : p \in Block(Buddy(Base(f, k), k), k)
<1> DEFINE S == {k \in o .. TopOrder : ~Mergeable(f, k)}
           m == MergedOrder(f, o)
<1>1. f \in Nat /\ o \in Nat /\ TopOrder \in Nat /\ o <= TopOrder
  BY PageType, GeometryAssumption DEF Order, TopOrder
<1>2. m \in S /\ \A y \in S : m <= y
  <2>1. S \subseteq Nat
    BY <1>1
  <2>2. TopOrder \in S
    BY <1>1 DEF Mergeable
  <2>3. m = MinOf(S)
    BY DEF MergedOrder
  <2> HIDE DEF S, m
  <2>4. QED
    BY <2>1, <2>2, <2>3, MinOfNat
<1>3. m \in Order /\ o <= m /\ m \in Nat
  BY <1>1, <1>2, GeometryAssumption DEF Order, TopOrder
<1>4. ASSUME NEW k \in o .. (m - 1)
      PROVE  /\ k \in Order
             /\ Buddy(Base(f, k), k) \in free_blocks[k]
  <2>1. k \in Order /\ k + 1 \in Order /\ k \in o .. TopOrder
    BY <1>1, <1>3 DEF Order, TopOrder
  <2>2. Mergeable(f, k)
    BY <1>1, <1>2, <1>3, <2>1
  <2> DEFINE buddy == Buddy(Base(f, k), k)
  <2>3. buddy \in Nat /\ buddy % Span[k] = 0
    BY <1>1, <2>1, BaseFacts, BuddyPair
  <2>4. buddy \in Page /\ is_free[buddy] /\ order[buddy] = k
    BY <2>2, <2>3, MapAssumption DEF Mergeable, Page
  <2>5. buddy \in Block(buddy, k)
    BY <2>1, <2>3, SpanType DEF Block
  <2>6. Base(buddy, k) = buddy
    BY <2>1, <2>3, <2>5, BaseUnique
  <2>7. QED
    BY <2>1, <2>4, <2>6 DEF ListsMatchMetadata
<1>5. Base(f, m) \in Nat /\ Base(f, m) % Span[m] = 0
  BY <1>1, <1>3, BaseFacts
<1>6. Base(f, m) \in Block(Base(f, m), m)
  BY <1>3, <1>5, SpanType DEF Block
<1>7. /\ Block(f, o) \subseteq Block(Base(f, m), m)
      /\ \A k \in o .. (m - 1) : Block(Buddy(Base(f, k), k), k) \subseteq Block(Base(f, m), m)
      /\ \A p \in Block(Base(f, m), m) :
           p \in Block(f, o) \/ \E k \in o .. (m - 1) : p \in Block(Buddy(Base(f, k), k), k)
  BY <1>1, <1>3, MergeChain
<1>8. QED
  BY <1>3, <1>4, <1>5, <1>6, <1>7

(* The last reference to a block goes: it is freed and merged.             *)
LEMMA FreeInv ==
  ASSUME IInv, NEW c \in Client, NEW f \in Page, ref_count[f] = 1,
         NEW h \in holds[c], h[1] = f,
         holds' = [holds EXCEPT ![c] = @ \ {h}],
         pmm_free_page(order[f], f),
         ret' = "OK", reserved' = reserved
  PROVE  IInv'
<1> DEFINE o == h[2]
           m == MergedOrder(f, o)
           merged == Block(Base(f, m), m)
<1>0. TypeOK /\ ListsMatchMetadata /\ LentBlocksAreExclusive /\ NoFrameLost /\ FreeMemoryExact
  BY DEF IInv
<1>1. /\ h \in Held /\ h = <<f, o>> /\ o \in Order /\ f \in Nat /\ order[f] = o
      /\ f % Span[o] = 0 /\ f \in Block(f, o)
      /\ Block(f, o) \subseteq Page \ (FreePages \cup reserved)
  <2>1. h \in Held
    BY DEF Held
  <2>2. h = <<f, o>> /\ o \in Order /\ f \in Nat
    <3>1. h \in Page \X Order
      BY <1>0, <2>1, HeldFacts
    <3>2. QED
      BY <3>1, PageType
  <2>3. f % Span[o] = 0 /\ Block(f, o) \subseteq Page \ (FreePages \cup reserved) /\ order[f] = o
    BY <1>0, <2>1, <2>2 DEF LentBlocksAreExclusive
  <2>4. f \in Block(f, o)
    BY <2>2, SpanType DEF Block
  <2>5. QED
    BY <2>1, <2>2, <2>3, <2>4
<1>2. \A d \in Client : h \in holds[d] => d = c
  <2> DEFINE S == {d \in Client : h \in holds[d]}
  <2>1. Cardinality(S) = 1
    BY <1>0, <1>1 DEF LentBlocksAreExclusive
  <2>2. IsFiniteSet(S)
    BY ClientAssumption, FS_Subset
  <2>3. \E d : S = {d}
    <3> HIDE DEF S
    <3> QED
      BY <2>1, <2>2, FS_Singleton
  <2>4. QED
    BY <2>3
<1>3. /\ m \in Order /\ o <= m
      /\ \A k \in o .. (m - 1) :
           /\ k \in Order
           /\ Buddy(Base(f, k), k) \in free_blocks[k]
           /\ Block(Buddy(Base(f, k), k), k) \subseteq merged
      /\ Base(f, m) \in Nat /\ Base(f, m) % Span[m] = 0 /\ Base(f, m) \in merged
      /\ Block(f, o) \subseteq merged
      /\ \A p \in merged :
           p \in Block(f, o) \/ \E k \in o .. (m - 1) : p \in Block(Buddy(Base(f, k), k), k)
  BY <1>0, <1>1, MergeFacts
<1>4. /\ free_blocks' =
           [k \in Order |-> IF k = m THEN free_blocks[m] \cup {Base(f, m)}
                            ELSE IF k \in o .. (m - 1) THEN free_blocks[k] \ {Buddy(Base(f, k), k)}
                            ELSE free_blocks[k]]
      /\ is_free' = [p \in Page |-> p \in merged \/ is_free[p]]
      /\ order' = [p \in Page |-> IF p \in merged THEN m ELSE order[p]]
      /\ ref_count' = [p \in Page |-> IF p \in merged THEN 0 ELSE ref_count[p]]
      /\ free_memory' = free_memory + Span[o]
      /\ holds' = [holds EXCEPT ![c] = @ \ {h}]
      /\ reserved' = reserved
  BY <1>1 DEF pmm_free_page
<1> HIDE DEF o, m
<1>5. merged \subseteq Block(f, o) \cup FreePages /\ merged \subseteq Page
  <2>1. ASSUME NEW p \in merged
        PROVE  p \in Block(f, o) \/ p \in FreePages
    <3>1. CASE p \in Block(f, o)
      BY <3>1
    <3>2. CASE p \notin Block(f, o)
      <4>1. PICK k \in o .. (m - 1) : p \in Block(Buddy(Base(f, k), k), k)
        BY <1>3, <3>2
      <4>2. k \in Order /\ Buddy(Base(f, k), k) \in free_blocks[k]
        BY <1>3
      <4>3. QED
        BY <1>0, <4>1, <4>2, FreeBlockFacts
    <3>3. QED
      BY <3>1, <3>2
  <2>2. QED
    BY <1>1, <2>1 DEF FreePages
<1>6. ASSUME NEW k \in Order, NEW d \in free_blocks[k], NEW p \in Block(d, k), p \in merged
      PROVE  k \in o .. (m - 1) /\ d = Buddy(Base(f, k), k)
  <2>1. p \notin Block(f, o)
    BY <1>0, <1>1, FreeBlockFacts
  <2>2. PICK j \in o .. (m - 1) : p \in Block(Buddy(Base(f, j), j), j)
    BY <1>3, <1>6, <2>1
  <2>3. j \in Order /\ Buddy(Base(f, j), j) \in free_blocks[j]
    BY <1>3
  <2>4. k = j /\ d = Buddy(Base(f, j), j)
    BY <1>0, <2>2, <2>3, FreeBlocksDisjoint
  <2>5. QED
    BY <2>2, <2>4
<1>7. FreePages' = FreePages \cup Block(f, o)
  BY <1>1, <1>3, <1>4, <1>5 DEF FreePages
<1>8. Held' = Held \ {h}
  <2>1. \A g : g \in Held' <=> g \in Held /\ g # h
    <3>1. \A d \in Client : holds'[d] = IF d = c THEN holds[d] \ {h} ELSE holds[d]
      BY <1>0, <1>4 DEF TypeOK
    <3>2. QED
      BY <1>2, <3>1 DEF Held
  <2>2. QED
    BY <2>1
<1>9. \A g \in Held' : /\ Block(g[1], g[2]) \cap merged = {}
                       /\ g[1] \in Page /\ g[1] \in Block(g[1], g[2])
  <2> SUFFICES ASSUME NEW g \in Held'
               PROVE  /\ Block(g[1], g[2]) \cap merged = {}
                      /\ g[1] \in Page /\ g[1] \in Block(g[1], g[2])
    OBVIOUS
  <2>1. g \in Held /\ g # h
    BY <1>8
  <2>2. Block(g[1], g[2]) \cap Block(f, o) = {}
    <3>1. Block(g[1], g[2]) \cap Block(h[1], h[2]) = {}
      BY <1>0, <1>1, <2>1 DEF LentBlocksAreExclusive
    <3>2. QED
      BY <3>1 DEF o
  <2>3. Block(g[1], g[2]) \cap FreePages = {}
    BY <1>0, <2>1 DEF LentBlocksAreExclusive
  <2>4. g[1] \in Page /\ g[1] \in Block(g[1], g[2])
    BY <1>0, <2>1, HeldFacts, SpanType DEF Block
  <2>5. QED
    BY <1>5, <2>2, <2>3, <2>4
<1>10. TypeOK'
  <2>1. free_memory' \in Int
    BY <1>0, <1>1, <1>4, SpanType DEF TypeOK
  <2>2. free_blocks' \in [Order -> SUBSET Page]
    BY <1>0, <1>3, <1>4, <1>5 DEF TypeOK
  <2>3. is_free' \in [Page -> BOOLEAN]
    <3>1. \A p \in Page : (p \in merged \/ is_free[p]) \in BOOLEAN
      OBVIOUS
    <3>2. QED
      BY <1>4, <3>1, Zenon
  <2>4. order' \in [Page -> Order]
    BY <1>0, <1>3, <1>4 DEF TypeOK
  <2>5. ref_count' \in [Page -> Nat]
    BY <1>0, <1>4 DEF TypeOK
  <2>6. holds' \in [Client -> SUBSET (Page \X Order)]
    BY <1>0, <1>4 DEF TypeOK
  <2>7. QED
    BY <1>0, <1>4, <2>1, <2>2, <2>3, <2>4, <2>5, <2>6 DEF TypeOK
<1>11. ListsMatchMetadata'
  <2>1. ASSUME NEW j \in Order, NEW d \in free_blocks'[j]
        PROVE  /\ d % Span[j] = 0
               /\ Block(d, j) \subseteq Page
               /\ \A p \in Block(d, j) : is_free'[p] /\ order'[p] = j /\ ref_count'[p] = 0
    <3>1. CASE j = m /\ d = Base(f, m)
      BY <1>3, <1>4, <1>5, <3>1
    <3>2. CASE ~(j = m /\ d = Base(f, m))
      <4>1. d \in free_blocks[j] /\ ~(j \in o .. (m - 1) /\ d = Buddy(Base(f, j), j))
        BY <1>3, <1>4, <3>2, SpanType
      <4>2. Block(d, j) \cap merged = {}
        BY <1>6, <4>1
      <4>3. /\ d % Span[j] = 0 /\ Block(d, j) \subseteq Page
            /\ \A p \in Block(d, j) : is_free[p] /\ order[p] = j /\ ref_count[p] = 0
        BY <1>0, <4>1 DEF ListsMatchMetadata
      <4>4. QED
        BY <1>4, <4>2, <4>3
    <3>3. QED
      BY <3>1, <3>2
  <2>2. ASSUME NEW p \in Page, is_free'[p]
        PROVE  Base(p, order'[p]) \in free_blocks'[order'[p]]
    <3>1. CASE p \in merged
      <4>1. Base(p, m) = Base(f, m)
        BY <1>3, <3>1, BaseUnique
      <4>2. QED
        BY <1>3, <1>4, <3>1, <4>1
    <3>2. CASE p \notin merged
      <4>1. p \in FreePages /\ order'[p] = order[p]
        BY <1>4, <2>2, <3>2 DEF FreePages
      <4>2. /\ order[p] \in Order /\ Base(p, order[p]) \in free_blocks[order[p]]
            /\ p \in Block(Base(p, order[p]), order[p])
        BY <1>0, <4>1, FreePageFacts
      <4>3. ~(order[p] \in o .. (m - 1) /\ Base(p, order[p]) = Buddy(Base(f, order[p]), order[p]))
        BY <1>3, <3>2, <4>2
      <4>4. QED
        BY <1>4, <4>1, <4>2, <4>3
    <3>3. QED
      BY <3>1, <3>2
  <2>3. QED
    BY <2>1, <2>2 DEF ListsMatchMetadata
<1>12. LentBlocksAreExclusive'
  <2>1. ASSUME NEW g \in Held'
        PROVE  /\ g[1] % Span[g[2]] = 0
               /\ Block(g[1], g[2]) \subseteq Page \ (FreePages' \cup reserved')
               /\ order'[g[1]] = g[2]
               /\ ref_count'[g[1]] = Cardinality({d \in Client : g \in holds'[d]})
    <3>1. g \in Held /\ g # h
      BY <1>8
    <3>2. /\ g[1] % Span[g[2]] = 0
          /\ Block(g[1], g[2]) \subseteq Page \ (FreePages \cup reserved)
          /\ order[g[1]] = g[2]
          /\ ref_count[g[1]] = Cardinality({d \in Client : g \in holds[d]})
      BY <1>0, <3>1 DEF LentBlocksAreExclusive
    <3>3. {d \in Client : g \in holds'[d]} = {d \in Client : g \in holds[d]}
      BY <1>0, <1>4, <3>1 DEF TypeOK
    <3>4. order'[g[1]] = order[g[1]] /\ ref_count'[g[1]] = ref_count[g[1]]
      BY <1>4, <1>9
    <3>5. Block(g[1], g[2]) \cap Block(f, o) = {}
      BY <1>3, <1>9
    <3>6. QED
      BY <1>4, <1>7, <3>2, <3>3, <3>4, <3>5
  <2>2. ASSUME NEW x \in Held', NEW y \in Held', x # y
        PROVE  Block(x[1], x[2]) \cap Block(y[1], y[2]) = {}
    BY <1>0, <1>8, <2>2 DEF LentBlocksAreExclusive
  <2>3. QED
    BY <2>1, <2>2 DEF LentBlocksAreExclusive
<1>13. NoFrameLost'
  <2>1. HeldPages' \cup Block(f, o) = HeldPages
    <3>1. \A p : p \in HeldPages <=> \E g \in Held : p \in Block(g[1], g[2])
      BY DEF HeldPages
    <3>2. \A p : p \in HeldPages' <=> \E g \in Held' : p \in Block(g[1], g[2])
      BY DEF HeldPages
    <3>3. Block(h[1], h[2]) = Block(f, o)
      BY DEF o
    <3>4. QED
      BY <1>1, <1>8, <3>1, <3>2, <3>3
  <2>2. QED
    BY <1>0, <1>1, <1>4, <1>7, <2>1 DEF NoFrameLost
<1>14. FreeMemoryExact'
  <2>1. IsFiniteSet(FreePages)
    BY PageType, FS_Subset DEF FreePages
  <2>2. IsFiniteSet(Block(f, o)) /\ Cardinality(Block(f, o)) = Span[o]
    BY <1>1, BlockCardinality
  <2>3. FreePages \cap Block(f, o) = {}
    BY <1>1
  <2>4. Cardinality(FreePages \cup Block(f, o)) = Cardinality(FreePages) + Cardinality(Block(f, o)) - Cardinality({})
    BY <2>1, <2>2, <2>3, FS_Union
  <2>5. Cardinality({}) = 0
    BY FS_EmptySet
  <2>6. Cardinality(FreePages) \in Nat /\ Span[o] \in Nat
    BY <1>1, <2>1, FS_CardinalityType, SpanType
  <2>7. QED
    BY <1>0, <1>4, <1>7, <2>2, <2>4, <2>5, <2>6 DEF FreeMemoryExact
<1>15. QED
  BY <1>10, <1>11, <1>12, <1>13, <1>14 DEF IInv

(* A call that fails, or a step of somebody else, changes nothing here.    *)
LEMMA StutterInv ==
  ASSUME IInv, ret' \in {"OK", "EINVAL", "ENOMEM", "EFAULT"},
         UNCHANGED <<free_blocks, is_free, order, ref_count, free_memory, holds, reserved>>
  PROVE  IInv'
<1>1. TypeOK'
  BY DEF IInv, TypeOK
<1>2. FreePages' = FreePages /\ Held' = Held /\ HeldPages' = HeldPages
  BY DEF FreePages, Held, HeldPages
<1>3. ListsMatchMetadata'
  BY DEF IInv, ListsMatchMetadata
<1>4. LentBlocksAreExclusive'
  BY <1>2 DEF IInv, LentBlocksAreExclusive
<1>5. NoFrameLost' /\ FreeMemoryExact'
  BY <1>2 DEF IInv, NoFrameLost, FreeMemoryExact
<1>6. QED
  BY <1>1, <1>3, <1>4, <1>5 DEF IInv

LEMMA FailInv ==
  ASSUME IInv, NEW e \in {"OK", "EINVAL", "ENOMEM", "EFAULT"}, Fail(e)
  PROVE  IInv'
  BY StutterInv DEF Fail

(* A reference is added to a block or taken from it while others remain.   *)
LEMMA CountInv ==
  ASSUME IInv, NEW c \in Client, NEW h \in Held, NEW mine \in SUBSET {h},
         NEW n \in Nat,
         holds' = [holds EXCEPT ![c] = (@ \ {h}) \cup mine],
         ref_count' = [ref_count EXCEPT ![h[1]] = n],
         n = Cardinality({d \in Client : h \in holds'[d]}), n > 0,
         ret' = "OK",
         UNCHANGED <<free_blocks, is_free, order, free_memory, reserved>>
  PROVE  IInv'
<1>0. TypeOK /\ ListsMatchMetadata /\ LentBlocksAreExclusive /\ NoFrameLost /\ FreeMemoryExact
  BY DEF IInv
<1>1. h \in Page \X Order /\ h[1] \in Page
  BY <1>0, HeldFacts
<1>2. \A d \in Client : holds'[d] = IF d = c THEN (holds[d] \ {h}) \cup mine ELSE holds[d]
  BY <1>0 DEF TypeOK
<1>3. FreePages' = FreePages
  BY DEF FreePages
<1>4. Held' = Held
  <2>1. {d \in Client : h \in holds'[d]} # {}
    <3>1. Cardinality({d \in Client : h \in holds'[d]}) # 0
      OBVIOUS
    <3>2. QED
      BY <3>1, FS_EmptySet
  <2>2. \A g : g \in Held' <=> g \in Held
    BY <1>2, <2>1 DEF Held
  <2>3. QED
    BY <2>2
<1>5. HeldPages' = HeldPages
  BY <1>4 DEF HeldPages
<1>6. \A g \in Held : g # h => g[1] # h[1]
  <2>1. \A g \in Held : g[1] \in Block(g[1], g[2])
    BY <1>0, HeldFacts, SpanType DEF Block
  <2>2. QED
    BY <1>0, <2>1 DEF LentBlocksAreExclusive
<1>7. TypeOK'
  <2>1. holds' \in [Client -> SUBSET (Page \X Order)]
    BY <1>0, <1>1 DEF TypeOK
  <2>2. ref_count' \in [Page -> Nat]
    BY <1>0, <1>1 DEF TypeOK
  <2>3. QED
    BY <1>0, <2>1, <2>2 DEF TypeOK
<1>8. ListsMatchMetadata'
  <2>1. h[1] \notin FreePages
    <3>1. h[1] \in Block(h[1], h[2])
      BY <1>0, HeldFacts, SpanType DEF Block
    <3>2. QED
      BY <1>0, <3>1 DEF LentBlocksAreExclusive
  <2>2. \A p \in Page : is_free[p] => ref_count'[p] = ref_count[p]
    BY <1>0, <2>1 DEF FreePages, TypeOK
  <2>3. QED
    BY <1>0, <2>2 DEF ListsMatchMetadata
<1>9. LentBlocksAreExclusive'
  <2>1. ASSUME NEW g \in Held
        PROVE  ref_count'[g[1]] = Cardinality({d \in Client : g \in holds'[d]})
    <3>1. CASE g = h
      BY <1>0, <1>1, <3>1 DEF TypeOK
    <3>2. CASE g # h
      <4>1. {d \in Client : g \in holds'[d]} = {d \in Client : g \in holds[d]}
        BY <1>2, <3>2
      <4>2. ref_count'[g[1]] = ref_count[g[1]]
        BY <1>0, <1>6, <3>2, HeldFacts DEF TypeOK
      <4>3. QED
        BY <1>0, <4>1, <4>2 DEF LentBlocksAreExclusive
    <3>3. QED
      BY <3>1, <3>2
  <2>2. QED
    BY <1>0, <1>3, <1>4, <2>1 DEF LentBlocksAreExclusive
<1>10. NoFrameLost' /\ FreeMemoryExact'
  BY <1>0, <1>3, <1>5 DEF NoFrameLost, FreeMemoryExact
<1>11. QED
  BY <1>0, <1>7, <1>8, <1>9, <1>10 DEF IInv

LEMMA RetainInv ==
  ASSUME IInv, NEW c \in Client, NEW f \in 0 .. TotalPages, pmm_retain(c, f)
  PROVE  IInv'
<1>1. CASE Fail("EFAULT")
  BY <1>1, FailInv
<1>2. CASE ~Fail("EFAULT")
  <2>1. PICK h \in Held \ holds[c] : h[1] = f /\ holds' = [holds EXCEPT ![c] = @ \cup {h}]
    BY <1>2 DEF pmm_retain
  <2>2. /\ f \in Page /\ ref_count' = [ref_count EXCEPT ![f] = @ + 1] /\ ret' = "OK"
        /\ UNCHANGED <<free_blocks, is_free, order, free_memory, reserved>>
    BY <1>2 DEF pmm_retain
  <2> DEFINE S == {d \in Client : h \in holds[d]}
             n == ref_count[f] + 1
  <2>3. TypeOK /\ LentBlocksAreExclusive
    BY DEF IInv
  <2>4. n = Cardinality(S \cup {c}) /\ n \in Nat /\ n > 0
    <3>1. IsFiniteSet(S) /\ c \notin S /\ ref_count[f] = Cardinality(S)
      BY <2>1, <2>3, ClientAssumption, FS_Subset DEF LentBlocksAreExclusive
    <3>2. Cardinality(S \cup {c}) = Cardinality(S) + 1
      <4> HIDE DEF S
      <4> QED
        BY <3>1, FS_AddElement
    <3>3. ref_count[f] \in Nat
      BY <2>2, <2>3 DEF TypeOK
    <3>4. QED
      BY <3>1, <3>2, <3>3
  <2>5. {d \in Client : h \in holds'[d]} = S \cup {c}
    BY <2>1, <2>3 DEF TypeOK
  <2>6. holds' = [holds EXCEPT ![c] = (@ \ {h}) \cup {h}]
    <3>1. (holds[c] \ {h}) \cup {h} = holds[c] \cup {h}
      OBVIOUS
    <3>2. QED
      BY <2>1, <2>3, <3>1 DEF TypeOK
  <2>7. ref_count' = [ref_count EXCEPT ![h[1]] = n]
    BY <2>1, <2>2
  <2>8. n = Cardinality({d \in Client : h \in holds'[d]})
    BY <2>4, <2>5
  <2>9. h \in Held /\ {h} \in SUBSET {h}
    BY <2>1
  <2> HIDE DEF n, S
  <2>10. QED
    BY <2>2, <2>4, <2>6, <2>7, <2>8, <2>9, CountInv
<1>3. QED
  BY <1>1, <1>2

LEMMA ReleaseInv ==
  ASSUME IInv, NEW c \in Client, NEW f \in 0 .. TotalPages, pmm_release(c, f)
  PROVE  IInv'
<1>1. CASE Fail("EFAULT")
  BY <1>1, FailInv
<1>2. CASE ~Fail("EFAULT")
  <2>1. PICK h \in holds[c] : h[1] = f /\ holds' = [holds EXCEPT ![c] = @ \ {h}]
    BY <1>2 DEF pmm_release
  <2>2. f \in Page /\ ref_count[f] > 0 /\ ret' = "OK" /\ UNCHANGED reserved
    BY <1>2 DEF pmm_release
  <2>3. CASE ref_count[f] = 1 /\ pmm_free_page(order[f], f)
    BY <2>1, <2>2, <2>3, FreeInv
  <2>4. CASE /\ ref_count[f] > 1
             /\ ref_count' = [ref_count EXCEPT ![f] = @ - 1]
             /\ UNCHANGED <<free_blocks, is_free, order, free_memory>>
    <3> DEFINE S == {d \in Client : h \in holds[d]}
               n == ref_count[f] - 1
    <3>1. TypeOK /\ LentBlocksAreExclusive
      BY DEF IInv
    <3>2. h \in Held
      BY <2>1 DEF Held
    <3>3. n = Cardinality(S \ {c}) /\ n \in Nat /\ n > 0
      <4>1. IsFiniteSet(S) /\ c \in S /\ ref_count[f] = Cardinality(S)
        BY <2>1, <3>1, <3>2, ClientAssumption, FS_Subset DEF LentBlocksAreExclusive
      <4>2. Cardinality(S \ {c}) = Cardinality(S) - 1
        <5> HIDE DEF S
        <5> QED
          BY <4>1, FS_RemoveElement
      <4>3. ref_count[f] \in Nat
        BY <2>2, <3>1 DEF TypeOK
      <4>4. QED
        BY <2>4, <4>1, <4>2, <4>3
    <3>4. {d \in Client : h \in holds'[d]} = S \ {c}
      BY <2>1, <3>1 DEF TypeOK
    <3>5. holds' = [holds EXCEPT ![c] = (@ \ {h}) \cup {}]
      BY <2>1
    <3>6. ref_count' = [ref_count EXCEPT ![h[1]] = n]
      BY <2>1, <2>4
    <3> HIDE DEF n, S
    <3>7. QED
      BY <2>2, <2>4, <3>2, <3>3, <3>4, <3>5, <3>6, CountInv
  <2>5. QED
    BY <1>2, <2>3, <2>4 DEF pmm_release
<1>3. QED
  BY <1>1, <1>2

(* The free blocks that meet a range leave the lists whole.                *)
LEMMA ReserveInv ==
  ASSUME IInv, NEW r \in Ranges, pmm_reserve_range(r.start, r.size)
  PROVE  IInv'
<1> DEFINE range == r.start .. (r.start + r.size - 1)
           met == {p \in range : is_free[p]}
           evicted == UNION {Block(Base(p, order[p]), order[p]) : p \in met}
           Gone(o) == {Base(p, order[p]) : p \in {q \in met : order[q] = o}}
<1>0. TypeOK /\ ListsMatchMetadata /\ LentBlocksAreExclusive /\ NoFrameLost /\ FreeMemoryExact
  BY DEF IInv
<1>1. CASE Fail("OK") \/ Fail("EINVAL")
  BY <1>1, FailInv
<1>2. CASE ~(Fail("OK") \/ Fail("EINVAL"))
  <2>1. /\ r.start + r.size <= TotalPages
        /\ free_blocks' = [o \in Order |-> free_blocks[o] \ Gone(o)]
        /\ is_free' = [p \in Page |-> is_free[p] /\ p \notin evicted]
        /\ ref_count' = [p \in Page |-> IF p \in evicted THEN 1 ELSE ref_count[p]]
        /\ order' = [p \in Page |-> IF p \in evicted THEN 0 ELSE order[p]]
        /\ free_memory' = free_memory - Cardinality(evicted)
        /\ ret' = "OK"
        /\ reserved' = reserved \cup evicted
        /\ holds' = holds
    BY <1>2 DEF pmm_reserve_range
  <2>2. met \subseteq FreePages
    BY <2>1, CallAssumption, MapAssumption DEF FreePages, Page
  <2>3. \A p \in met : /\ order[p] \in Order /\ Base(p, order[p]) \in free_blocks[order[p]]
                       /\ p \in Block(Base(p, order[p]), order[p])
                       /\ Block(Base(p, order[p]), order[p]) \subseteq FreePages
    BY <1>0, <2>2, FreePageFacts, FreeBlockFacts
  <2> HIDE DEF met
  <2>4. evicted \subseteq FreePages
    BY <2>3
  <2>5. ASSUME NEW o \in Order, NEW b \in free_blocks[o], NEW q \in Block(b, o), q \in evicted
        PROVE  b \in Gone(o)
    <3>1. PICK p \in met : q \in Block(Base(p, order[p]), order[p])
      BY <2>5
    <3>2. o = order[p] /\ b = Base(p, order[p])
      BY <1>0, <2>3, <2>5, <3>1, FreeBlocksDisjoint
    <3>3. QED
      BY <3>2
  <2>6. \A o \in Order : \A b \in Gone(o) : b \in free_blocks[o] /\ Block(b, o) \subseteq evicted
    BY <2>3
  <2> HIDE DEF evicted, Gone
  <2>7. FreePages' = FreePages \ evicted
    BY <2>1 DEF FreePages
  <2>8. Held' = Held /\ HeldPages' = HeldPages
    BY <2>1 DEF Held, HeldPages
  <2>9. TypeOK'
    <3>1. IsFiniteSet(evicted)
      BY <2>4, PageType, FS_Subset DEF FreePages
    <3>2. free_memory' \in Int
      BY <1>0, <2>1, <3>1, FS_CardinalityType DEF TypeOK
    <3>3. \A p \in Page : (is_free[p] /\ p \notin evicted) \in BOOLEAN
      OBVIOUS
    <3>4. is_free' \in [Page -> BOOLEAN]
      BY <2>1, <3>3, Zenon
    <3>5. order' \in [Page -> Order]
      BY <1>0, <2>1, GeometryAssumption DEF TypeOK, Order
    <3>6. ref_count' \in [Page -> Nat]
      BY <1>0, <2>1 DEF TypeOK
    <3>7. free_blocks' \in [Order -> SUBSET Page]
      BY <1>0, <2>1 DEF TypeOK
    <3>8. reserved' \subseteq Page
      BY <1>0, <2>1, <2>4 DEF TypeOK, FreePages
    <3>9. QED
      BY <1>0, <2>1, <3>2, <3>4, <3>5, <3>6, <3>7, <3>8 DEF TypeOK
  <2>10. ListsMatchMetadata'
    <3>1. ASSUME NEW o \in Order, NEW b \in free_blocks'[o]
          PROVE  /\ b % Span[o] = 0
                 /\ Block(b, o) \subseteq Page
                 /\ \A p \in Block(b, o) : is_free'[p] /\ order'[p] = o /\ ref_count'[p] = 0
      <4>1. b \in free_blocks[o] /\ b \notin Gone(o)
        BY <2>1
      <4>2. Block(b, o) \cap evicted = {}
        BY <2>5, <4>1
      <4>3. /\ b % Span[o] = 0 /\ Block(b, o) \subseteq Page
            /\ \A p \in Block(b, o) : is_free[p] /\ order[p] = o /\ ref_count[p] = 0
        BY <1>0, <4>1 DEF ListsMatchMetadata
      <4>4. QED
        BY <2>1, <4>2, <4>3
    <3>2. ASSUME NEW p \in Page, is_free'[p]
          PROVE  Base(p, order'[p]) \in free_blocks'[order'[p]]
      <4>1. p \in FreePages /\ p \notin evicted /\ order'[p] = order[p]
        BY <2>1, <3>2 DEF FreePages
      <4>2. /\ order[p] \in Order /\ Base(p, order[p]) \in free_blocks[order[p]]
            /\ p \in Block(Base(p, order[p]), order[p])
        BY <1>0, <4>1, FreePageFacts
      <4>3. Base(p, order[p]) \notin Gone(order[p])
        BY <2>6, <4>1, <4>2
      <4>4. QED
        BY <2>1, <4>1, <4>2, <4>3
    <3>3. QED
      BY <3>1, <3>2 DEF ListsMatchMetadata
  <2>11. LentBlocksAreExclusive'
    <3>1. ASSUME NEW h \in Held
          PROVE  /\ Block(h[1], h[2]) \subseteq Page \ (FreePages' \cup reserved')
                 /\ order'[h[1]] = order[h[1]]
                 /\ ref_count'[h[1]] = ref_count[h[1]]
      <4>1. Block(h[1], h[2]) \subseteq Page \ (FreePages \cup reserved)
        BY <1>0 DEF LentBlocksAreExclusive
      <4>2. h[1] \in Block(h[1], h[2]) /\ h[1] \in Page
        BY <1>0, HeldFacts, SpanType DEF Block
      <4>3. QED
        BY <2>1, <2>4, <2>7, <4>1, <4>2
    <3>2. QED
      BY <1>0, <2>1, <2>8, <3>1 DEF LentBlocksAreExclusive
  <2>12. NoFrameLost'
    BY <1>0, <2>1, <2>4, <2>7, <2>8 DEF NoFrameLost
  <2>13. FreeMemoryExact'
    <3>1. IsFiniteSet(FreePages)
      BY PageType, FS_Subset DEF FreePages
    <3>2. Cardinality(FreePages \ evicted) = Cardinality(FreePages) - Cardinality(FreePages \cap evicted)
      BY <3>1, FS_Difference
    <3>3. FreePages \cap evicted = evicted
      BY <2>4
    <3>4. QED
      BY <1>0, <2>1, <2>7, <3>2, <3>3 DEF FreeMemoryExact
  <2>14. QED
    BY <2>9, <2>10, <2>11, <2>12, <2>13 DEF IInv
<1>3. QED
  BY <1>1, <1>2

LEMMA AllocFromInv ==
  ASSUME IInv, NEW c \in Client, NEW o \in Order, NEW allowed, AllocFrom(c, o, allowed)
  PROVE  IInv'
<1> DEFINE fitting == {k \in o .. TopOrder : free_blocks[k] \cap allowed # {}}
<1>1. CASE Fail("ENOMEM")
  BY <1>1, FailInv
<1>2. CASE ~Fail("ENOMEM")
  <2>1. fitting # {} /\ \E b \in free_blocks[MinOf(fitting)] \cap allowed : TakeBlock(c, b, MinOf(fitting), o)
    BY <1>2 DEF AllocFrom
  <2>2. fitting \subseteq Order /\ fitting \subseteq Nat /\ \A k \in fitting : o <= k
    BY GeometryAssumption DEF Order, TopOrder
  <2>3. MinOf(fitting) \in fitting
    <3> HIDE DEF fitting
    <3> QED
      BY <2>1, <2>2, MinOfNat
  <2> HIDE DEF fitting
  <2>4. PICK b \in free_blocks[MinOf(fitting)] : TakeBlock(c, b, MinOf(fitting), o)
    BY <2>1
  <2>5. QED
    BY <2>2, <2>3, <2>4, TakeBlockInv
<1>3. QED
  BY <1>1, <1>2

LEMMA OrderForType ==
  ASSUME NEW count \in Counts, ~BadCount(count)
  PROVE  OrderFor(count) \in Order
<1> DEFINE S == {o \in Order : Span[o] >= count}
<1>1. TopOrder \in S
  BY GeometryAssumption, SpanType, CallAssumption DEF BadCount, TopOrder, Order
<1>2. S \subseteq Nat
  BY SpanType
<1>3. MinOf(S) \in S
  <2> HIDE DEF S
  <2> QED
    BY <1>1, <1>2, MinOfNat
<1>4. QED
  BY <1>3 DEF OrderFor

LEMMA NextInv == IInv /\ [Next]_vars => IInv'
<1> SUFFICES ASSUME IInv, [Next]_vars PROVE IInv'
  OBVIOUS
<1>1. ASSUME NEW c \in Client, NEW o \in 0 .. MaxOrder, pmm_alloc_page(c, o)
      PROVE  IInv'
  BY <1>1, FailInv, AllocFromInv DEF pmm_alloc_page
<1>2. ASSUME NEW c \in Client, NEW count \in Counts, NEW a \in Alignments, pmm_alloc_aligned(c, count, a)
      PROVE  IInv'
  <2>1. CASE Fail("EINVAL")
    BY <2>1, FailInv
  <2>2. CASE ~Fail("EINVAL")
    BY <1>2, <2>2, OrderForType, AllocFromInv DEF pmm_alloc_aligned
  <2>3. QED
    BY <2>1, <2>2
<1>3. ASSUME NEW c \in Client, NEW count \in Counts, NEW max \in Limits, pmm_alloc_in_range(c, count, max)
      PROVE  IInv'
  <2>1. CASE Fail("EINVAL")
    BY <2>1, FailInv
  <2>2. CASE ~Fail("EINVAL")
    BY <1>3, <2>2, OrderForType, AllocFromInv DEF pmm_alloc_in_range
  <2>3. QED
    BY <2>1, <2>2
<1>4. ASSUME NEW c \in Client, NEW f \in 0 .. TotalPages, pmm_retain(c, f) \/ pmm_release(c, f)
      PROVE  IInv'
  BY <1>4, RetainInv, ReleaseInv
<1>5. ASSUME NEW r \in Ranges, pmm_reserve_range(r.start, r.size)
      PROVE  IInv'
  BY <1>5, ReserveInv
<1>6. CASE UNCHANGED vars
  BY <1>6, StutterInv DEF vars, IInv, TypeOK
<1>7. QED
  BY <1>1, <1>2, <1>3, <1>4, <1>5, <1>6 DEF Next

-----------------------------------------------------------------------------
(* The theorems                                                            *)

(* The invariant holds in every reachable state, for every geometry, every *)
(* memory map and every finite set of clients.                             *)
THEOREM Invariance == Spec => []IInv
  BY InitInv, NextInv, PTL DEF Spec

(* Every variable keeps its type.                                          *)
THEOREM TypeCorrect == Spec => []TypeOK
<1>1. IInv => TypeOK
  BY DEF IInv
<1>2. QED
  BY <1>1, Invariance, PTL

(* The free lists and the per-frame metadata never disagree, so the merge  *)
(* loop unlinks only nodes that are linked where it looks.                 *)
THEOREM ListsConsistent == Spec => []ListsMatchMetadata
<1>1. IInv => ListsMatchMetadata
  BY DEF IInv
<1>2. QED
  BY <1>1, Invariance, PTL

(* No page is ever in two lent blocks, or lent and free at once, and the   *)
(* reference count is the number of a block's clients.                     *)
THEOREM Exclusion == Spec => []LentBlocksAreExclusive
<1>1. IInv => LentBlocksAreExclusive
  BY DEF IInv
<1>2. QED
  BY <1>1, Invariance, PTL

(* Every managed page is free, lent or reserved, and only managed ones are.*)
THEOREM Conservation == Spec => []NoFrameLost
<1>1. IInv => NoFrameLost
  BY DEF IInv
<1>2. QED
  BY <1>1, Invariance, PTL

(* The free-memory counter is the number of free pages.                    *)
THEOREM CounterExact == Spec => []FreeMemoryExact
<1>1. IInv => FreeMemoryExact
  BY DEF IInv
<1>2. QED
  BY <1>1, Invariance, PTL

(* The lists, the metadata and their types, as TLC checks them together.   *)
THEOREM Metadata == Spec => []MetadataSound
<1>1. TypeOK /\ ListsMatchMetadata => MetadataSound
  BY DEF MetadataSound
<1>2. QED
  BY <1>1, TypeCorrect, ListsConsistent, PTL

(* No page is lost, and the counter counts the free ones.                  *)
THEOREM Frames == Spec => []FramesConserved
<1>1. NoFrameLost /\ FreeMemoryExact => FramesConserved
  BY DEF FramesConserved
<1>2. QED
  BY <1>1, Conservation, CounterExact, PTL

-----------------------------------------------------------------------------
(* The manager implements the frame ledger: seen through its free pages    *)
(* and its clients' blocks, each call grants, shares, drops or withdraws,  *)
(* or does nothing.                                                        *)

LedgerStep == Ledger!Next \/ UNCHANGED <<FreePages, holds>>

(* A call that returns an error changes nothing the ledger records.        *)
LEMMA FailKeepsLedger ==
  ASSUME NEW e, Fail(e)
  PROVE  LedgerStep
BY DEF Fail, LedgerStep, FreePages

(* A free block, split or whole, is granted.                               *)
LEMMA TakeGrants ==
  ASSUME IInv, NEW c \in Client, NEW o \in Order, NEW k \in Order, o <= k,
         NEW b \in free_blocks[k], TakeBlock(c, b, k, o)
  PROVE  LedgerStep
<1> DEFINE h == <<b, o>>
<1>0. TypeOK /\ ListsMatchMetadata /\ LentBlocksAreExclusive
  BY DEF IInv
<1>1. /\ b \in Page /\ b \in Nat /\ b % Span[k] = 0 /\ b \in Block(b, k)
      /\ Block(b, k) \subseteq FreePages
  BY <1>0, FreeBlockFacts
<1>2. b \in Block(b, o) /\ Block(b, o) \subseteq Block(b, k)
  <2>1. b % Span[o] = 0
    BY <1>1, AlignedDown
  <2>2. b \in Block(b, o)
    BY <1>1, SpanType DEF Block
  <2>3. QED
    BY <1>1, <2>1, <2>2, Nested
<1>3. h \in Page \X Order /\ h[1] = b /\ h[2] = o
  BY <1>1
<1>4. h \notin holds[c]
  <2>1. SUFFICES ASSUME h \in Held PROVE FALSE
    BY DEF Held
  <2>2. Block(b, o) \cap FreePages = {}
    BY <1>0, <1>3, <2>1 DEF LentBlocksAreExclusive
  <2>3. QED
    BY <1>1, <1>2, <2>2
<1>5. FreePages' = FreePages \ Block(b, o)
  <2>1. is_free' = [p \in Page |-> IF p \in Block(b, k) THEN p \in Block(b, k) \ Block(b, o) ELSE is_free[p]]
    BY DEF TakeBlock, Rest
  <2>2. QED
    BY <1>1, <1>2, <2>1 DEF FreePages
<1>6. holds' = [holds EXCEPT ![c] = @ \cup {h}]
  BY DEF TakeBlock
<1>7. h \in holds'[c] \ holds[c]
  BY <1>0, <1>4, <1>6 DEF TypeOK
<1>8. Ledger!Grant(c, h)
  BY <1>1, <1>2, <1>3, <1>5, <1>6 DEF Ledger!Grant, Ledger!Block, Block
<1>9. QED
  BY <1>7, <1>8 DEF LedgerStep, Ledger!Next

(* An allocation grants a block or fails.                                  *)
LEMMA AllocGrants ==
  ASSUME IInv, NEW c \in Client, NEW o \in Order, NEW allowed, AllocFrom(c, o, allowed)
  PROVE  LedgerStep
<1> DEFINE fitting == {k \in o .. TopOrder : free_blocks[k] \cap allowed # {}}
<1>1. CASE Fail("ENOMEM")
  BY <1>1, FailKeepsLedger
<1>2. CASE ~Fail("ENOMEM")
  <2>1. fitting # {} /\ \E b \in free_blocks[MinOf(fitting)] \cap allowed : TakeBlock(c, b, MinOf(fitting), o)
    BY <1>2 DEF AllocFrom
  <2>2. fitting \subseteq Order /\ fitting \subseteq Nat /\ \A k \in fitting : o <= k
    BY GeometryAssumption DEF Order, TopOrder
  <2>3. MinOf(fitting) \in fitting
    <3> HIDE DEF fitting
    <3> QED
      BY <2>1, <2>2, MinOfNat
  <2> HIDE DEF fitting
  <2>4. PICK b \in free_blocks[MinOf(fitting)] : TakeBlock(c, b, MinOf(fitting), o)
    BY <2>1
  <2>5. QED
    BY <2>2, <2>3, <2>4, TakeGrants
<1>3. QED
  BY <1>1, <1>2

(* retain adds a client to a lent block.                                   *)
LEMMA RetainShares ==
  ASSUME IInv, NEW c \in Client, NEW f \in 0 .. TotalPages, pmm_retain(c, f)
  PROVE  LedgerStep
<1>1. CASE Fail("EFAULT")
  BY <1>1, FailKeepsLedger
<1>2. CASE ~Fail("EFAULT")
  <2>1. PICK h \in Held \ holds[c] : holds' = [holds EXCEPT ![c] = @ \cup {h}]
    BY <1>2 DEF pmm_retain
  <2>2. FreePages' = FreePages
    BY <1>2 DEF pmm_retain, FreePages
  <2>3. h \in holds'[c] \ holds[c]
    BY <2>1 DEF IInv, TypeOK
  <2>4. Ledger!Share(c, h)
    BY <2>1, <2>2 DEF Ledger!Share, Ledger!Lent, Held
  <2>5. QED
    BY <2>3, <2>4 DEF LedgerStep, Ledger!Next
<1>3. QED
  BY <1>1, <1>2

(* The block that goes back with its last client is the one it was lent,   *)
(* whatever it merges with.                                                *)
LEMMA FreedPages ==
  ASSUME IInv, NEW h \in Held, ref_count[h[1]] = 1, pmm_free_page(order[h[1]], h[1])
  PROVE  FreePages' = FreePages \cup Block(h[1], h[2])
<1> DEFINE f == h[1]
           o == h[2]
           m == MergedOrder(f, o)
           merged == Block(Base(f, m), m)
<1>0. TypeOK /\ ListsMatchMetadata /\ LentBlocksAreExclusive
  BY DEF IInv
<1>1. f \in Page /\ o \in Order
  BY <1>0, HeldFacts
<1>2. order[f] = o /\ f % Span[o] = 0 /\ Block(f, o) \subseteq Page
  BY <1>0 DEF LentBlocksAreExclusive
<1>3. /\ \A k \in o .. (m - 1) : k \in Order /\ Buddy(Base(f, k), k) \in free_blocks[k]
      /\ Block(f, o) \subseteq merged
      /\ \A p \in merged :
           p \in Block(f, o) \/ \E k \in o .. (m - 1) : p \in Block(Buddy(Base(f, k), k), k)
  BY <1>0, <1>1, <1>2, MergeFacts
<1>4. is_free' = [p \in Page |-> p \in merged \/ is_free[p]]
  BY <1>2 DEF pmm_free_page
<1> HIDE DEF f, o, m
<1>5. merged \subseteq Block(f, o) \cup FreePages
  <2>1. ASSUME NEW k \in o .. (m - 1)
        PROVE  Block(Buddy(Base(f, k), k), k) \subseteq FreePages
    BY <1>0, <1>3, FreeBlockFacts
  <2>2. QED
    BY <1>3, <2>1
<1>6. FreePages' = FreePages \cup Block(f, o)
  BY <1>2, <1>3, <1>4, <1>5 DEF FreePages
<1>7. QED
  BY <1>6 DEF f, o

(* release drops a reference; the last one makes the block available.      *)
LEMMA ReleaseDrops ==
  ASSUME IInv, NEW c \in Client, NEW f \in 0 .. TotalPages, pmm_release(c, f)
  PROVE  LedgerStep
<1>1. CASE Fail("EFAULT")
  BY <1>1, FailKeepsLedger
<1>2. CASE ~Fail("EFAULT")
  <2>0. TypeOK /\ LentBlocksAreExclusive
    BY DEF IInv
  <2>1. PICK h \in holds[c] : h[1] = f /\ holds' = [holds EXCEPT ![c] = @ \ {h}]
    BY <1>2 DEF pmm_release
  <2> DEFINE S == {d \in Client : h \in holds[d]}
  <2>2. h \in Held /\ h \in holds[c] \ holds'[c]
    BY <2>0, <2>1 DEF Held, TypeOK
  <2>3. IsFiniteSet(S) /\ c \in S /\ ref_count[f] = Cardinality(S)
    BY <2>0, <2>1, <2>2, ClientAssumption, FS_Subset DEF LentBlocksAreExclusive
  <2>4. Cardinality(S) = 1 <=> S = {c}
    <3> HIDE DEF S
    <3>1. QED
      BY <2>3, FS_Singleton
  <2>5. CASE ref_count[f] = 1 /\ pmm_free_page(order[f], f)
    <3>1. FreePages' = FreePages \cup Block(h[1], h[2])
      BY <2>1, <2>2, <2>5, FreedPages
    <3>2. ~ \E d \in Client \ {c} : h \in holds[d]
      BY <2>3, <2>4, <2>5
    <3>3. Ledger!Drop(c, h)
      BY <2>1, <3>1, <3>2 DEF Ledger!Drop, Ledger!Block, Block
    <3>4. QED
      BY <2>2, <3>3 DEF LedgerStep, Ledger!Next
  <2>6. CASE ref_count[f] > 1 /\ UNCHANGED is_free
    <3>1. FreePages' = FreePages
      BY <2>6 DEF FreePages
    <3>2. \E d \in Client \ {c} : h \in holds[d]
      BY <2>3, <2>4, <2>6
    <3>3. Ledger!Drop(c, h)
      BY <2>1, <3>1, <3>2 DEF Ledger!Drop
    <3>4. QED
      BY <2>2, <3>3 DEF LedgerStep, Ledger!Next
  <2>7. QED
    BY <1>2, <2>5, <2>6 DEF pmm_release
<1>3. QED
  BY <1>1, <1>2

(* reserve_range only takes free pages away.                               *)
LEMMA ReserveWithdraws ==
  ASSUME NEW r \in Ranges, pmm_reserve_range(r.start, r.size)
  PROVE  LedgerStep
<1>1. CASE Fail("OK") \/ Fail("EINVAL")
  BY <1>1, FailKeepsLedger
<1>2. CASE ~(Fail("OK") \/ Fail("EINVAL"))
  <2>1. FreePages' \subseteq FreePages
    BY <1>2 DEF pmm_reserve_range, FreePages
  <2>2. holds' = holds
    BY <1>2 DEF pmm_reserve_range
  <2>3. QED
    BY <2>1, <2>2 DEF LedgerStep, Ledger!Next, Ledger!Withdraw
<1>3. QED
  BY <1>1, <1>2

LEMMA StepRefines == IInv /\ [Next]_vars => [Ledger!Next]_(Ledger!vars)
<1> SUFFICES ASSUME IInv, [Next]_vars PROVE LedgerStep
  BY DEF LedgerStep, Ledger!vars
<1>1. ASSUME NEW c \in Client, NEW o \in 0 .. MaxOrder, pmm_alloc_page(c, o)
      PROVE  LedgerStep
  BY <1>1, FailKeepsLedger, AllocGrants DEF pmm_alloc_page
<1>2. ASSUME NEW c \in Client, NEW count \in Counts, NEW a \in Alignments, pmm_alloc_aligned(c, count, a)
      PROVE  LedgerStep
  BY <1>2, FailKeepsLedger, OrderForType, AllocGrants DEF pmm_alloc_aligned
<1>3. ASSUME NEW c \in Client, NEW count \in Counts, NEW max \in Limits, pmm_alloc_in_range(c, count, max)
      PROVE  LedgerStep
  BY <1>3, FailKeepsLedger, OrderForType, AllocGrants DEF pmm_alloc_in_range
<1>4. ASSUME NEW c \in Client, NEW f \in 0 .. TotalPages, pmm_retain(c, f) \/ pmm_release(c, f)
      PROVE  LedgerStep
  BY <1>4, RetainShares, ReleaseDrops
<1>5. ASSUME NEW r \in Ranges, pmm_reserve_range(r.start, r.size)
      PROVE  LedgerStep
  BY <1>5, ReserveWithdraws
<1>6. CASE UNCHANGED vars
  BY <1>6 DEF vars, LedgerStep, FreePages
<1>7. QED
  BY <1>1, <1>2, <1>3, <1>4, <1>5, <1>6 DEF Next

LEMMA InitRefines == Init => Ledger!Init
BY DEF Init, Ledger!Init, FreePages

-----------------------------------------------------------------------------
(* Every behaviour of the manager is one of the ledger: no call grants a   *)
(* page that is in use, gives back another block than the one it was lent, *)
(* or touches a block of another client.                                   *)
THEOREM Refinement == Spec => ImplementsLedger
<1>1. Spec => Ledger!Spec
  BY InitRefines, StepRefines, Invariance, PTL DEF Spec, Ledger!Spec
<1>2. QED
  BY <1>1 DEF ImplementsLedger
-----------------------------------------------------------------------------
(* Free memory stays merged: no two halves of a block are ever free beside *)
(* each other as blocks of their own.  So when everything has come back the*)
(* lists are those of the start, and an allocation fails only when no run  *)
(* of free pages would do.                                                 *)

(* Two free blocks of one order are not the halves of a block of the next. *)
Coalesced ==
  \A o \in Order : o + 1 \in Order =>
    \A b, d \in free_blocks[o] : Base(b, o + 1) = Base(d, o + 1) => b = d

-----------------------------------------------------------------------------
(* Blocks                                                                  *)

(* The other half of a block is its buddy.                                 *)
LEMMA Sibling ==
  ASSUME NEW o \in Order, o + 1 \in Order,
         NEW b \in Nat, b % Span[o] = 0, NEW d \in Nat, d % Span[o] = 0,
         Base(b, o + 1) = Base(d, o + 1), b # d
  PROVE  d = Buddy(b, o)
<1>0. Base(d, o + 1) \in Nat /\ d \in Block(Base(d, o + 1), o + 1)
  BY BaseFacts
<1>1. d \in Block(Base(b, o + 1), o + 1) /\ d \in Block(d, o)
  <2>1. d \in Block(Base(b, o + 1), o + 1)
    BY <1>0
  <2>2. d \in Block(d, o)
    BY SpanType DEF Block
  <2>3. QED
    BY <2>1, <2>2
<1>2. /\ Buddy(b, o) \in Nat /\ Buddy(b, o) % Span[o] = 0
      /\ d \in Block(b, o) \/ d \in Block(Buddy(b, o), o)
  BY <1>1, BuddyPair
<1>3. CASE d \in Block(b, o)
  <2>1. Base(d, o) = b /\ Base(d, o) = d
    BY <1>1, <1>3, BaseUnique
  <2>2. QED
    BY <2>1
<1>4. CASE d \in Block(Buddy(b, o), o)
  BY <1>1, <1>2, <1>4, BaseUnique
<1>5. QED
  BY <1>2, <1>3, <1>4

(* Managed pages in a row lie in one region: two regions do not touch.     *)
LEMMA OneRegionOnly ==
  ASSUME NEW a \in Nat, NEW o \in Order, Block(a, o) \subseteq Managed,
         NEW i \in FreeRegions, NEW p \in Block(a, o), p \in Usable(i)
  PROVE  Block(a, o) \subseteq Usable(i)
<1>1. Span[o] \in Nat \ {0}
  BY SpanType
<1>2. \A j \in FreeRegions :
        /\ MemoryMap[j].start \in Nat /\ RegionEnd(j) \in Nat
        /\ \A q \in Usable(j) : q \in Int /\ MemoryMap[j].start <= q /\ q < RegionEnd(j)
  BY MapAssumption DEF Usable, FreeRegions, RegionEnd
<1>3. ASSUME NEW q \in Block(a, o), q \notin Usable(i)
      PROVE  FALSE
  <2>1. q \in Int /\ p \in Int /\ a <= q /\ q < a + Span[o] /\ a <= p /\ p < a + Span[o]
    BY <1>1 DEF Block
  <2>2. PICK j \in FreeRegions : q \in Usable(j)
    BY <1>3 DEF Managed
  <2>3. i # j
    BY <1>3, <2>2
  <2>4. CASE RegionEnd(i) < MemoryMap[j].start
    <3> DEFINE e == RegionEnd(i)
    <3>1. e \in Int /\ p < e /\ e < q
      BY <1>2, <2>2, <2>4
    <3>2. e \in Block(a, o)
      BY <1>1, <2>1, <3>1 DEF Block
    <3>3. PICK k \in FreeRegions : e \in Usable(k)
      BY <3>2 DEF Managed
    <3>4. k # i /\ MemoryMap[k].start <= e /\ e < RegionEnd(k)
      BY <1>2, <3>3
    <3>5. RegionEnd(k) < MemoryMap[i].start
      <4>1. ~(RegionEnd(i) < MemoryMap[k].start)
        BY <1>2, <3>4
      <4>2. QED
        BY <3>4, <4>1, ApartAssumption
    <3>6. QED
      BY <1>2, <3>1, <3>4, <3>5
  <2>5. CASE RegionEnd(j) < MemoryMap[i].start
    <3> DEFINE e == RegionEnd(j)
    <3>1. e \in Int /\ q < e /\ e < p
      BY <1>2, <2>2, <2>5
    <3>2. e \in Block(a, o)
      BY <1>1, <2>1, <3>1 DEF Block
    <3>3. PICK k \in FreeRegions : e \in Usable(k)
      BY <3>2 DEF Managed
    <3>4. k # j /\ MemoryMap[k].start <= e /\ e < RegionEnd(k)
      BY <1>2, <3>3
    <3>5. RegionEnd(k) < MemoryMap[j].start
      <4>1. ~(RegionEnd(j) < MemoryMap[k].start)
        BY <1>2, <3>4
      <4>2. QED
        BY <3>4, <4>1, ApartAssumption
    <3>6. QED
      BY <1>2, <2>2, <3>1, <3>4, <3>5
  <2>6. QED
    BY <2>3, <2>4, <2>5, ApartAssumption
<1>4. QED
  BY <1>3

(* An aligned block of managed pages around a page is no larger than what  *)
(* was carved there.                                                       *)
LEMMA CarvedIsLargest ==
  ASSUME NEW p \in Managed, NEW o \in Order, Block(Base(p, o), o) \subseteq Managed
  PROVE  o <= CarvedOrder(p)
<1>1. PICK i \in FreeRegions : p \in Usable(i)
  BY DEF Managed
<1>2. p \in Nat
  BY <1>1, CarvedFacts
<1>3. Base(p, o) \in Nat /\ p \in Block(Base(p, o), o)
  BY <1>2, BaseFacts
<1>4. Block(Base(p, o), o) \subseteq Usable(i)
  BY <1>1, <1>3, OneRegionOnly
<1>5. QED
  BY <1>1, <1>4, CarvedFacts

-----------------------------------------------------------------------------
(* Free blocks stay merged                                                 *)

LEMMA InitCoalesced == Init => Coalesced
<1> SUFFICES ASSUME Init, NEW o \in Order, o + 1 \in Order,
                    NEW b \in CarvedBlocks(o), NEW d \in CarvedBlocks(o),
                    Base(b, o + 1) = Base(d, o + 1), b # d
             PROVE  FALSE
  BY DEF Init, Coalesced
<1>1. b \in Managed /\ b \in Nat /\ b % Span[o] = 0 /\ d \in Managed /\ d \in Nat /\ d % Span[o] = 0
  BY CarvedFacts DEF CarvedBlocks, Managed
<1>2. d = Buddy(b, o)
  BY <1>1, Sibling
<1>3. Block(b, o) \subseteq Managed /\ Block(d, o) \subseteq Managed
  BY CarvedBlockFacts
<1>4. Block(Base(b, o + 1), o + 1) \subseteq Managed
  BY <1>1, <1>2, <1>3, BuddyPair
<1>5. o + 1 <= CarvedOrder(b)
  BY <1>1, <1>4, CarvedIsLargest
<1>6. QED
  BY <1>5, SpanType DEF CarvedBlocks

(* Blocks that leave the lists leave no pair behind.                       *)
LEMMA ShrinkKeeps ==
  ASSUME Coalesced, \A o \in Order : free_blocks'[o] \subseteq free_blocks[o]
  PROVE  Coalesced'
BY DEF Coalesced

(* What a split leaves over: the other half of each part was split further.*)
LEMMA TakeKeeps ==
  ASSUME IInv, Coalesced, NEW c \in Client, NEW o \in Order, NEW k \in Order, o <= k,
         NEW b \in free_blocks[k], TakeBlock(c, b, k, o)
  PROVE  Coalesced'
<1>0. TypeOK /\ ListsMatchMetadata
  BY DEF IInv
<1>1. b \in Nat /\ b % Span[k] = 0 /\ b \in Block(b, k)
  BY <1>0, FreeBlockFacts
<1>2. free_blocks' = [j \in Order |-> IF j = k THEN free_blocks[k] \ {b}
                                      ELSE IF j \in o .. (k - 1) THEN free_blocks[j] \cup {b + Span[j]}
                                      ELSE free_blocks[j]]
  BY DEF TakeBlock
<1>3. ASSUME NEW j \in o .. (k - 1), NEW d \in free_blocks[j]
      PROVE  Base(b + Span[j], j + 1) # Base(d, j + 1)
  <2>1. j \in Order /\ o <= j /\ j < k /\ j + 1 \in Order /\ j + 1 <= k
    BY OrderBetween, GeometryAssumption DEF Order
  <2>2. Span[j + 1] = 2 * Span[j] /\ Span[j] \in Nat \ {0}
    BY <2>1, GeometryAssumption
  <2>3. b % Span[j + 1] = 0 /\ b + Span[j] \in Block(b, j + 1)
    BY <1>1, <2>1, <2>2, AlignedDown DEF Block
  <2>4. Base(b + Span[j], j + 1) = b
    BY <1>1, <2>1, <2>3, BaseUnique
  <2>5. d \in Nat /\ d \in Block(d, j)
    BY <1>0, <2>1, FreeBlockFacts
  <2>6. SUFFICES ASSUME Base(d, j + 1) = b PROVE FALSE
    BY <2>4
  <2>7. d \in Block(b, j + 1)
    BY <2>1, <2>5, <2>6, BaseFacts
  <2>8. d \in Block(b, k)
    <3>1. Span[j + 1] <= Span[k]
      BY <2>1, SpanMultiple
    <3>2. QED
      BY <1>1, <2>1, <2>2, <2>7, <3>1, SpanType DEF Block
  <2>9. j = k
    BY <1>0, <2>1, <2>5, <2>8, FreeBlocksDisjoint
  <2>10. QED
    BY <2>1, <2>9
<1>4. SUFFICES ASSUME NEW j \in Order, j + 1 \in Order,
                      NEW u \in free_blocks'[j], NEW d \in free_blocks'[j],
                      Base(u, j + 1) = Base(d, j + 1)
               PROVE  u = d
  BY DEF Coalesced
<1>5. CASE j \in o .. (k - 1)
  <2>1. j # k
    BY <1>5, SpanType
  <2>2. u \in free_blocks[j] \cup {b + Span[j]} /\ d \in free_blocks[j] \cup {b + Span[j]}
    BY <1>2, <1>4, <1>5, <2>1
  <2>3. QED
    BY <1>3, <1>4, <1>5, <2>2 DEF Coalesced
<1>6. CASE j \notin o .. (k - 1)
  <2>1. u \in free_blocks[j] /\ d \in free_blocks[j]
    BY <1>2, <1>4, <1>6
  <2>2. QED
    BY <1>4, <2>1 DEF Coalesced
<1>7. QED
  BY <1>5, <1>6

(* Merging stops only where the buddy is not a free block of that order.   *)
LEMMA FreeKeeps ==
  ASSUME IInv, Coalesced, NEW h \in Held, pmm_free_page(order[h[1]], h[1])
  PROVE  Coalesced'
<1> DEFINE f == h[1]
           o == h[2]
           m == MergedOrder(f, o)
<1>0. TypeOK /\ ListsMatchMetadata /\ LentBlocksAreExclusive
  BY DEF IInv
<1>1. f \in Page /\ f \in Nat /\ o \in Order
  BY <1>0, HeldFacts
<1>2. order[f] = o /\ f % Span[o] = 0
  BY <1>0 DEF LentBlocksAreExclusive
<1>3. m \in Order /\ Base(f, m) \in Nat /\ Base(f, m) % Span[m] = 0
  BY <1>0, <1>1, <1>2, MergeFacts
<1>4. ~Mergeable(f, m)
  <2> DEFINE S == {k \in o .. TopOrder : ~Mergeable(f, k)}
  <2>1. S \in SUBSET Nat /\ TopOrder \in S
    BY <1>1, GeometryAssumption DEF Order, TopOrder, Mergeable
  <2>2. MinOf(S) \in S
    <3> HIDE DEF S
    <3> QED
      BY <2>1, MinOfNat
  <2>3. QED
    BY <2>2 DEF MergedOrder
<1>5. ASSUME m + 1 \in Order
      PROVE  Buddy(Base(f, m), m) \notin free_blocks[m]
  <2> DEFINE e == Buddy(Base(f, m), m)
  <2>1. SUFFICES ASSUME e \in free_blocks[m] PROVE FALSE
    OBVIOUS
  <2>2. e \in Page /\ e \in Block(e, m)
    BY <1>0, <1>3, <2>1, FreeBlockFacts
  <2>3. is_free[e] /\ order[e] = m
    BY <1>0, <1>3, <2>1, <2>2 DEF ListsMatchMetadata
  <2>4. m < TopOrder /\ e < TotalPages
    BY <1>3, <1>5, <2>2, MapAssumption, GeometryAssumption DEF Order, TopOrder, Page
  <2>5. QED
    BY <1>4, <2>3, <2>4 DEF Mergeable
<1>6. free_blocks' =
        [k \in Order |-> IF k = m THEN free_blocks[m] \cup {Base(f, m)}
                         ELSE IF k \in o .. (m - 1) THEN free_blocks[k] \ {Buddy(Base(f, k), k)}
                         ELSE free_blocks[k]]
  BY <1>2 DEF pmm_free_page
<1> HIDE DEF f, o, m
<1>7. ASSUME m + 1 \in Order, NEW d \in free_blocks[m], Base(d, m + 1) = Base(Base(f, m), m + 1)
      PROVE  d = Base(f, m)
  <2>1. d \in Nat /\ d % Span[m] = 0
    BY <1>0, <1>3, FreeBlockFacts
  <2>2. QED
    BY <1>3, <1>5, <1>7, <2>1, Sibling
<1>8. QED
  BY <1>6, <1>7 DEF Coalesced

LEMMA AllocKeeps ==
  ASSUME IInv, Coalesced, NEW c \in Client, NEW o \in Order, NEW allowed, AllocFrom(c, o, allowed)
  PROVE  Coalesced'
<1> DEFINE fitting == {k \in o .. TopOrder : free_blocks[k] \cap allowed # {}}
<1>1. CASE Fail("ENOMEM")
  BY <1>1, ShrinkKeeps DEF Fail
<1>2. CASE ~Fail("ENOMEM")
  <2>1. fitting # {} /\ \E b \in free_blocks[MinOf(fitting)] \cap allowed : TakeBlock(c, b, MinOf(fitting), o)
    BY <1>2 DEF AllocFrom
  <2>2. fitting \subseteq Order /\ fitting \subseteq Nat /\ \A k \in fitting : o <= k
    BY GeometryAssumption DEF Order, TopOrder
  <2>3. MinOf(fitting) \in fitting
    <3> HIDE DEF fitting
    <3> QED
      BY <2>1, <2>2, MinOfNat
  <2> HIDE DEF fitting
  <2>4. PICK b \in free_blocks[MinOf(fitting)] : TakeBlock(c, b, MinOf(fitting), o)
    BY <2>1
  <2>5. QED
    BY <2>2, <2>3, <2>4, TakeKeeps
<1>3. QED
  BY <1>1, <1>2

LEMMA ReleaseKeeps ==
  ASSUME IInv, Coalesced, NEW c \in Client, NEW f \in 0 .. TotalPages, pmm_release(c, f)
  PROVE  Coalesced'
<1>1. CASE UNCHANGED free_blocks
  BY <1>1, ShrinkKeeps
<1>2. CASE ~UNCHANGED free_blocks
  <2>1. PICK h \in holds[c] : h[1] = f
    BY <1>2 DEF pmm_release, Fail
  <2>2. h \in Held /\ pmm_free_page(order[f], f)
    BY <1>2, <2>1 DEF pmm_release, Fail, Held
  <2>3. QED
    BY <2>1, <2>2, FreeKeeps
<1>3. QED
  BY <1>1, <1>2

LEMMA NextCoalesced == IInv /\ Coalesced /\ [Next]_vars => Coalesced'
<1> SUFFICES ASSUME IInv, Coalesced, [Next]_vars PROVE Coalesced'
  OBVIOUS
<1>0. ASSUME NEW e, Fail(e)
      PROVE  Coalesced'
  BY <1>0, ShrinkKeeps DEF Fail
<1>1. ASSUME NEW c \in Client, NEW o \in 0 .. MaxOrder, pmm_alloc_page(c, o)
      PROVE  Coalesced'
  BY <1>0, <1>1, AllocKeeps DEF pmm_alloc_page
<1>2. ASSUME NEW c \in Client, NEW count \in Counts, NEW a \in Alignments, pmm_alloc_aligned(c, count, a)
      PROVE  Coalesced'
  BY <1>0, <1>2, OrderForType, AllocKeeps DEF pmm_alloc_aligned
<1>3. ASSUME NEW c \in Client, NEW count \in Counts, NEW max \in Limits, pmm_alloc_in_range(c, count, max)
      PROVE  Coalesced'
  BY <1>0, <1>3, OrderForType, AllocKeeps DEF pmm_alloc_in_range
<1>4. ASSUME NEW c \in Client, NEW f \in 0 .. TotalPages, pmm_retain(c, f)
      PROVE  Coalesced'
  BY <1>0, <1>4, ShrinkKeeps DEF pmm_retain
<1>5. ASSUME NEW r \in Ranges, pmm_reserve_range(r.start, r.size)
      PROVE  Coalesced'
  <2>1. CASE Fail("OK") \/ Fail("EINVAL")
    BY <1>0, <2>1
  <2>2. CASE ~(Fail("OK") \/ Fail("EINVAL"))
    <3>1. \A o \in Order : free_blocks'[o] \subseteq free_blocks[o]
      BY <1>5, <2>2 DEF pmm_reserve_range
    <3>2. QED
      BY <3>1, ShrinkKeeps
  <2>3. QED
    BY <2>1, <2>2
<1>6. CASE UNCHANGED vars
  BY <1>6, ShrinkKeeps DEF vars
<1>7. QED
  BY <1>1, <1>2, <1>3, <1>4, <1>5, <1>6, ReleaseKeeps DEF Next

(* Free blocks are merged in every reachable state.                        *)
THEOREM StaysMerged == Spec => []Coalesced
BY InitCoalesced, NextCoalesced, Invariance, PTL DEF Spec

-----------------------------------------------------------------------------
(* What merging buys                                                       *)

(* An aligned run of free pages lies in one free block at least as large.  *)
LEMMA RunInOneBlock ==
  ASSUME IInv, Coalesced, NEW q \in Order, NEW r \in Nat, r % Span[q] = 0,
         Block(r, q) \subseteq FreePages
  PROVE  \E k \in Order : q <= k /\ Base(r, k) \in free_blocks[k]
<1>0. TypeOK /\ ListsMatchMetadata
  BY DEF IInv
<1>1. \A p \in Block(r, q) : p \in FreePages /\ p \in Nat /\ order[p] \in Order /\ Base(p, q) = r
  BY <1>0, FreePageFacts, BaseUnique
<1>2. ASSUME NEW p \in Block(r, q), q <= order[p]
      PROVE  Base(r, order[p]) \in free_blocks[order[p]]
  <2>1. Base(r, order[p]) = Base(p, order[p])
    BY <1>1, <1>2, BaseOfBase
  <2>2. QED
    BY <1>0, <1>1, <2>1, FreePageFacts
<1>3. ASSUME \A p \in Block(r, q) : ~(q <= order[p])
      PROVE  FALSE
  <2> DEFINE S == {order[p] : p \in Block(r, q)}
  <2>1. S \in SUBSET Nat /\ S # {}
    <3>1. r \in Block(r, q)
      BY SpanType DEF Block
    <3>2. QED
      BY <1>1, <3>1, SpanType
  <2>2. MinOf(S) \in S /\ \A y \in S : MinOf(S) <= y
    <3> HIDE DEF S
    <3> QED
      BY <2>1, MinOfNat
  <2>3. PICK p \in Block(r, q) : \A x \in Block(r, q) : order[p] <= order[x]
    BY <2>2
  <2> DEFINE m == order[p]
             d == Base(p, m)
             e == Buddy(d, m)
             whole == Block(Base(d, m + 1), m + 1)
  <2>4. m \in Order /\ m + 1 \in Order /\ m <= m + 1 /\ m + 1 <= q
    BY <1>1, <1>3, GeometryAssumption DEF Order
  <2>5. d \in free_blocks[m] /\ d \in Nat /\ d % Span[m] = 0 /\ d \in Block(d, m)
    BY <1>0, <1>1, <2>4, FreePageFacts, FreeBlockFacts
  <2>6. Base(d, m + 1) = Base(p, m + 1)
    BY <1>1, <2>4, BaseOfBase
  <2>7. whole \subseteq Block(r, q)
    BY <1>1, <2>4, <2>6, BaseOfBase
  <2>8. /\ e \in Nat /\ e % Span[m] = 0
        /\ whole = Block(d, m) \cup Block(e, m)
        /\ Block(d, m) \cap Block(e, m) = {}
    BY <2>4, <2>5, BuddyPair
  <2>9. e \in Block(e, m) /\ e \in whole /\ d \in whole /\ e # d
    <3>1. e \in Block(e, m)
      BY <2>4, <2>8, SpanType DEF Block
    <3>2. QED
      BY <2>5, <2>8, <3>1
  <2>10. Base(d, m + 1) \in Nat /\ Base(d, m + 1) % Span[m + 1] = 0
    BY <2>4, <2>5, BaseFacts
  <2>11. Base(e, m + 1) = Base(d, m + 1)
    BY <2>4, <2>9, <2>10, BaseUnique
  <2> DEFINE k == order[e]
  <2>12. e \in Block(r, q) /\ e \in FreePages /\ k \in Order /\ m <= k
    BY <1>1, <2>3, <2>7, <2>9
  <2>13. Base(e, k) \in free_blocks[k]
    BY <1>0, <2>12, FreePageFacts
  <2>14. CASE k = m
    <3>1. Base(e, m) = e
      BY <2>4, <2>8, <2>9, BaseUnique
    <3>2. e \in free_blocks[m]
      BY <2>13, <2>14, <3>1
    <3>3. QED
      BY <2>4, <2>5, <2>9, <2>11, <3>2 DEF Coalesced
  <2>15. CASE k # m
    <3>1. m + 1 <= k
      BY <2>4, <2>12, <2>15, SpanType
    <3>2. d \in Block(Base(e, k), k)
      <4>1. Block(Base(e, m + 1), m + 1) \subseteq Block(Base(e, k), k)
        BY <2>4, <2>8, <2>12, <3>1, BaseOfBase
      <4>2. QED
        BY <2>9, <2>11, <4>1
    <3>3. m = k
      BY <1>0, <2>4, <2>5, <2>12, <2>13, <3>2, FreeBlocksDisjoint
    <3>4. QED
      BY <2>15, <3>3
  <2>16. QED
    BY <2>14, <2>15
<1>4. QED
  BY <1>1, <1>2, <1>3

(* When nothing is lent or reserved the free lists are those pmm_init      *)
(* built: merging undoes every split.                                      *)
THEOREM Restoration == Spec => []ReleaseRestoresInit
<1>1. IInv /\ Coalesced => ReleaseRestoresInit
  <2> SUFFICES ASSUME IInv, Coalesced, Held = {}, reserved = {}, NEW o \in Order
               PROVE  free_blocks[o] = CarvedBlocks(o)
    BY DEF ReleaseRestoresInit
  <2>0. TypeOK /\ ListsMatchMetadata
    BY DEF IInv
  <2>1. FreePages = Managed
    BY DEF IInv, NoFrameLost, HeldPages
  <2>2. ASSUME NEW b \in free_blocks[o]
        PROVE  b \in CarvedBlocks(o)
    <3> DEFINE q == CarvedOrder(b)
    <3>1. /\ b \in Nat /\ b % Span[o] = 0 /\ b \in Block(b, o) /\ Base(b, o) = b
          /\ Block(b, o) \subseteq Managed
      BY <2>0, <2>1, FreeBlockFacts
    <3>2. PICK i \in FreeRegions : b \in Usable(i)
      BY <3>1 DEF Managed
    <3>3. q \in Order /\ Block(Base(b, q), q) \subseteq FreePages
      BY <2>1, <3>2, CarvedFacts DEF Managed
    <3>4. o <= q
      BY <3>1, CarvedIsLargest
    <3>5. Base(b, q) \in Nat /\ Base(b, q) % Span[q] = 0
      BY <3>1, <3>3, BaseFacts
    <3>6. PICK k \in Order : q <= k /\ Base(Base(b, q), k) \in free_blocks[k]
      BY <3>3, <3>5, RunInOneBlock
    <3>7. Base(b, k) \in free_blocks[k] /\ b \in Block(Base(b, k), k)
      BY <3>1, <3>3, <3>6, BaseOfBase, BaseFacts
    <3>8. o = k
      BY <2>0, <2>2, <3>1, <3>7, FreeBlocksDisjoint
    <3>9. q = o
      BY <3>3, <3>4, <3>6, <3>8, SpanType
    <3>10. QED
      BY <3>1, <3>9 DEF CarvedBlocks
  <2>3. ASSUME NEW b \in CarvedBlocks(o)
        PROVE  b \in free_blocks[o]
    <3>1. b \in Managed /\ CarvedOrder(b) = o /\ b % Span[o] = 0
      BY DEF CarvedBlocks
    <3>2. b \in Nat /\ b \in Block(b, o)
      BY <3>1, CarvedFacts, SpanType DEF Managed, Block
    <3>3. Block(b, o) \subseteq FreePages
      BY <2>1, <2>3, CarvedBlockFacts
    <3>4. PICK k \in Order : o <= k /\ Base(b, k) \in free_blocks[k]
      BY <3>1, <3>2, <3>3, RunInOneBlock
    <3>5. Block(Base(b, k), k) \subseteq Managed
      BY <2>0, <2>1, <3>4, FreeBlockFacts
    <3>6. k <= o
      BY <3>1, <3>5, CarvedIsLargest
    <3>7. k = o /\ Base(b, o) = b
      BY <3>1, <3>2, <3>4, <3>6, SpanType, BaseUnique
    <3>8. QED
      BY <3>4, <3>7
  <2>4. QED
    BY <2>2, <2>3
<1>2. QED
  BY <1>1, StaysMerged, Invariance, PTL

(* A search that fails has met no block above an aligned free run.         *)
LEMMA RefusedMeansNone ==
  ASSUME IInv, Coalesced, NEW c \in Client, NEW o \in Order, NEW allowed,
         AllocFrom(c, o, allowed), ret' = "ENOMEM", NEW b \in FreeRuns(o)
  PROVE  \E k \in Order : o <= k /\ Base(b, k) \in free_blocks[k] \ allowed
<1>1. \A k \in o .. TopOrder : free_blocks[k] \cap allowed = {}
  BY DEF AllocFrom, TakeBlock
<1>2. b \in Nat /\ b % Span[o] = 0 /\ Block(b, o) \subseteq FreePages
  BY PageType DEF FreeRuns
<1>3. PICK k \in Order : o <= k /\ Base(b, k) \in free_blocks[k]
  BY <1>2, RunInOneBlock
<1>4. k \in o .. TopOrder
  BY <1>3, GeometryAssumption DEF Order, TopOrder
<1>5. QED
  BY <1>1, <1>3, <1>4

(* ENOMEM is never a false alarm: no naturally aligned run of free pages   *)
(* of the rounded-up size meets the caller's constraint.                   *)
THEOREM NoFalseAlarm == Spec => NoFalseOutOfMemory
<1>1. ASSUME IInv, Coalesced, ret' = "ENOMEM", NEW c \in Client,
             NEW o \in Order, pmm_alloc_page(c, o)
      PROVE  FreeRuns(o) = {}
  <2>1. SUFFICES ASSUME NEW b \in FreeRuns(o) PROVE FALSE
    OBVIOUS
  <2>2. AllocFrom(c, o, Page)
    BY <1>1 DEF pmm_alloc_page
  <2>3. PICK k \in Order : Base(b, k) \in free_blocks[k] \ Page
    BY <1>1, <2>2, RefusedMeansNone
  <2>4. QED
    BY <1>1, <2>3 DEF IInv, TypeOK
<1>2. ASSUME IInv, Coalesced, ret' = "ENOMEM", NEW c \in Client,
             NEW count \in Counts, ~BadCount(count),
             NEW a \in PowersOfTwo, pmm_alloc_aligned(c, count, a),
             NEW b \in FreeRuns(OrderFor(count))
      PROVE  b % a # 0
  <2> DEFINE o == OrderFor(count)
  <2>1. SUFFICES ASSUME b % a = 0 PROVE FALSE
    OBVIOUS
  <2>2. AllocFrom(c, o, {p \in Page : p % a = 0})
    BY <1>2 DEF pmm_alloc_aligned, Fail
  <2>3. o \in Order
    BY <1>2, OrderForType
  <2>4. PICK k \in Order : Base(b, k) \in free_blocks[k] \ {p \in Page : p % a = 0}
    <3>1. b \in FreeRuns(o)
      BY <1>2
    <3> HIDE DEF o
    <3>2. QED
      BY <1>2, <2>2, <2>3, <3>1, RefusedMeansNone
  <2>5. PICK j \in Order : a = Span[j]
    BY DEF PowersOfTwo
  <2>6. b \in Nat
    BY PageType DEF FreeRuns
  <2>7. Base(b, k) % a = 0
    <3>1. CASE j <= k
      BY <2>5, <2>6, <3>1, BaseFacts, AlignedDown
    <3>2. CASE k <= j
      <4>1. b % Span[k] = 0 /\ b \in Block(b, k)
        BY <2>1, <2>5, <2>6, <3>2, AlignedDown, SpanType DEF Block
      <4>2. QED
        BY <2>1, <2>6, <4>1, BaseUnique
    <3>3. QED
      BY <3>1, <3>2, SpanType
  <2>8. QED
    BY <1>2, <2>4, <2>7 DEF IInv, TypeOK
<1>3. ASSUME IInv, Coalesced, ret' = "ENOMEM", NEW c \in Client,
             NEW count \in Counts, ~BadCount(count),
             NEW max \in Limits, pmm_alloc_in_range(c, count, max),
             NEW b \in FreeRuns(OrderFor(count))
      PROVE  b + Span[OrderFor(count)] > max
  <2> DEFINE o == OrderFor(count)
  <2>1. AllocFrom(c, o, {p \in Page : p + Span[o] <= max})
    BY <1>3 DEF pmm_alloc_in_range, Fail
  <2>2. o \in Order
    BY <1>3, OrderForType
  <2>3. PICK k \in Order : Base(b, k) \in free_blocks[k] \ {p \in Page : p + Span[o] <= max}
    <3>1. b \in FreeRuns(o)
      BY <1>3
    <3> HIDE DEF o
    <3>2. QED
      BY <1>3, <2>1, <2>2, <3>1, RefusedMeansNone
  <2>4. b \in Nat /\ max \in Nat /\ Span[o] \in Nat
    BY <2>2, PageType, CallAssumption, SpanType DEF FreeRuns
  <2>5. Base(b, k) \in Nat /\ b \in Block(Base(b, k), k)
    BY <2>4, BaseFacts
  <2>6. Base(b, k) <= b
    BY <2>4, <2>5, SpanType DEF Block
  <2>7. Base(b, k) + Span[o] > max
    BY <1>3, <2>3, <2>4, <2>5 DEF IInv, TypeOK
  <2>8. QED
    BY <2>4, <2>5, <2>6, <2>7
<1> DEFINE Honest ==
      ret' = "ENOMEM" => \A c \in Client :
        /\ \A o \in Order : pmm_alloc_page(c, o) => FreeRuns(o) = {}
        /\ \A count \in {n \in Counts : ~BadCount(n)} :
             LET runs == FreeRuns(OrderFor(count)) IN
             runs # {} =>
               /\ \A a \in PowersOfTwo \cap Alignments :
                    pmm_alloc_aligned(c, count, a) => \A b \in runs : b % a # 0
               /\ \A max \in Limits :
                    pmm_alloc_in_range(c, count, max) => \A b \in runs : b + Span[OrderFor(count)] > max
<1>4. IInv /\ Coalesced => [Honest]_vars
  BY <1>1, <1>2, <1>3
<1>5. QED
  BY <1>4, StaysMerged, Invariance, PTL DEF NoFalseOutOfMemory
=============================================================================
