--------------------------- MODULE FramingStream ----------------------------
(***************************************************************************)
(* What the operators of Framing compute, for every base, length of the    *)
(* prefix and sequence of bytes: the prefix is read back as it was written *)
(* and cutting and joining bytes loses none.                               *)
(*                                                                         *)
(* Then the bytes of a stream as the frames of what is still to be         *)
(* received: how writing, tearing, and taking a frame off the front change *)
(* them.                                                                   *)
(***************************************************************************)
EXTENDS Framing, SequenceTheorems, WellFoundedInduction, TLAPS

\* The order of the naturals as a set of pairs, for the theorem on well-founded relations.
Less == {ss \in Nat \X Nat : ss[1] < ss[2]}

LEMMA LessIsWellFounded == IsWellFoundedOn(Less, Nat)
BY NatLessThanWellFounded, Zenon DEF OpToRel, Less

\* A set of naturals that is not empty has a least element.
LEMMA LeastElement ==
  ASSUME NEW T \in SUBSET Nat, T # {}
  PROVE  \E x \in T : \A y \in T : x <= y
<1>1. \E x \in T : \A y \in T : <<y, x>> \notin Less
  BY LessIsWellFounded, WFMin
<1>2. ASSUME NEW x \in T, NEW y \in T, <<y, x>> \notin Less
      PROVE  x <= y
  BY <1>2 DEF Less
<1> QED BY <1>1, <1>2

\* Induction over a set: the library's schema takes a predicate, which the provers cannot
\* instantiate; for a set it needs the least natural outside it only.
LEMMA Induction ==
  ASSUME NEW S, 0 \in S, \A n \in Nat : n \in S => n + 1 \in S
  PROVE  Nat \subseteq S
<1>1. SUFFICES ASSUME Nat \ S # {} PROVE FALSE
  OBVIOUS
<1>2. PICK x \in Nat \ S : \A y \in Nat \ S : x <= y
  BY <1>1, LeastElement
<1>3. x # 0 /\ x - 1 \in Nat
  OBVIOUS
<1>4. x - 1 \in S
  BY <1>2, <1>3
<1> QED BY <1>3, <1>4

\* f runs along 0..H from z, each value a times the one before it plus d.
Sums(f, H, z, a, d) ==
  /\ f \in [0..H -> Int]
  /\ \A i \in 0..H : f[i] = IF i = 0 THEN z ELSE a * f[i - 1] + d[i]

\* Such a function exists, whatever the numbers: the recursions of Weight and UnLE are
\* both of this form.
LEMMA RunningSum ==
  ASSUME NEW H \in Nat, NEW z \in Int, NEW a \in Int, NEW d \in [1..H -> Int]
  PROVE  \E f : Sums(f, H, z, a, d)
<1> DEFINE Good(k) == \E f : Sums(f, k, z, a, d)
           S == {k \in Nat : k > H \/ Good(k)}
<1>1. Good(0)
  <2>1. Sums([i \in 0..0 |-> z], 0, z, a, d)
    BY DEF Sums
  <2> QED BY <2>1
<1>2. ASSUME NEW k \in Nat, k + 1 <= H, Good(k) PROVE Good(k + 1)
  <2>1. PICK f : Sums(f, k, z, a, d)
    BY <1>2
  <2> DEFINE x == a * f[k] + d[k + 1]
             g == [i \in 0..(k + 1) |-> IF i = k + 1 THEN x ELSE f[i]]
  <2>2. f \in [0..k -> Int] /\ f[k] \in Int /\ d[k + 1] \in Int
    BY <1>2, <2>1 DEF Sums
  <2>3. x \in Int
    BY <2>2
  <2>4. x = a * f[k] + d[k + 1]
    OBVIOUS
  <2> HIDE DEF x
  <2>5. g \in [0..(k + 1) -> Int]
    BY <2>2, <2>3
  <2>6. ASSUME NEW i \in 0..(k + 1)
        PROVE  g[i] = IF i = 0 THEN z ELSE a * g[i - 1] + d[i]
    <3>1. CASE i = k + 1
      BY <2>4, <3>1
    <3>2. CASE i # k + 1
      <4>1. i \in 0..k /\ g[i] = f[i] /\ (i # 0 => g[i - 1] = f[i - 1])
        BY <3>2
      <4>2. f[i] = IF i = 0 THEN z ELSE a * f[i - 1] + d[i]
        BY <2>1, <4>1 DEF Sums
      <4> QED BY <4>1, <4>2
    <3> QED BY <3>1, <3>2
  <2>7. Sums(g, k + 1, z, a, d)
    <3> HIDE DEF g
    <3> QED BY <2>5, <2>6 DEF Sums
  <2> QED BY <2>7
<1> HIDE DEF Good
<1>3. \A n \in Nat : n \in S => n + 1 \in S
  BY <1>2
<1>4. 0 \in S
  BY <1>1
<1>5. Nat \subseteq S
  <2> HIDE DEF S
  <2> QED BY <1>3, <1>4, Induction
<1> QED BY <1>5 DEF Good

\* The recursion of Weight has a solution, so Weight satisfies it.
LEMMA WeightDef ==
  Weight = [i \in 0..HeaderLen |-> IF i = 0 THEN 1 ELSE Base * Weight[i - 1]]
<1> DEFINE W(f) == f = [i \in 0..HeaderLen |-> IF i = 0 THEN 1 ELSE Base * f[i - 1]]
           d == [i \in 1..HeaderLen |-> 0]
<1>1. PICK f : Sums(f, HeaderLen, 1, Base, d)
  <2>1. HeaderLen \in Nat /\ 1 \in Int /\ Base \in Int /\ d \in [1..HeaderLen -> Int]
    BY FramingAssumption
  <2> HIDE DEF d
  <2> QED BY <2>1, RunningSum, Zenon
<1>2. ASSUME NEW i \in 0..HeaderLen
      PROVE  f[i] = IF i = 0 THEN 1 ELSE Base * f[i - 1]
  <2>1. CASE i = 0
    BY <1>1, <2>1 DEF Sums
  <2>2. CASE i # 0
    <3>1. i - 1 \in 0..HeaderLen /\ d[i] = 0 /\ Base \in Int
      BY <2>2, FramingAssumption
    <3>2. f[i] = Base * f[i - 1] + d[i]
      BY <1>1, <2>2 DEF Sums
    <3>3. f[i - 1] \in Int
      BY <1>1, <3>1 DEF Sums
    <3> QED BY <2>2, <3>1, <3>2, <3>3
  <2> QED BY <2>1, <2>2
<1>3. W(f)
  BY <1>1, <1>2 DEF Sums
<1>4. Weight = CHOOSE w : W(w)
  BY DEF Weight
<1>5. W(CHOOSE w : W(w))
  <2> HIDE DEF W
  <2> QED BY <1>3
<1> QED BY <1>4, <1>5

LEMMA WeightStep ==
  /\ Weight[0] = 1
  /\ \A i \in 1..HeaderLen : Weight[i] = Base * Weight[i - 1]
BY WeightDef, FramingAssumption

\* A helper in arithmetic.
LEMMA ProductPositive ==
  ASSUME NEW a \in Nat, NEW b \in Nat, a > 0, b > 0
  PROVE  a * b \in Nat /\ a * b > 0
OBVIOUS

\* Every weight is a positive natural.
LEMMA WeightPositive ==
  \A i \in 0..HeaderLen : Weight[i] \in Nat /\ Weight[i] > 0
<1> DEFINE S == {i \in Nat : i <= HeaderLen => Weight[i] \in Nat /\ Weight[i] > 0}
<1>1. 0 \in S
  BY WeightStep
<1>2. ASSUME NEW i \in Nat, i \in S
      PROVE  i + 1 \in S
  <2>1. SUFFICES ASSUME i + 1 <= HeaderLen
                 PROVE  Weight[i + 1] \in Nat /\ Weight[i + 1] > 0
    OBVIOUS
  <2>2. Weight[i] \in Nat /\ Weight[i] > 0 /\ Weight[i + 1] = Base * Weight[i]
    BY <1>2, <2>1, WeightStep, FramingAssumption
  <2> QED BY <2>2, ProductPositive, FramingAssumption
<1>3. Nat \subseteq S
  <2> HIDE DEF S
  <2> QED BY <1>1, <1>2, Induction
<1> QED BY <1>3, FramingAssumption

\* What each digit of a prefix contributes.
ByteProducts(h) == [i \in 1..HeaderLen |-> h[i] * Weight[i - 1]]

\* UnLE is the last of the running sums of its digits: the recursion has a solution, and
\* only one.
LEMMA UnLEValue ==
  ASSUME NEW h \in Bytes, Len(h) >= HeaderLen
  PROVE  \E v : /\ Sums(v, HeaderLen, 0, 1, ByteProducts(h))
                /\ UnLE(h) = v[HeaderLen]
<1> DEFINE d == ByteProducts(h)
           V(f) == f = [i \in 0..HeaderLen |->
                          IF i = 0 THEN 0 ELSE f[i - 1] + h[i] * Weight[i - 1]]
<1>1. ASSUME NEW i \in 1..HeaderLen
      PROVE  /\ d[i] = h[i] * Weight[i - 1]
             /\ h[i] \in Int /\ Weight[i - 1] \in Int /\ d[i] \in Int
  <2>1. h[i] \in Int /\ Weight[i - 1] \in Int
    BY WeightPositive, FramingAssumption DEF Bytes
  <2>2. d[i] = h[i] * Weight[i - 1]
    BY DEF ByteProducts
  <2> QED BY <2>1, <2>2
<1>2. d \in [1..HeaderLen -> Int]
  BY <1>1 DEF ByteProducts
<1>3. PICK f : Sums(f, HeaderLen, 0, 1, d)
  <2>1. HeaderLen \in Nat /\ 0 \in Int /\ 1 \in Int
    BY FramingAssumption
  <2> HIDE DEF d
  <2> QED BY <1>2, <2>1, RunningSum, Zenon
<1>4. V(f)
  <2>1. ASSUME NEW i \in 0..HeaderLen, i # 0
        PROVE  f[i] = f[i - 1] + h[i] * Weight[i - 1]
    <3>1. f[i] = 1 * f[i - 1] + d[i] /\ f[i - 1] \in Int
      BY <1>3, <2>1, FramingAssumption DEF Sums
    <3>2. d[i] = h[i] * Weight[i - 1]
      BY <1>1, <2>1
    <3> QED BY <3>1, <3>2
  <2>2. f[0] = 0 /\ f = [i \in 0..HeaderLen |-> f[i]]
    BY <1>3, FramingAssumption DEF Sums
  <2> QED BY <2>1, <2>2
<1>5. UnLE(h) = (CHOOSE v : V(v))[HeaderLen]
  BY DEF UnLE
<1>6. V(CHOOSE v : V(v))
  <2> HIDE DEF V
  <2> QED BY <1>4
<1>7. ASSUME NEW v, V(v)
      PROVE  v = f
  <2> DEFINE S == {i \in Nat : i <= HeaderLen => v[i] = f[i]}
  <2>1. 0 \in S
    BY <1>4, <1>7, FramingAssumption
  <2>2. ASSUME NEW i \in Nat, i \in S
        PROVE  i + 1 \in S
    <3>1. SUFFICES ASSUME i + 1 <= HeaderLen PROVE v[i + 1] = f[i + 1]
      OBVIOUS
    <3>2. /\ v[i + 1] = v[i] + h[i + 1] * Weight[i]
          /\ f[i + 1] = f[i] + h[i + 1] * Weight[i]
      BY <1>4, <1>7, <3>1, FramingAssumption
    <3>3. v[i] = f[i]
      BY <2>2, <3>1, FramingAssumption
    <3> QED BY <3>2, <3>3
  <2>3. Nat \subseteq S
    <3> HIDE DEF S
    <3> QED BY <2>1, <2>2, Induction
  <2>4. \A i \in 0..HeaderLen : v[i] = f[i]
    BY <2>3, FramingAssumption
  <2>5. /\ v = [i \in 0..HeaderLen |-> v[i]]
        /\ f = [i \in 0..HeaderLen |-> f[i]]
    BY <1>3, <1>7 DEF Sums
  <2> QED BY <2>4, <2>5
<1>8. UnLE(h) = f[HeaderLen]
  <2> HIDE DEF V
  <2> QED BY <1>5, <1>6, <1>7
<1> QED BY <1>3, <1>8

\* A digit on top of a value below w stays below b times w.
LEMMA DigitFits ==
  ASSUME NEW b \in Nat, NEW w \in Nat, NEW d \in 0..(b - 1), NEW v \in 0..(w - 1)
  PROVE  v + d * w \in 0..(b * w - 1)
<1>1. d * w \in Nat /\ b * w \in Nat
  OBVIOUS
<1>2. d * w <= (b - 1) * w
  OBVIOUS
<1>3. (b - 1) * w = b * w - w
  OBVIOUS
<1> QED BY <1>1, <1>2, <1>3

\* Quotient and remainder are the only pair of their kind.
LEMMA DivisionUnique ==
  ASSUME NEW n \in Int, NEW w \in Nat, w > 0, NEW q \in Int, NEW r \in 0..(w - 1),
         n = w * q + r
  PROVE  n \div w = q /\ n % w = r
<1> DEFINE p == n \div w
           s == n % w
<1>1. p \in Int /\ s \in 0..(w - 1) /\ n = w * p + s
  OBVIOUS
<1> HIDE DEF p, s
<1>2. w * (q - p) = s - r
  BY <1>1
<1>3. q - p < 1
  <2>1. SUFFICES ASSUME q - p >= 1 PROVE FALSE
    BY <1>1
  <2>2. w * (q - p) >= w
    BY <1>1, <2>1
  <2> QED BY <1>1, <1>2, <2>2
<1>4. q - p > -1
  <2>1. SUFFICES ASSUME q - p <= -1 PROVE FALSE
    BY <1>1
  <2>2. w * (q - p) <= -w
    BY <1>1, <2>1
  <2> QED BY <1>1, <1>2, <2>2
<1>5. q = p
  BY <1>1, <1>3, <1>4
<1>6. r = s
  BY <1>1, <1>2, <1>5
<1> QED BY <1>5, <1>6 DEF p, s

\* What the operators on sequences do to bytes, element by element.
LEMMA BytesAre ==
  ASSUME NEW b \in Bytes
  PROVE  Len(b) \in Nat /\ \A i \in 1..Len(b) : b[i] \in 0..(Base - 1)
BY FramingAssumption DEF Bytes

LEMMA SmallMod ==
  ASSUME NEW n \in Nat, NEW w \in Nat, n < w
  PROVE  n % w = n
OBVIOUS

LEMMA HeaderByte ==
  ASSUME NEW h \in Bytes, Len(h) >= HeaderLen, NEW i \in 1..HeaderLen
  PROVE  h[i] \in 0..(Base - 1)
<1>1. Len(h) \in Nat
  BY DEF Bytes
<1>2. HeaderLen \in Nat /\ Base \in Nat
  BY FramingAssumption
<1>3. i \in 1..Len(h)
  BY <1>1, <1>2
<1> QED BY <1>2, <1>3 DEF Bytes

\* LittleEndian.Uint32 gives what HeaderLen digits can say.
LEMMA UnLERange ==
  ASSUME NEW h \in Bytes, Len(h) >= HeaderLen
  PROVE  UnLE(h) \in 0..(Width - 1)
<1>1. PICK v : /\ Sums(v, HeaderLen, 0, 1, ByteProducts(h))
               /\ UnLE(h) = v[HeaderLen]
  BY UnLEValue
<1> DEFINE S == {i \in Nat : i <= HeaderLen => v[i] \in 0..(Weight[i] - 1)}
<1>2. 0 \in S
  BY <1>1, WeightStep, FramingAssumption DEF Sums
<1>3. ASSUME NEW i \in Nat, i \in S
      PROVE  i + 1 \in S
  <2>1. SUFFICES ASSUME i + 1 <= HeaderLen PROVE v[i + 1] \in 0..(Weight[i + 1] - 1)
    OBVIOUS
  <2>2. i + 1 \in 1..HeaderLen /\ v[i] \in 0..(Weight[i] - 1)
    BY <1>3, <2>1, FramingAssumption
  <2>3. v[i + 1] = 1 * v[i] + ByteProducts(h)[i + 1]
    BY <1>1, <2>2 DEF Sums
  <2>4. ByteProducts(h)[i + 1] = h[i + 1] * Weight[i]
    BY <2>2 DEF ByteProducts
  <2>5. v[i + 1] = v[i] + h[i + 1] * Weight[i]
    BY <2>2, <2>3, <2>4
  <2>6. /\ Base \in Nat /\ Weight[i] \in Nat /\ h[i + 1] \in 0..(Base - 1)
        /\ Weight[i + 1] = Base * Weight[i]
    <3>1. h[i + 1] \in 0..(Base - 1)
      BY <2>2, HeaderByte
    <3>2. Weight[i + 1] = Base * Weight[(i + 1) - 1]
      BY <2>2, WeightStep
    <3>3. Weight[i] \in Nat
      BY <2>2, WeightPositive, FramingAssumption
    <3> QED BY <3>1, <3>2, <3>3, FramingAssumption
  <2> QED BY <2>2, <2>5, <2>6, DigitFits
<1>4. Nat \subseteq S
  <2> HIDE DEF S
  <2> QED BY <1>2, <1>3, Induction
<1> QED BY <1>1, <1>4, FramingAssumption DEF Width

LEMMA Division ==
  ASSUME NEW n \in Int, NEW w \in Nat, w > 0
  PROVE  /\ n = w * (n \div w) + (n % w)
         /\ n \div w \in Int
         /\ n % w \in 0..(w - 1)
OBVIOUS

\* frame.go:56, :70, client.go:440: what PutUint32 wrote, Uint32 reads back, modulo what the prefix
\* holds, for every length, base and width of the prefix.
THEOREM HeaderReadBack ==
  ASSUME NEW h \in Bytes, Len(h) >= HeaderLen, NEW n \in Nat,
         \A i \in 1..HeaderLen : h[i] = LE(n)[i]
  PROVE  UnLE(h) = n % Width
<1>1. PICK v : /\ Sums(v, HeaderLen, 0, 1, ByteProducts(h))
               /\ UnLE(h) = v[HeaderLen]
  BY UnLEValue
<1> DEFINE S == {i \in Nat : i <= HeaderLen => v[i] = n % Weight[i]}
<1>2. 0 \in S
  <2>1. v[0] = 0
    BY <1>1, FramingAssumption DEF Sums
  <2>2. n % Weight[0] = 0
    BY WeightStep
  <2> QED BY <2>1, <2>2
<1>3. ASSUME NEW i \in Nat, i \in S
      PROVE  i + 1 \in S
  <2>1. SUFFICES ASSUME i + 1 <= HeaderLen PROVE v[i + 1] = n % Weight[i + 1]
    OBVIOUS
  <2>2. i + 1 \in 1..HeaderLen /\ v[i] = n % Weight[i]
    BY <1>3, <2>1, FramingAssumption
  <2> DEFINE w == Weight[i]
             d == h[i + 1]
  <2>3. v[i + 1] = v[i] + d * w
    <3>1. v[i + 1] = 1 * v[i] + ByteProducts(h)[i + 1]
      BY <1>1, <2>2, FramingAssumption DEF Sums
    <3>2. ByteProducts(h)[i + 1] = d * w
      BY <2>2 DEF ByteProducts
    <3>3. v[i] \in Int
      BY <1>1, <2>2, FramingAssumption DEF Sums
    <3> QED BY <3>1, <3>2, <3>3
  <2>4. d = (n \div w) % Base
    BY <2>2 DEF LE
  <2>5. w \in Nat /\ w > 0
    BY <2>2, WeightPositive, FramingAssumption
  <2>6. Weight[i + 1] = Base * w
    <3>1. Weight[i + 1] = Base * Weight[(i + 1) - 1]
      BY <2>2, WeightStep
    <3> QED BY <3>1
  <2> DEFINE q == n \div w
             p == q \div Base
  <2> HIDE DEF w, d
  <2>7. n = w * q + v[i] /\ v[i] \in 0..(w - 1) /\ q \in Int
    <3>1. v[i] = n % w
      BY <2>2 DEF w
    <3> QED BY <2>5, <3>1, Division
  <2> HIDE DEF q
  <2>8. q = Base * p + d /\ d \in 0..(Base - 1) /\ p \in Int
    <3>1. d = q % Base
      BY <2>4 DEF q
    <3>2. Base \in Nat /\ Base > 0
      BY FramingAssumption
    <3> QED BY <2>7, <3>1, <3>2, Division
  <2> HIDE DEF p
  <2>9. n = (Base * w) * p + (v[i] + d * w)
    <3>1. w * (Base * p + d) = (Base * w) * p + d * w
      BY <2>5, <2>8, FramingAssumption
    <3> QED BY <2>5, <2>7, <2>8, <3>1, FramingAssumption
  <2>10. v[i] + d * w \in 0..(Base * w - 1)
    BY <2>5, <2>7, <2>8, DigitFits, FramingAssumption
  <2>11. Base * w \in Nat /\ Base * w > 0
    BY <2>5, ProductPositive, FramingAssumption
  <2>12. n % (Base * w) = v[i] + d * w
    <3> DEFINE x == Base * w
               r == v[i] + d * w
    <3>1. n = x * p + r /\ r \in 0..(x - 1) /\ x \in Nat /\ x > 0 /\ p \in Int /\ n \in Int
      BY <2>8, <2>9, <2>10, <2>11
    <3> HIDE DEF x, r
    <3>2. n % x = r
      BY <3>1, DivisionUnique
    <3> QED BY <3>2 DEF x, r
  <2> QED BY <2>3, <2>6, <2>12
<1>4. Nat \subseteq S
  <2> HIDE DEF S
  <2> QED BY <1>2, <1>3, Induction
<1> QED BY <1>1, <1>4, FramingAssumption DEF Width

\* PutUint32 writes HeaderLen bytes.
LEMMA LEIsBytes ==
  ASSUME NEW n \in Nat
  PROVE  LE(n) \in Bytes /\ Len(LE(n)) = HeaderLen
<1>1. ASSUME NEW i \in 1..HeaderLen
      PROVE  (n \div Weight[i - 1]) % Base \in 0..(Base - 1)
  <2>1. Weight[i - 1] \in Nat /\ Weight[i - 1] > 0
    BY WeightPositive, FramingAssumption
  <2>2. n \div Weight[i - 1] \in Int
    BY <2>1
  <2> QED BY <2>2, FramingAssumption
<1> QED BY <1>1, FramingAssumption DEF LE, Bytes

LEMMA BodyIsBytes ==
  ASSUME NEW b \in Bodies
  PROVE  b \in Bytes
BY FramingAssumption DEF Bytes

LEMMA ConcatIs ==
  ASSUME NEW a \in Bytes, NEW b \in Bytes
  PROVE  /\ a \o b \in Bytes
         /\ Len(a \o b) = Len(a) + Len(b)
         /\ \A i \in 1..Len(a) : (a \o b)[i] = a[i]
         /\ \A i \in 1..Len(b) : (a \o b)[Len(a) + i] = b[i]
BY FramingAssumption DEF Bytes

LEMMA DropIs ==
  ASSUME NEW a \in Bytes, NEW n \in 0..Len(a)
  PROVE  /\ Drop(a, n) \in Bytes
         /\ Len(Drop(a, n)) = Len(a) - n
         /\ \A i \in 1..(Len(a) - n) : Drop(a, n)[i] = a[n + i]
<1>1. Len(a) \in Nat /\ Base \in Nat
  BY BytesAre, FramingAssumption
<1>2. /\ Len(Drop(a, n)) = Len(a) - n
      /\ \A i \in 1..(Len(a) - n) : Drop(a, n)[i] = a[n + i]
  BY <1>1 DEF Bytes, Drop
<1>3. Drop(a, n) \in Seq(0..(Base - 1))
  <2>1. \A i \in (n + 1)..Len(a) : a[i] \in 0..(Base - 1)
    BY <1>1, BytesAre
  <2> QED BY <1>1, <2>1, SubSeqProperties DEF Drop, Bytes
<1> QED BY <1>2, <1>3 DEF Bytes

LEMMA TakeIs ==
  ASSUME NEW a \in Bytes, NEW n \in 0..Len(a)
  PROVE  /\ SubSeq(a, 1, n) \in Bytes
         /\ Len(SubSeq(a, 1, n)) = n
         /\ \A i \in 1..n : SubSeq(a, 1, n)[i] = a[i]
<1>1. Len(a) \in Nat /\ Base \in Nat
  BY BytesAre, FramingAssumption
<1>2. /\ Len(SubSeq(a, 1, n)) = n
      /\ \A i \in 1..n : SubSeq(a, 1, n)[i] = a[i]
  BY <1>1 DEF Bytes
<1>3. SubSeq(a, 1, n) \in Seq(0..(Base - 1))
  BY <1>1, SubSeqProperties DEF Bytes
<1> QED BY <1>2, <1>3 DEF Bytes

LEMMA CutIs ==
  ASSUME NEW a \in Bytes, NEW h \in Nat, NEW n \in Nat, h + n <= Len(a)
  PROVE  /\ SubSeq(a, h + 1, h + n) \in Bytes
         /\ Len(SubSeq(a, h + 1, h + n)) = n
         /\ \A i \in 1..n : SubSeq(a, h + 1, h + n)[i] = a[h + i]
<1> DEFINE m == h + 1
           k == h + n
<1>1. Len(a) \in Nat /\ \A i \in 1..Len(a) : a[i] \in 0..(Base - 1)
  BY BytesAre
<1>2. \A i \in m..k : a[i] \in 0..(Base - 1)
  BY <1>1
<1>3. m \in Int /\ k \in Int /\ k - m + 1 = n /\ (IF m <= k THEN k - m + 1 ELSE 0) = n
  OBVIOUS
<1>4. \A i \in 1..n : m + i - 1 = h + i
  OBVIOUS
<1> HIDE DEF m, k
<1>5. /\ SubSeq(a, m, k) \in Seq(0..(Base - 1))
      /\ Len(SubSeq(a, m, k)) = n
      /\ \A i \in 1..n : SubSeq(a, m, k)[i] = a[m + i - 1]
  BY <1>2, <1>3, SubSeqProperties
<1> QED BY <1>4, <1>5 DEF m, k, Bytes

LEMMA SameBytes ==
  ASSUME NEW a \in Bytes, NEW b \in Bytes, Len(a) = Len(b),
         \A i \in 1..Len(a) : a[i] = b[i]
  PROVE  a = b
<1>1. a \in Seq(0..(Base - 1)) /\ b \in Seq(0..(Base - 1))
  BY DEF Bytes
<1> QED BY <1>1, SeqEqual

\* A frame is its header and its body.
LEMMA FrameIs ==
  ASSUME NEW b \in Bytes
  PROVE  /\ EncodeFrame(b) \in Bytes
         /\ Len(EncodeFrame(b)) = HeaderLen + Len(b)
         /\ \A i \in 1..HeaderLen : EncodeFrame(b)[i] = LE(Len(b))[i]
         /\ \A i \in 1..Len(b) : EncodeFrame(b)[HeaderLen + i] = b[i]
<1>1. Len(b) \in Nat
  BY BytesAre
<1>2. LE(Len(b)) \in Bytes /\ Len(LE(Len(b))) = HeaderLen
  BY <1>1, LEIsBytes
<1> QED BY <1>2, ConcatIs DEF EncodeFrame

LEMMA SentBody ==
  ASSUME NEW s \in Seq(Bodies), NEW j \in 1..Len(s)
  PROVE  s[j] \in Bytes /\ Len(s[j]) \in Nat
BY BodyIsBytes, BytesAre

\* Cut in two anywhere, put together again.
LEMMA TakeThenDrop ==
  ASSUME NEW w \in Bytes, NEW k \in 0..Len(w)
  PROVE  SubSeq(w, 1, k) \o Drop(w, k) = w
<1>1. Len(w) \in Nat /\ k \in Nat
  BY BytesAre
<1> DEFINE T == SubSeq(w, 1, k)
           D == Drop(w, k)
<1>2. /\ T \in Bytes /\ Len(T) = k /\ \A i \in 1..k : T[i] = w[i]
      /\ D \in Bytes /\ Len(D) = Len(w) - k /\ \A i \in 1..(Len(w) - k) : D[i] = w[k + i]
  BY TakeIs, DropIs
<1> HIDE DEF T, D
<1>3. /\ T \o D \in Bytes /\ Len(T \o D) = Len(w)
      /\ \A i \in 1..k : (T \o D)[i] = T[i]
      /\ \A i \in 1..(Len(w) - k) : (T \o D)[k + i] = D[i]
  BY <1>1, <1>2, ConcatIs
<1>4. ASSUME NEW i \in 1..Len(w) PROVE (T \o D)[i] = w[i]
  <2>1. CASE i <= k
    <3>1. i \in 1..k
      BY <1>1, <2>1
    <3> QED BY <1>2, <1>3, <3>1
  <2>2. CASE ~(i <= k)
    <3> DEFINE j == i - k
    <3>1. j \in 1..(Len(w) - k) /\ k + j = i
      BY <1>1, <2>2
    <3> HIDE DEF j
    <3> QED BY <1>2, <1>3, <3>1
  <2> QED BY <2>1, <2>2
<1>5. T \o D = w
  BY <1>3, <1>4, SameBytes
<1> QED BY <1>5 DEF T, D

LEMMA Joined ==
  ASSUME NEW a \in Bytes, NEW w \in Bytes, NEW c \in Bytes
  PROVE  a \o (w \o c) = (a \o w) \o c
<1> DEFINE D == 0..(Base - 1)
<1>1. a \in Seq(D) /\ w \in Seq(D) /\ c \in Seq(D)
  BY DEF Bytes
<1> HIDE DEF D
<1> QED BY <1>1, ConcatAssociative

\* A piece that arrives moves from the front of the wire to the back of what was read.
LEMMA Arrives ==
  ASSUME NEW a \in Bytes, NEW w \in Bytes, NEW k \in 1..Len(w)
  PROVE  (a \o SubSeq(w, 1, k)) \o Drop(w, k) = a \o w
<1>1. Len(w) \in Nat /\ k \in 0..Len(w)
  BY BytesAre
<1>2. SubSeq(w, 1, k) \in Bytes /\ Drop(w, k) \in Bytes
  BY <1>1, TakeIs, DropIs
<1>3. (a \o SubSeq(w, 1, k)) \o Drop(w, k) = a \o (SubSeq(w, 1, k) \o Drop(w, k))
  BY <1>2, Joined
<1> QED BY <1>1, <1>3, TakeThenDrop

\* Taking the header off and writing the number it says back in front changes nothing.
LEMMA HeaderPutBack ==
  ASSUME NEW a \in Bytes, NEW n \in Nat, Len(a) >= HeaderLen,
         \A i \in 1..HeaderLen : a[i] = LE(n)[i]
  PROVE  LE(n) \o Drop(a, HeaderLen) = a
<1>1. HeaderLen \in 0..Len(a)
  BY BytesAre, FramingAssumption
<1>2. SubSeq(a, 1, HeaderLen) = LE(n)
  <2>1. /\ SubSeq(a, 1, HeaderLen) \in Bytes /\ Len(SubSeq(a, 1, HeaderLen)) = HeaderLen
        /\ \A i \in 1..HeaderLen : SubSeq(a, 1, HeaderLen)[i] = a[i]
    BY <1>1, TakeIs
  <2>2. LE(n) \in Bytes /\ Len(LE(n)) = HeaderLen
    BY LEIsBytes
  <2> QED BY <2>1, <2>2, SameBytes
<1> QED BY <1>1, <1>2, TakeThenDrop

\* Dropping from the front does not see what is added behind.
LEMMA SplitFrom ==
  ASSUME NEW a \in Bytes, NEW w \in Bytes, NEW n \in 0..Len(a)
  PROVE  Drop(a \o w, n) = Drop(a, n) \o w
<1>1. Len(a) \in Nat /\ Len(w) \in Nat /\ n \in Nat
  BY BytesAre
<1>2. /\ a \o w \in Bytes /\ Len(a \o w) = Len(a) + Len(w)
      /\ \A i \in 1..Len(a) : (a \o w)[i] = a[i]
      /\ \A i \in 1..Len(w) : (a \o w)[Len(a) + i] = w[i]
  BY ConcatIs
<1>3. n \in 0..Len(a \o w)
  BY <1>1, <1>2
<1> DEFINE R == a \o w
           L == Drop(R, n)
           d == Drop(a, n)
           M == d \o w
<1>4. L \in Bytes /\ Len(L) = Len(R) - n /\ \A i \in 1..(Len(R) - n) : L[i] = R[n + i]
  BY <1>2, <1>3, DropIs
<1>5. d \in Bytes /\ Len(d) = Len(a) - n /\ \A i \in 1..(Len(a) - n) : d[i] = a[n + i]
  BY DropIs
<1>6. /\ M \in Bytes /\ Len(M) = Len(d) + Len(w)
      /\ \A i \in 1..Len(d) : M[i] = d[i]
      /\ \A i \in 1..Len(w) : M[Len(d) + i] = w[i]
  BY <1>5, ConcatIs
<1> HIDE DEF R, L, d, M
<1>7. Len(L) = Len(M) /\ Len(L) = Len(a) - n + Len(w)
  BY <1>1, <1>2, <1>4, <1>5, <1>6 DEF R
<1>8. ASSUME NEW i \in 1..Len(L) PROVE L[i] = M[i]
  <2>1. L[i] = R[n + i] /\ i \in Nat /\ i >= 1
    BY <1>1, <1>2, <1>4, <1>7 DEF R
  <2>2. CASE i <= Len(a) - n
    <3>1. i \in 1..Len(d) /\ i \in 1..(Len(a) - n) /\ n + i \in 1..Len(a)
      BY <1>1, <1>5, <2>1, <2>2
    <3>2. R[n + i] = a[n + i]
      BY <1>2, <3>1 DEF R
    <3> QED BY <1>5, <1>6, <2>1, <3>1, <3>2
  <2>3. CASE ~(i <= Len(a) - n)
    <3> DEFINE k == i - (Len(a) - n)
    <3>1. k \in 1..Len(w) /\ n + i = Len(a) + k /\ i = Len(d) + k
      BY <1>1, <1>5, <1>7, <2>1, <2>3
    <3> HIDE DEF k
    <3>2. R[n + i] = w[k]
      BY <1>2, <3>1 DEF R
    <3> QED BY <1>6, <2>1, <3>1, <3>2
  <2> QED BY <2>2, <2>3
<1>9. L = M
  BY <1>4, <1>6, <1>7, <1>8, SameBytes
<1> QED BY <1>9 DEF L, M, R, d

\* Behind a header, the same bytes as without it.
LEMMA Beyond ==
  ASSUME NEW h \in Bytes, NEW b \in Bytes, NEW n \in 0..Len(b)
  PROVE  /\ Drop(h \o b, Len(h) + n) = Drop(b, n)
         /\ SubSeq(h \o b, Len(h) + 1, Len(h) + n) = SubSeq(b, 1, n)
<1> DEFINE a == h \o b
           l == Len(h)
           D == Drop(a, l + n)
           E == Drop(b, n)
           T == SubSeq(b, 1, n)
<1>1. l \in Nat /\ Len(b) \in Nat /\ n \in Nat /\ n <= Len(b)
  BY BytesAre
<1>2. a \in Bytes /\ Len(a) = l + Len(b) /\ \A i \in 1..Len(b) : a[l + i] = b[i]
  BY ConcatIs
<1> HIDE DEF a, l
<1>3. D = E
  <2>1. l + n \in 0..Len(a) /\ Len(a) - (l + n) = Len(b) - n
    BY <1>1, <1>2
  <2>2. /\ D \in Bytes /\ Len(D) = Len(b) - n
        /\ \A i \in 1..(Len(b) - n) : D[i] = a[(l + n) + i]
    <3>1. /\ D \in Bytes /\ Len(D) = Len(a) - (l + n)
          /\ \A i \in 1..(Len(a) - (l + n)) : D[i] = a[(l + n) + i]
      BY <1>2, <2>1, DropIs
    <3> HIDE DEF D
    <3> QED BY <2>1, <3>1
  <2>3. /\ E \in Bytes /\ Len(E) = Len(b) - n
        /\ \A i \in 1..(Len(b) - n) : E[i] = b[n + i]
    BY DropIs
  <2> HIDE DEF D, E
  <2>4. ASSUME NEW i \in 1..Len(D) PROVE D[i] = E[i]
    <3>1. i \in 1..(Len(b) - n) /\ n + i \in 1..Len(b) /\ (l + n) + i = l + (n + i)
      BY <1>1, <2>2
    <3> QED BY <1>2, <2>2, <2>3, <3>1
  <2> QED BY <2>2, <2>3, <2>4, SameBytes
<1>4. SubSeq(a, l + 1, l + n) = T
  <2> DEFINE S == SubSeq(a, l + 1, l + n)
  <2>4. S \in Bytes /\ Len(S) = n /\ \A i \in 1..n : S[i] = a[l + i]
    <3>1. l + n <= Len(a)
      BY <1>1, <1>2
    <3> QED BY <1>1, <1>2, <3>1, CutIs
  <2>5. T \in Bytes /\ Len(T) = n /\ \A i \in 1..n : T[i] = b[i]
    BY TakeIs
  <2> HIDE DEF S, T
  <2>6. ASSUME NEW i \in 1..n PROVE S[i] = T[i]
    <3>1. i \in 1..Len(b)
      BY <1>1
    <3> QED BY <1>2, <2>4, <2>5, <3>1
  <2>7. S = T
    BY <2>4, <2>5, <2>6, SameBytes
  <2> QED BY <2>7 DEF S
<1> QED BY <1>3, <1>4 DEF D, E, T, a, l

LEMMA DecodesBody ==
  ASSUME NEW b, Decodes(b)
  PROVE  b \in Bodies /\ b \notin Undecodable
BY DEF Decodes

\* The branches of TrySplitFrame (frame.go:66-79).
LEMMA SplitFrameIs ==
  ASSUME NEW b
  PROVE  /\ TrySplitFrame(b) = TooLarge => ~(Len(b) < HeaderLen) /\ UnLE(b) > Cap
         /\ TrySplitFrame(b).kind = "ok" =>
               /\ ~(Len(b) < HeaderLen) /\ ~(UnLE(b) > Cap) /\ ~(Len(b) < HeaderLen + UnLE(b))
               /\ TrySplitFrame(b).body = SubSeq(b, HeaderLen + 1, HeaderLen + UnLE(b))
               /\ TrySplitFrame(b).consumed = HeaderLen + UnLE(b)
<1>1. More.kind = "more" /\ TooLarge.kind = "too_large"
  BY DEF More, TooLarge
<1>2. CASE Len(b) < HeaderLen
  BY <1>1, <1>2 DEF TrySplitFrame
<1>3. CASE ~(Len(b) < HeaderLen) /\ UnLE(b) > Cap
  BY <1>1, <1>3 DEF TrySplitFrame
<1>4. CASE ~(Len(b) < HeaderLen) /\ ~(UnLE(b) > Cap) /\ Len(b) < HeaderLen + UnLE(b)
  BY <1>1, <1>4 DEF TrySplitFrame
<1>5. CASE ~(Len(b) < HeaderLen) /\ ~(UnLE(b) > Cap) /\ ~(Len(b) < HeaderLen + UnLE(b))
  <2>1. TrySplitFrame(b) = [kind |-> "ok", body |-> SubSeq(b, HeaderLen + 1, HeaderLen + UnLE(b)),
                            consumed |-> HeaderLen + UnLE(b)]
    BY <1>5 DEF TrySplitFrame
  <2> DEFINE f == TrySplitFrame(b)
  <2> HIDE DEF f
  <2>2. /\ f.kind = "ok" /\ f.consumed = HeaderLen + UnLE(b)
        /\ f.body = SubSeq(b, HeaderLen + 1, HeaderLen + UnLE(b))
    <3> DEFINE y == SubSeq(b, HeaderLen + 1, HeaderLen + UnLE(b))
               z == HeaderLen + UnLE(b)
    <3>1. f = [kind |-> "ok", body |-> y, consumed |-> z]
      BY <2>1 DEF f
    <3> HIDE DEF y, z
    <3>2. f.kind = "ok" /\ f.body = y /\ f.consumed = z
      BY <3>1
    <3> QED BY <3>2 DEF y, z
  <2>3. f # TooLarge
    BY <1>1, <2>2
  <2> QED BY <1>5, <2>2, <2>3 DEF f
<1> QED BY <1>2, <1>3, <1>4, <1>5
-----------------------------------------------------------------------------
\* The bytes R have the bytes b after the first n of them.
HasAt(R, n, b) == \A i \in 1..Len(b) : R[n + i] = b[i]

\* The bytes R are the frames of the bodies of s after the first r, the j-th ending
\* at p[j], and then what the stream ends with: nothing, part of a header, or a
\* header, which says t, and less than its body.
Layout(s, t, e, R, r, p) ==
  /\ p \in [r..Len(s) -> 0..Len(R)]
  /\ p[r] = 0
  /\ \A j \in (r + 1)..Len(s) : /\ p[j] = p[j - 1] + HeaderLen + Len(s[j])
                                /\ HasAt(R, p[j - 1], EncodeFrame(s[j]))
  /\ t = NoHeader => /\ Len(R) < p[Len(s)] + HeaderLen
                     /\ e \/ Len(R) = p[Len(s)]
  /\ t # NoHeader => /\ e
                     /\ p[Len(s)] + HeaderLen <= Len(R)
                     /\ Len(R) < p[Len(s)] + HeaderLen + t
                     /\ HasAt(R, p[Len(s)], LE(t))

StreamOf(s, t, e, R, r) == \E p \in [r..Len(s) -> 0..Len(R)] : Layout(s, t, e, R, r, p)

\* What the header after the first r bodies says.
Announced(s, t, r) == IF r < Len(s) THEN Len(s[r + 1]) ELSE t

\* A receiver in step: it has the bodies bs, and the bytes R are still to come.
Follows(s, t, e, bs, R) ==
  /\ Len(bs) <= Len(s) /\ bs = SubSeq(s, 1, Len(bs))
  /\ \A j \in 1..Len(bs) : ~Refused(s[j])
  /\ StreamOf(s, t, e, R, Len(bs))

\* What is at a place is still there when bytes are added behind.
LEMMA HasAtConcat ==
  ASSUME NEW R \in Bytes, NEW T \in Bytes, NEW n \in Nat, NEW b \in Bytes,
         n + Len(b) <= Len(R), HasAt(R, n, b)
  PROVE  HasAt(R \o T, n, b)
<1>1. SUFFICES ASSUME NEW i \in 1..Len(b) PROVE (R \o T)[n + i] = b[i]
  BY DEF HasAt
<1>2. Len(b) \in Nat /\ Len(R) \in Nat
  BY BytesAre
<1>3. n + i \in 1..Len(R)
  BY <1>2
<1>4. R[n + i] = b[i]
  BY DEF HasAt
<1> QED BY <1>3, <1>4, ConcatIs

\* Bytes taken off the front move everything forward.
LEMMA HasAtDrop ==
  ASSUME NEW R \in Bytes, NEW m \in Nat, NEW n \in Nat, NEW b \in Bytes,
         m + n + Len(b) <= Len(R), HasAt(R, m + n, b)
  PROVE  HasAt(Drop(R, m), n, b)
<1>1. SUFFICES ASSUME NEW i \in 1..Len(b) PROVE Drop(R, m)[n + i] = b[i]
  BY DEF HasAt
<1>2. Len(b) \in Nat /\ Len(R) \in Nat
  BY BytesAre
<1>3. m \in 0..Len(R) /\ n + i \in 1..(Len(R) - m)
  BY <1>2
<1>4. R[(m + n) + i] = b[i]
  BY DEF HasAt
<1>5. Drop(R, m)[n + i] = R[m + (n + i)]
  BY <1>3, DropIs
<1> QED BY <1>2, <1>4, <1>5

\* A frame written behind a stream that goes on is one more frame of it.
LEMMA LayoutSend ==
  ASSUME NEW s \in Seq(Bodies), NEW R \in Bytes, NEW r \in 0..Len(s), NEW b \in Bodies,
         StreamOf(s, NoHeader, FALSE, R, r)
  PROVE  StreamOf(Append(s, b), NoHeader, FALSE, R \o EncodeFrame(b), r)
<1>1. PICK p : Layout(s, NoHeader, FALSE, R, r, p)
  BY DEF StreamOf
<1> DEFINE n == Len(s)
           S == Append(s, b)
           F == EncodeFrame(b)
           Q == R \o F
           q == [j \in r..(n + 1) |-> IF j = n + 1 THEN p[n] + HeaderLen + Len(b) ELSE p[j]]
<1>2. /\ n \in Nat /\ r \in Nat /\ r <= n /\ Len(R) \in Nat /\ Len(b) \in Nat /\ b \in Bytes
      /\ HeaderLen \in Nat
  BY BytesAre, BodyIsBytes, FramingAssumption
<1>3. /\ S \in Seq(Bodies) /\ Len(S) = n + 1 /\ S[n + 1] = b
      /\ \A j \in 1..n : S[j] = s[j]
  OBVIOUS
<1>4. F \in Bytes /\ Len(F) = HeaderLen + Len(b)
  BY <1>2, FrameIs
<1>5. /\ Q \in Bytes /\ Len(Q) = Len(R) + Len(F)
      /\ \A i \in 1..Len(R) : Q[i] = R[i]
      /\ HasAt(Q, Len(R), F)
  BY <1>4, ConcatIs DEF HasAt
<1>6. /\ p \in [r..n -> 0..Len(R)] /\ p[r] = 0 /\ p[n] = Len(R)
      /\ \A j \in (r + 1)..n : /\ p[j] = p[j - 1] + HeaderLen + Len(s[j])
                               /\ HasAt(R, p[j - 1], EncodeFrame(s[j]))
  BY <1>1 DEF Layout
<1> HIDE DEF S, F, Q, n
<1>7. q \in [r..Len(S) -> 0..Len(Q)]
  <2>1. p[n] + HeaderLen + Len(b) = Len(Q)
    BY <1>2, <1>4, <1>5, <1>6
  <2>2. ASSUME NEW j \in r..n
        PROVE  p[j] \in 0..Len(Q)
    BY <1>2, <1>4, <1>5, <1>6
  <2> QED BY <1>2, <1>3, <1>4, <1>5, <2>1, <2>2
<1>8. /\ q[n + 1] = Len(Q)
      /\ \A j \in r..n : q[j] = p[j]
  <2>1. q[n + 1] = p[n] + HeaderLen + Len(b)
    BY <1>2
  <2>2. ASSUME NEW j \in r..n PROVE q[j] = p[j]
    <3>1. j \in r..(n + 1) /\ j # n + 1
      BY <1>2
    <3> QED BY <3>1
  <2> QED BY <1>2, <1>4, <1>5, <1>6, <2>1, <2>2
<1> HIDE DEF q
<1>9. ASSUME NEW j \in (r + 1)..Len(S)
      PROVE  /\ q[j] = q[j - 1] + HeaderLen + Len(S[j])
             /\ HasAt(Q, q[j - 1], EncodeFrame(S[j]))
  <2>1. CASE j = n + 1
    <3>1. q[j - 1] = Len(R)
      BY <1>2, <1>6, <1>8, <2>1
    <3>2. S[j] = b
      BY <1>3, <2>1
    <3>3. q[j] = Len(R) + HeaderLen + Len(b)
      BY <1>2, <1>4, <1>5, <1>8, <2>1
    <3> QED BY <1>5, <3>1, <3>2, <3>3 DEF F
  <2>2. CASE j # n + 1
    <3>1. j \in (r + 1)..n /\ j \in 1..n /\ j - 1 \in r..n /\ j \in r..n
      BY <1>2, <1>3, <2>2
    <3>2. q[j] = p[j] /\ q[j - 1] = p[j - 1] /\ S[j] = s[j]
      BY <1>3, <1>8, <3>1
    <3>3. /\ p[j] = p[j - 1] + HeaderLen + Len(s[j])
          /\ HasAt(R, p[j - 1], EncodeFrame(s[j]))
      BY <1>6, <3>1
    <3>4. s[j] \in Bytes /\ Len(s[j]) \in Nat /\ Len(EncodeFrame(s[j])) = HeaderLen + Len(s[j])
      BY <3>1, SentBody, FrameIs DEF n
    <3>5. p[j - 1] \in Nat /\ p[j] \in Nat /\ p[j] <= Len(R)
      BY <1>2, <1>6, <3>1
    <3>6. p[j - 1] + Len(EncodeFrame(s[j])) <= Len(R)
      <4> DEFINE a == p[j - 1]
                 l == Len(s[j])
                 f == Len(EncodeFrame(s[j]))
                 m == Len(R)
      <4>1. /\ a \in Nat /\ l \in Nat /\ m \in Nat /\ HeaderLen \in Nat
            /\ f = HeaderLen + l /\ a + HeaderLen + l <= m
        BY <1>2, <3>3, <3>4, <3>5
      <4> HIDE DEF a, l, f, m
      <4>2. a + f <= m
        BY <4>1
      <4> QED BY <4>2 DEF a, f, m
    <3>7. HasAt(Q, p[j - 1], EncodeFrame(s[j]))
      BY <1>4, <3>3, <3>4, <3>5, <3>6, FrameIs, HasAtConcat DEF Q
    <3> QED BY <3>2, <3>3, <3>7
  <2> QED BY <2>1, <2>2
<1>10. Len(Q) < q[Len(S)] + HeaderLen /\ Len(Q) = q[Len(S)]
  <2>1. q[Len(S)] = Len(Q)
    BY <1>3, <1>8
  <2>2. Len(Q) \in Nat
    BY <1>5, BytesAre
  <2> QED BY <2>1, <2>2, FramingAssumption
<1>11. q[r] = 0
  BY <1>2, <1>6, <1>8
<1>12. Layout(S, NoHeader, FALSE, Q, r, q)
  BY <1>7, <1>9, <1>10, <1>11 DEF Layout
<1> QED BY <1>7, <1>12 DEF StreamOf, S, Q, F

\* A frame cut off behind a stream is what that stream ends with.
LEMMA LayoutTear ==
  ASSUME NEW s \in Seq(Bodies), NEW R \in Bytes, NEW r \in 0..Len(s), NEW b \in Bodies,
         StreamOf(s, NoHeader, FALSE, R, r),
         NEW k \in 0..(Len(EncodeFrame(b)) - 1)
  PROVE  StreamOf(s, IF k < HeaderLen THEN NoHeader ELSE Len(b), TRUE,
                  R \o SubSeq(EncodeFrame(b), 1, k), r)
<1>1. PICK p : Layout(s, NoHeader, FALSE, R, r, p)
  BY DEF StreamOf
<1> DEFINE n == Len(s)
           F == EncodeFrame(b)
           T == SubSeq(F, 1, k)
           Q == R \o T
           t == IF k < HeaderLen THEN NoHeader ELSE Len(b)
<1>2. /\ n \in Nat /\ r \in Nat /\ r <= n /\ Len(R) \in Nat /\ Len(b) \in Nat /\ b \in Bytes
      /\ HeaderLen \in Nat
  BY BytesAre, BodyIsBytes, FramingAssumption
<1>3. F \in Bytes /\ Len(F) = HeaderLen + Len(b)
  BY <1>2, FrameIs
<1>4. k \in Nat /\ k < HeaderLen + Len(b) /\ k \in 0..Len(F)
  BY <1>2, <1>3
<1>5. T \in Bytes /\ Len(T) = k /\ \A i \in 1..k : T[i] = F[i]
  BY <1>3, <1>4, TakeIs
<1>6. /\ Q \in Bytes /\ Len(Q) = Len(R) + k
      /\ \A i \in 1..k : Q[Len(R) + i] = T[i]
  BY <1>5, ConcatIs
<1>7. /\ p \in [r..n -> 0..Len(R)] /\ p[r] = 0 /\ p[n] = Len(R)
      /\ \A j \in (r + 1)..n : /\ p[j] = p[j - 1] + HeaderLen + Len(s[j])
                               /\ HasAt(R, p[j - 1], EncodeFrame(s[j]))
  BY <1>1 DEF Layout
<1> HIDE DEF n, F, T, Q
<1>8. p \in [r..n -> 0..Len(Q)]
  <2>1. ASSUME NEW j \in r..n PROVE p[j] \in 0..Len(Q)
    BY <1>2, <1>4, <1>6, <1>7
  <2> QED BY <1>7, <2>1
<1>9. ASSUME NEW j \in (r + 1)..n
      PROVE  HasAt(Q, p[j - 1], EncodeFrame(s[j]))
  <2>1. j \in 1..n /\ j - 1 \in r..n /\ j \in r..n
    BY <1>2
  <2>2. /\ p[j] = p[j - 1] + HeaderLen + Len(s[j])
        /\ HasAt(R, p[j - 1], EncodeFrame(s[j]))
    BY <1>7
  <2>3. s[j] \in Bytes /\ Len(s[j]) \in Nat /\ Len(EncodeFrame(s[j])) = HeaderLen + Len(s[j])
    BY <2>1, SentBody, FrameIs DEF n
  <2>4. p[j - 1] \in Nat /\ p[j] <= Len(R)
    BY <1>2, <1>7, <2>1
  <2>5. p[j - 1] + Len(EncodeFrame(s[j])) <= Len(R)
    <3> DEFINE a == p[j - 1]
               l == Len(s[j])
               f == Len(EncodeFrame(s[j]))
               m == Len(R)
    <3>1. /\ a \in Nat /\ l \in Nat /\ m \in Nat /\ HeaderLen \in Nat
          /\ f = HeaderLen + l /\ a + HeaderLen + l <= m
      BY <1>2, <2>2, <2>3, <2>4
    <3> HIDE DEF a, l, f, m
    <3>2. a + f <= m
      BY <3>1
    <3> QED BY <3>2 DEF a, f, m
  <2> QED BY <1>5, <2>2, <2>3, <2>4, <2>5, FrameIs, HasAtConcat DEF Q
<1>10. t = NoHeader => Len(Q) < p[n] + HeaderLen
  BY <1>2, <1>4, <1>6, <1>7 DEF NoHeader
<1>11. ASSUME t # NoHeader
       PROVE  /\ p[n] + HeaderLen <= Len(Q)
              /\ Len(Q) < p[n] + HeaderLen + t
              /\ HasAt(Q, p[n], LE(t))
  <2>1. t = Len(b) /\ HeaderLen <= k
    BY <1>2, <1>4, <1>11
  <2>2. LE(t) \in Bytes /\ Len(LE(t)) = HeaderLen
    BY <1>2, <2>1, LEIsBytes
  <2>3. ASSUME NEW i \in 1..HeaderLen PROVE Q[p[n] + i] = LE(t)[i]
    <3>1. i \in 1..k
      BY <1>2, <1>4, <2>1
    <3>2. Q[p[n] + i] = F[i]
      BY <1>5, <1>6, <1>7, <3>1
    <3>3. F[i] = LE(Len(b))[i]
      BY <1>2, FrameIs DEF F
    <3> QED BY <2>1, <3>2, <3>3
  <2>4. HasAt(Q, p[n], LE(t))
    BY <2>2, <2>3 DEF HasAt
  <2>5. p[n] + HeaderLen <= Len(Q) /\ Len(Q) < p[n] + HeaderLen + t
    BY <1>2, <1>4, <1>6, <1>7, <2>1
  <2> QED BY <2>4, <2>5
<1> HIDE DEF t
<1>12. Layout(s, t, TRUE, Q, r, p)
  BY <1>7, <1>8, <1>9, <1>10, <1>11 DEF Layout, n
<1> QED BY <1>8, <1>12 DEF StreamOf, Q, T, F, t, n

\* While a body is missing, the stream starts with its frame, whole.
LEMMA LayoutHead ==
  ASSUME NEW s \in Seq(Bodies), NEW t, NEW e, NEW R \in Bytes, NEW r \in 0..(Len(s) - 1),
         StreamOf(s, t, e, R, r)
  PROVE  /\ HeaderLen + Len(s[r + 1]) <= Len(R)
         /\ HasAt(R, 0, EncodeFrame(s[r + 1]))
<1>1. PICK p : Layout(s, t, e, R, r, p)
  BY DEF StreamOf
<1>2. /\ r + 1 \in 1..Len(s) /\ r + 1 \in (r + 1)..Len(s) /\ r + 1 \in r..Len(s)
      /\ (r + 1) - 1 = r
  OBVIOUS
<1>3. /\ p[r + 1] = p[(r + 1) - 1] + HeaderLen + Len(s[r + 1])
      /\ HasAt(R, p[(r + 1) - 1], EncodeFrame(s[r + 1]))
  BY <1>1, <1>2 DEF Layout
<1>4. p[(r + 1) - 1] = 0 /\ p[r + 1] <= Len(R)
  <2>1. p[r] = 0 /\ p[r + 1] \in 0..Len(R)
    BY <1>1, <1>2 DEF Layout
  <2>2. Len(R) \in Nat
    BY BytesAre
  <2> QED BY <1>2, <2>1, <2>2
<1>5. Len(s[r + 1]) \in Nat /\ HeaderLen \in Nat
  BY <1>2, SentBody, FramingAssumption
<1> QED BY <1>3, <1>4, <1>5

\* After the last body, the stream has less than a frame.
LEMMA LayoutEnd ==
  ASSUME NEW s, NEW t, NEW e, NEW R \in Bytes,
         StreamOf(s, t, e, R, Len(s)), Len(s) \in Nat
  PROVE  /\ t = NoHeader => Len(R) < HeaderLen /\ (e \/ Len(R) = 0)
         /\ t # NoHeader => /\ e /\ HeaderLen <= Len(R) /\ Len(R) < HeaderLen + t
                            /\ HasAt(R, 0, LE(t))
<1>1. PICK p : Layout(s, t, e, R, Len(s), p)
  BY DEF StreamOf
<1>2. HeaderLen \in Nat
  BY FramingAssumption
<1>3. p[Len(s)] = 0 
  BY <1>1 DEF Layout
<1> QED BY <1>1, <1>2, <1>3 DEF Layout

LEMMA GrowsOnly ==
  ASSUME NEW a \in Nat, NEW h \in Nat, NEW l \in Nat, NEW m \in Nat, a >= m
  PROVE  a + h + l >= m
OBVIOUS

\* A frame taken off the front leaves the stream after the next body.
LEMMA LayoutNext ==
  ASSUME NEW s \in Seq(Bodies), NEW t \in Int, NEW e, NEW R \in Bytes, NEW r \in 0..(Len(s) - 1),
         StreamOf(s, t, e, R, r)
  PROVE  StreamOf(s, t, e, Drop(R, HeaderLen + Len(s[r + 1])), r + 1)
<1>1. PICK p : Layout(s, t, e, R, r, p)
  BY DEF StreamOf
<1> DEFINE n == Len(s)
           m == HeaderLen + Len(s[r + 1])
           Q == Drop(R, m)
           q == [j \in (r + 1)..n |-> p[j] - m]
<1>2. /\ n \in Nat /\ r \in Nat /\ r + 1 <= n /\ Len(R) \in Nat /\ HeaderLen \in Nat
      /\ m \in Nat
  <2>1. Len(s[r + 1]) \in Nat
    BY SentBody
  <2> QED BY <2>1, BytesAre, FramingAssumption
<1>3. m <= Len(R)
  BY LayoutHead
<1>4. /\ p \in [r..n -> 0..Len(R)] /\ p[r] = 0
      /\ \A j \in (r + 1)..n : /\ p[j] = p[j - 1] + HeaderLen + Len(s[j])
                               /\ HasAt(R, p[j - 1], EncodeFrame(s[j]))
  BY <1>1 DEF Layout
<1>5. p[r + 1] = m
  <2>1. r + 1 \in (r + 1)..n /\ (r + 1) - 1 = r
    BY <1>2
  <2> QED BY <1>2, <1>4, <2>1
<1> HIDE DEF n, m
<1>6. Q \in Bytes /\ Len(Q) = Len(R) - m
  BY <1>2, <1>3, DropIs
<1>7. \A j \in (r + 1)..n : p[j] \in Nat /\ p[j] >= m /\ p[j] <= Len(R)
  <2> DEFINE S == {i \in Nat : r + 1 + i <= n => p[r + 1 + i] >= m}
  <2>1. 0 \in S
    BY <1>2, <1>5
  <2>2. ASSUME NEW i \in Nat, i \in S PROVE i + 1 \in S
    <3>1. SUFFICES ASSUME r + 1 + (i + 1) <= n PROVE p[r + 1 + (i + 1)] >= m
      OBVIOUS
    <3> DEFINE j == r + 1 + (i + 1)
    <3>2. j \in (r + 1)..n /\ j \in 1..n /\ j - 1 = r + 1 + i /\ j - 1 \in r..n
      BY <1>2, <3>1
    <3> HIDE DEF j
    <3>3. p[j - 1] >= m /\ p[j - 1] \in Nat
      BY <1>2, <1>4, <2>2, <3>2
    <3>4. Len(s[j]) \in Nat /\ p[j] = p[j - 1] + HeaderLen + Len(s[j])
      BY <1>4, <3>2, SentBody DEF n
    <3>5. p[j] >= m
      BY <1>2, <3>3, <3>4, GrowsOnly
    <3> QED BY <3>5 DEF j
  <2>3. Nat \subseteq S
    <3> HIDE DEF S
    <3> QED BY <2>1, <2>2, Induction
  <2>4. ASSUME NEW j \in (r + 1)..n PROVE p[j] >= m
    <3>1. j - r - 1 \in Nat /\ r + 1 + (j - r - 1) = j /\ j <= n
      BY <1>2
    <3>2. j - r - 1 \in S
      BY <2>3, <3>1
    <3> QED BY <3>1, <3>2
  <2>5. ASSUME NEW j \in (r + 1)..n PROVE p[j] \in 0..Len(R)
    BY <1>2, <1>4
  <2> QED BY <1>2, <2>4, <2>5
<1>8. q \in [(r + 1)..n -> 0..Len(Q)]
  <2>1. ASSUME NEW j \in (r + 1)..n PROVE p[j] - m \in 0..Len(Q)
    BY <1>2, <1>3, <1>6, <1>7
  <2> QED BY <2>1
<1>9. q[r + 1] = 0 /\ \A j \in (r + 1)..n : q[j] = p[j] - m
  BY <1>2, <1>5
<1> HIDE DEF q, Q
<1>10. ASSUME NEW T \in Bytes, NEW j \in (r + 1)..n, HasAt(R, p[j], T), p[j] + Len(T) <= Len(R)
       PROVE  HasAt(Q, q[j], T)
  <2>1. q[j] \in Nat /\ m + q[j] = p[j]
    BY <1>2, <1>7, <1>9
  <2> QED BY <1>2, <1>10, <2>1, HasAtDrop DEF Q
<1>11. ASSUME NEW j \in (r + 2)..n
       PROVE  /\ q[j] = q[j - 1] + HeaderLen + Len(s[j])
              /\ HasAt(Q, q[j - 1], EncodeFrame(s[j]))
  <2>1. j \in (r + 1)..n /\ j \in 1..n /\ j - 1 \in (r + 1)..n
    BY <1>2
  <2>2. /\ p[j] = p[j - 1] + HeaderLen + Len(s[j])
        /\ HasAt(R, p[j - 1], EncodeFrame(s[j]))
    BY <1>4, <2>1
  <2>3. s[j] \in Bytes /\ Len(s[j]) \in Nat
    BY <2>1, SentBody DEF n
  <2>4. EncodeFrame(s[j]) \in Bytes /\ Len(EncodeFrame(s[j])) = HeaderLen + Len(s[j])
    BY <2>3, FrameIs
  <2>5. p[j - 1] \in Nat /\ p[j] \in Nat /\ p[j] <= Len(R)
    BY <1>7, <2>1
  <2>6. q[j] = p[j] - m /\ q[j - 1] = p[j - 1] - m
    BY <1>9, <2>1
  <2>7. q[j] = q[j - 1] + HeaderLen + Len(s[j])
    <3>1. p[j] = p[j - 1] + HeaderLen + Len(s[j])
      BY <2>2
    <3> DEFINE l == Len(s[j])
    <3>2. p[j] = p[j - 1] + HeaderLen + l /\ l \in Nat
      BY <2>3, <3>1
    <3> DEFINE a == p[j - 1]
               c == p[j]
    <3>3. /\ a \in Nat /\ c \in Nat /\ l \in Nat /\ m \in Nat /\ HeaderLen \in Nat
          /\ c = a + HeaderLen + l /\ q[j] = c - m /\ q[j - 1] = a - m
      BY <1>2, <2>5, <2>6, <3>2
    <3> HIDE DEF a, c, l
    <3>4. q[j] = q[j - 1] + HeaderLen + l
      BY <3>3
    <3> QED BY <3>4 DEF l
  <2>8. p[j - 1] + Len(EncodeFrame(s[j])) <= Len(R)
    <3> DEFINE a == p[j - 1]
               l == Len(s[j])
               f == Len(EncodeFrame(s[j]))
               k == Len(R)
    <3>1. /\ a \in Nat /\ l \in Nat /\ k \in Nat /\ HeaderLen \in Nat
          /\ f = HeaderLen + l /\ a + HeaderLen + l <= k
      BY <1>2, <2>2, <2>3, <2>4, <2>5
    <3> HIDE DEF a, l, f, k
    <3>2. a + f <= k
      BY <3>1
    <3> QED BY <3>2 DEF a, f, k
  <2> QED BY <1>10, <2>1, <2>2, <2>4, <2>7, <2>8
<1>12. n \in (r + 1)..n /\ q[n] = p[n] - m /\ p[n] \in Nat
  BY <1>2, <1>7, <1>9
<1>13. t = NoHeader => /\ Len(Q) < q[n] + HeaderLen
                       /\ e \/ Len(Q) = q[n]
  <2>1. t = NoHeader => Len(R) < p[n] + HeaderLen /\ (e \/ Len(R) = p[n])
    BY <1>1 DEF Layout, n
  <2> DEFINE a == p[n]
             k == Len(R)
             l == Len(Q)
  <2>2. /\ a \in Nat /\ k \in Nat /\ m \in Nat /\ HeaderLen \in Nat /\ l = k - m /\ q[n] = a - m
        /\ t = NoHeader => k < a + HeaderLen /\ (e \/ k = a)
    BY <1>2, <1>6, <1>12, <2>1
  <2> HIDE DEF a, k, l
  <2>3. t = NoHeader => l < q[n] + HeaderLen /\ (e \/ l = q[n])
    BY <2>2
  <2> QED BY <2>3 DEF l
<1>14. ASSUME t # NoHeader
       PROVE  /\ e
              /\ q[n] + HeaderLen <= Len(Q)
              /\ Len(Q) < q[n] + HeaderLen + t
              /\ HasAt(Q, q[n], LE(t))
  <2>1. /\ e
        /\ p[n] + HeaderLen <= Len(R)
        /\ Len(R) < p[n] + HeaderLen + t
        /\ HasAt(R, p[n], LE(t))
    BY <1>1, <1>14 DEF Layout, n
  <2>2. t \in Nat
    BY <1>2, <1>12, <2>1
  <2>3. LE(t) \in Bytes /\ Len(LE(t)) = HeaderLen
    BY <2>2, LEIsBytes
  <2>4. HasAt(Q, q[n], LE(t))
    BY <1>10, <1>12, <2>1, <2>3
  <2> DEFINE a == p[n]
             k == Len(R)
             l == Len(Q)
  <2>5. /\ a \in Nat /\ k \in Nat /\ m \in Nat /\ HeaderLen \in Nat /\ t \in Nat
        /\ l = k - m /\ q[n] = a - m /\ a + HeaderLen <= k /\ k < a + HeaderLen + t
    BY <1>2, <1>6, <1>12, <2>1, <2>2
  <2> HIDE DEF a, k, l
  <2>6. q[n] + HeaderLen <= l /\ l < q[n] + HeaderLen + t
    BY <2>5
  <2> QED BY <2>1, <2>4, <2>6 DEF l
<1>15. Layout(s, t, e, Q, r + 1, q)
  BY <1>8, <1>9, <1>11, <1>13, <1>14, <1>2 DEF Layout, n
<1> QED BY <1>8, <1>15 DEF StreamOf, Q, m, n

\* A write keeps a receiver in step.
LEMMA FollowsSend ==
  ASSUME NEW s \in Seq(Bodies), NEW t, NEW bs \in Seq(Bodies), NEW R \in Bytes,
         NEW b \in Bodies, Follows(s, t, FALSE, bs, R)
  PROVE  /\ t = NoHeader
         /\ Follows(Append(s, b), t, FALSE, bs, R \o EncodeFrame(b))
<1>1. /\ Len(bs) <= Len(s) /\ bs = SubSeq(s, 1, Len(bs))
      /\ \A j \in 1..Len(bs) : ~Refused(s[j])
      /\ StreamOf(s, t, FALSE, R, Len(bs))
  BY DEF Follows
<1>2. t = NoHeader
  BY <1>1 DEF StreamOf, Layout
<1>3. Len(bs) \in 0..Len(s) /\ Len(s) \in Nat
  BY <1>1
<1>4. StreamOf(Append(s, b), NoHeader, FALSE, R \o EncodeFrame(b), Len(bs))
  BY <1>1, <1>2, <1>3, LayoutSend
<1>5. /\ Len(bs) <= Len(Append(s, b))
      /\ \A j \in 1..Len(bs) : Append(s, b)[j] = s[j]
  BY <1>3
<1>6. SubSeq(Append(s, b), 1, Len(bs)) = SubSeq(s, 1, Len(bs))
  BY <1>3
<1> QED BY <1>1, <1>2, <1>4, <1>5, <1>6 DEF Follows

\* So does a write that fails half-way.
LEMMA FollowsTear ==
  ASSUME NEW s \in Seq(Bodies), NEW t, NEW bs \in Seq(Bodies), NEW R \in Bytes,
         NEW b \in Bodies, Follows(s, t, FALSE, bs, R),
         NEW k \in 0..(Len(EncodeFrame(b)) - 1)
  PROVE  Follows(s, IF k < HeaderLen THEN NoHeader ELSE Len(b), TRUE,
                 bs, R \o SubSeq(EncodeFrame(b), 1, k))
<1>1. /\ Len(bs) <= Len(s) /\ bs = SubSeq(s, 1, Len(bs))
      /\ \A j \in 1..Len(bs) : ~Refused(s[j])
      /\ StreamOf(s, t, FALSE, R, Len(bs))
  BY DEF Follows
<1>2. t = NoHeader
  BY <1>1 DEF StreamOf, Layout
<1>3. Len(bs) \in 0..Len(s)
  BY <1>1
<1> QED BY <1>1, <1>2, <1>3, LayoutTear DEF Follows

LEMMA HeaderSays ==
  ASSUME NEW a \in Bytes, NEW w \in Bytes, Len(a) >= HeaderLen, NEW n \in Nat,
         HasAt(a \o w, 0, LE(n))
  PROVE  /\ UnLE(a) = n % Width
         /\ \A i \in 1..HeaderLen : a[i] = LE(n)[i]
<1>1. Len(LE(n)) = HeaderLen /\ HeaderLen \in Nat /\ Len(a) \in Nat
  BY LEIsBytes, BytesAre, FramingAssumption
<1>2. ASSUME NEW i \in 1..HeaderLen PROVE a[i] = LE(n)[i]
  <2>1. i \in 1..Len(a) /\ 0 + i = i
    BY <1>1
  <2>2. (a \o w)[0 + i] = LE(n)[i]
    BY <1>1 DEF HasAt
  <2> QED BY <2>1, <2>2, ConcatIs
<1> QED BY <1>2, HeaderReadBack

LEMMA FrameHeader ==
  ASSUME NEW R, NEW x \in Bytes, HasAt(R, 0, EncodeFrame(x))
  PROVE  HasAt(R, 0, LE(Len(x)))
<1>1. /\ Len(LE(Len(x))) = HeaderLen /\ Len(EncodeFrame(x)) = HeaderLen + Len(x)
      /\ HeaderLen \in Nat /\ Len(x) \in Nat
  BY LEIsBytes, BytesAre, FrameIs, FramingAssumption
<1>2. ASSUME NEW i \in 1..HeaderLen PROVE R[0 + i] = LE(Len(x))[i]
  <2>1. i \in 1..Len(EncodeFrame(x))
    BY <1>1
  <2> QED BY <2>1, FrameIs DEF HasAt
<1> QED BY <1>1, <1>2 DEF HasAt

\* The bytes a start with the header of a body of length n, which it can say or not.
HeaderFor(a, n) ==
  /\ n \in Nat /\ UnLE(a) = n % Width
  /\ \A i \in 1..HeaderLen : a[i] = LE(n)[i]
  /\ n < Width => UnLE(a) = n

\* Whoever is in step and has a header reads the length announced, modulo Width.
LEMMA FollowsHeader ==
  ASSUME NEW s \in Seq(Bodies), NEW t \in Int, NEW e, NEW bs \in Seq(Bodies),
         NEW a \in Bytes, NEW w \in Bytes, Follows(s, t, e, bs, a \o w),
         Len(a) >= HeaderLen, NEW n, n = Announced(s, t, Len(bs))
  PROVE  HeaderFor(a, n)
<1>1. Len(bs) \in 0..Len(s) /\ StreamOf(s, t, e, a \o w, Len(bs)) /\ Len(s) \in Nat
  BY DEF Follows
<1>2. /\ a \o w \in Bytes /\ Len(a \o w) >= HeaderLen /\ HeaderLen \in Nat
      /\ Len(a \o w) \in Nat
  <2>1. /\ a \o w \in Bytes /\ Len(a \o w) = Len(a) + Len(w)
        /\ Len(a) \in Nat /\ Len(w) \in Nat /\ HeaderLen \in Nat
    BY ConcatIs, BytesAre, FramingAssumption
  <2> QED BY <2>1
<1>3. n \in Nat /\ HasAt(a \o w, 0, LE(n))
  <2>1. CASE Len(bs) < Len(s)
    <3> DEFINE x == s[Len(bs) + 1]
    <3>1. x \in Bytes /\ Len(x) \in Nat /\ n = Len(x) /\ Len(bs) \in 0..(Len(s) - 1)
      BY <1>1, <2>1, SentBody DEF Announced
    <3>2. HasAt(a \o w, 0, EncodeFrame(x))
      BY <1>1, <1>2, <3>1, LayoutHead
    <3> QED BY <3>1, <3>2, FrameHeader
  <2>2. CASE ~(Len(bs) < Len(s))
    <3>1. Len(bs) = Len(s) /\ n = t
      BY <1>1, <2>2 DEF Announced
    <3>2. t # NoHeader => Len(a \o w) < HeaderLen + t /\ HasAt(a \o w, 0, LE(t))
      BY <1>1, <1>2, <3>1, LayoutEnd
    <3>3. t = NoHeader => Len(a \o w) < HeaderLen
      BY <1>1, <1>2, <3>1, LayoutEnd
    <3>4. t # NoHeader /\ t \in Nat
      BY <1>2, <3>2, <3>3
    <3> QED BY <3>1, <3>2, <3>4
  <2> QED BY <2>1, <2>2
<1>4. /\ UnLE(a) = n % Width
      /\ \A i \in 1..HeaderLen : a[i] = LE(n)[i]
  BY <1>3, HeaderSays
<1>5. n < Width => n % Width = n
  <2>1. Width \in Nat /\ Width > 0
    BY WeightPositive, FramingAssumption DEF Width
  <2>2. SUFFICES ASSUME n < Width PROVE n % Width = n
    OBVIOUS
  <2> QED BY <1>3, <2>1, <2>2, SmallMod
<1> QED BY <1>3, <1>4, <1>5 DEF HeaderFor

\* The bytes a hold the next body x whole, of length n, and without it the receiver
\* that takes x is in step.
\* The body that the bytes a hold after a header is x, the next that was sent.
HasNext(s, t, e, bs, a, w, n, x) ==
  /\ Len(bs) < Len(s) /\ n = Len(x)
  /\ SubSeq(a, HeaderLen + 1, HeaderLen + n) = x
  /\ ~Refused(x) => Follows(s, t, e, Append(bs, x), Drop(a, HeaderLen + n) \o w)

\* The body of a frame that is there whole.
LEMMA CutFrame ==
  ASSUME NEW a \in Bytes, NEW w \in Bytes, NEW x \in Bytes,
         HeaderLen + Len(x) <= Len(a), HasAt(a \o w, 0, EncodeFrame(x))
  PROVE  SubSeq(a, HeaderLen + 1, HeaderLen + Len(x)) = x
<1> DEFINE n == Len(x)
           l == Len(a)
           y == SubSeq(a, HeaderLen + 1, HeaderLen + n)
           F == EncodeFrame(x)
           R == a \o w
<1>1. n \in Nat /\ l \in Nat /\ HeaderLen \in Nat /\ HeaderLen + n <= l
  BY BytesAre, FramingAssumption
<1>2. y \in Bytes /\ Len(y) = n /\ \A i \in 1..n : y[i] = a[HeaderLen + i]
  BY <1>1, CutIs
<1>3. /\ \A i \in 1..l : R[i] = a[i]
      /\ Len(F) = HeaderLen + n /\ \A i \in 1..n : F[HeaderLen + i] = x[i]
      /\ \A i \in 1..Len(F) : R[0 + i] = F[i]
  BY ConcatIs, FrameIs DEF HasAt
<1> HIDE DEF n, l, y, F, R
<1>4. ASSUME NEW i \in 1..n PROVE y[i] = x[i]
  <2>1. /\ HeaderLen + i \in 1..l /\ HeaderLen + i \in 1..(HeaderLen + n)
        /\ 0 + (HeaderLen + i) = HeaderLen + i
    BY <1>1
  <2> QED BY <1>2, <1>3, <2>1
<1>5. y = x
  BY <1>2, <1>4, SameBytes DEF n
<1> QED BY <1>5 DEF y, n

\* Whoever is in step and has as many bytes as announced has the next body: a frame
\* cut off never comes whole.
LEMMA FollowsBody ==
  ASSUME NEW s \in Seq(Bodies), NEW t \in Int, NEW e, NEW bs \in Seq(Bodies),
         NEW a \in Bytes, NEW w \in Bytes, Follows(s, t, e, bs, a \o w),
         NEW n \in Nat, n = Announced(s, t, Len(bs)), HeaderLen + n <= Len(a),
         NEW x, x = s[Len(bs) + 1]
  PROVE  HasNext(s, t, e, bs, a, w, n, x)
<1> DEFINE R == a \o w
           r == Len(bs)
<1>1. /\ r \in 0..Len(s) /\ bs = SubSeq(s, 1, r) /\ r \in Nat
      /\ \A j \in 1..r : ~Refused(s[j])
      /\ StreamOf(s, t, e, R, r) /\ Len(s) \in Nat
  BY DEF Follows
<1>2. /\ R \in Bytes /\ Len(R) = Len(a) + Len(w)
      /\ Len(a) \in Nat /\ Len(w) \in Nat /\ HeaderLen \in Nat
      /\ \A i \in 1..Len(a) : R[i] = a[i]
  BY ConcatIs, BytesAre, FramingAssumption
<1> HIDE DEF R, r
<1>3. r < Len(s)
  <2>1. SUFFICES ASSUME ~(r < Len(s)) PROVE FALSE
    OBVIOUS
  <2>2. r = Len(s) /\ n = t
    BY <1>1, <2>1 DEF Announced, r
  <2>3. /\ t = NoHeader => Len(R) < HeaderLen
        /\ t # NoHeader => Len(R) < HeaderLen + t
    BY <1>1, <1>2, <2>2, LayoutEnd
  <2> QED BY <1>2, <2>2, <2>3
<1>4. /\ r \in 0..(Len(s) - 1) /\ r + 1 \in 1..Len(s) /\ x \in Bodies /\ x \in Bytes
      /\ n = Len(x)
  BY <1>1, <1>3, BodyIsBytes DEF Announced, r
<1>5. HasAt(R, 0, EncodeFrame(x))
  BY <1>1, <1>2, <1>4, LayoutHead DEF r
<1>6. SubSeq(a, HeaderLen + 1, HeaderLen + n) = x
  <2>1. HeaderLen + Len(x) <= Len(a)
    BY <1>4
  <2> QED BY <1>4, <1>5, <2>1, CutFrame DEF R
<1>7. ASSUME ~Refused(x)
      PROVE  Follows(s, t, e, Append(bs, x), Drop(a, HeaderLen + n) \o w)
  <2> DEFINE cs == Append(bs, x)
  <2>1. Len(cs) = r + 1 /\ cs \in Seq(Bodies)
    BY <1>4 DEF r
  <2>2. cs = SubSeq(s, 1, r + 1)
    <3>1. SubSeq(s, 1, r + 1) = Append(SubSeq(s, 1, r), s[r + 1])
      BY <1>1, <1>3, SubSeqRecursiveSecond
    <3> QED BY <1>1, <3>1 DEF r
  <2>3. \A j \in 1..(r + 1) : ~Refused(s[j])
    <3>1. ASSUME NEW j \in 1..(r + 1), j # r + 1 PROVE ~Refused(s[j])
      <4>1. j \in 1..r
        BY <1>1, <3>1
      <4> QED BY <1>1, <4>1
    <3> QED BY <1>7, <3>1 DEF r
  <2>4. Drop(R, HeaderLen + n) = Drop(a, HeaderLen + n) \o w
    <3>1. HeaderLen + n \in 0..Len(a)
      BY <1>2
    <3> QED BY <3>1, SplitFrom DEF R
  <2>5. StreamOf(s, t, e, Drop(R, HeaderLen + n), r + 1)
    <3>1. StreamOf(s, t, e, Drop(R, HeaderLen + Len(s[r + 1])), r + 1)
      BY <1>1, <1>2, <1>4, LayoutNext
    <3> QED BY <1>4, <3>1 DEF r
  <2> HIDE DEF cs
  <2>6. Follows(s, t, e, cs, Drop(a, HeaderLen + n) \o w)
    <3>1. Len(cs) <= Len(s) /\ cs = SubSeq(s, 1, Len(cs))
      BY <1>1, <1>3, <2>1, <2>2
    <3>2. \A j \in 1..Len(cs) : ~Refused(s[j])
      BY <2>1, <2>3
    <3>3. StreamOf(s, t, e, Drop(a, HeaderLen + n) \o w, Len(cs))
      BY <2>1, <2>4, <2>5
    <3> QED BY <3>1, <3>2, <3>3 DEF Follows
  <2> QED BY <2>6 DEF cs
<1> QED BY <1>3, <1>4, <1>6, <1>7 DEF r, HasNext
=============================================================================
