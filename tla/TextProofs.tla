---------------------------- MODULE TextProofs ------------------------------
(***************************************************************************)
(* A server's error message of any length is classified as its words say,  *)
(* as far as the convention reads them (client/errors.go FromServerMessage *)
(* 74-92, startsWithAuthPrefix 94-107 and splitBracketCode 109-126).       *)
(***************************************************************************)
EXTENDS MCText, SequenceTheorems, WellFoundedInduction, TLAPS

\* The order of the naturals as a set of pairs, for the theorem on well-founded relations.
Less == {ss \in Nat \X Nat : ss[1] < ss[2]}

LEMMA LessIsWellFounded == IsWellFoundedOn(Less, Nat)
BY NatLessThanWellFounded, Zenon DEF OpToRel, Less

\* A set of naturals that is not empty has a least element.
LEMMA LeastElement ==
  ASSUME NEW T \in SUBSET Nat, T # {}
  PROVE  \E x \in T : \A y \in T : x <= y
<1>1. \E x \in T : \A y \in T : <<y, x>> \notin Less
  BY LessIsWellFounded, WFMin
<1>2. ASSUME NEW x \in T, NEW y \in T, <<y, x>> \notin Less
      PROVE  x <= y
  BY <1>2 DEF Less
<1> QED BY <1>1, <1>2

\* strings.IndexByte: the first place of a symbol, or 0.
LEMMA AtIs ==
  ASSUME NEW T, NEW s \in Seq(T), NEW c
  PROVE  /\ At(s, c) \in 0..Len(s)
         /\ At(s, c) = 0 => \A i \in 1..Len(s) : s[i] # c
         /\ At(s, c) # 0 => s[At(s, c)] = c /\ \A i \in 1..(At(s, c) - 1) : s[i] # c
<1> DEFINE I == {i \in 1..Len(s) : s[i] = c}
<1>1. At(s, c) = IF I # {} THEN Min(I) ELSE 0
  BY DEF At, SelectInSeq
<1>2. Len(s) \in Nat
  OBVIOUS
<1>3. CASE I = {}
  BY <1>1, <1>2, <1>3
<1>4. CASE I # {}
  <2>1. I \in SUBSET Nat
    BY <1>2
  <2>2. \E n \in I : \A m \in I : n <= m
    <3> HIDE DEF I
    <3> QED BY <1>4, <2>1, LeastElement
  <2>3. At(s, c) \in I /\ \A m \in I : At(s, c) <= m
    <3> HIDE DEF I
    <3> QED BY <1>1, <1>4, <2>2 DEF Min
  <2>4. At(s, c) \in 1..Len(s) /\ s[At(s, c)] = c
    BY <2>3
  <2>5. ASSUME NEW i \in 1..(At(s, c) - 1), s[i] = c PROVE FALSE
    <3>1. i \in 1..Len(s) /\ ~(At(s, c) <= i)
      BY <1>2, <2>4
    <3> QED BY <2>3, <2>5, <3>1
  <2> QED BY <1>2, <2>4, <2>5
<1> QED BY <1>3, <1>4

\* The first place is the only one with no such symbol before it.
LEMMA AtUnique ==
  ASSUME NEW T, NEW s \in Seq(T), NEW c, NEW n \in 1..Len(s), s[n] = c,
         \A i \in 1..(n - 1) : s[i] # c
  PROVE  At(s, c) = n
<1> DEFINE a == At(s, c)
<1>1. Len(s) \in Nat /\ n \in Nat
  OBVIOUS
<1>2. /\ a \in 0..Len(s)
      /\ a = 0 => \A i \in 1..Len(s) : s[i] # c
      /\ a # 0 => s[a] = c /\ \A i \in 1..(a - 1) : s[i] # c
  BY AtIs
<1> HIDE DEF a
<1>3. a # 0
  BY <1>2
<1>4. ~(n < a)
  BY <1>1, <1>2, <1>3
<1>5. ~(a < n)
  BY <1>1, <1>2, <1>3
<1>6. a = n
  BY <1>1, <1>2, <1>3, <1>4, <1>5
<1> QED BY <1>6 DEF a

\* A cut within a sequence: its symbols, its length, its places.
LEMMA CutIs ==
  ASSUME NEW T, NEW a \in Seq(T), NEW h \in Nat, NEW n \in Nat, h + n <= Len(a)
  PROVE  /\ SubSeq(a, h + 1, h + n) \in Seq(T)
         /\ Len(SubSeq(a, h + 1, h + n)) = n
         /\ \A i \in 1..n : SubSeq(a, h + 1, h + n)[i] = a[h + i]
<1> DEFINE m == h + 1
           k == h + n
<1>1. Len(a) \in Nat /\ \A i \in 1..Len(a) : a[i] \in T
  OBVIOUS
<1>2. \A i \in m..k : a[i] \in T
  BY <1>1
<1>3. m \in Int /\ k \in Int /\ k - m + 1 = n /\ (IF m <= k THEN k - m + 1 ELSE 0) = n
  OBVIOUS
<1>4. \A i \in 1..n : m + i - 1 = h + i
  OBVIOUS
<1> HIDE DEF m, k
<1>5. /\ SubSeq(a, m, k) \in Seq(T)
      /\ Len(SubSeq(a, m, k)) = n
      /\ \A i \in 1..n : SubSeq(a, m, k)[i] = a[m + i - 1]
  <2> DEFINE s == SubSeq(a, m, k)
  <2>1. /\ s \in Seq(T)
        /\ Len(s) = IF m <= k THEN k - m + 1 ELSE 0
        /\ \A i \in 1..(k - m + 1) : s[i] = a[m + i - 1]
    BY <1>2, <1>3, SubSeqProperties
  <2> HIDE DEF s
  <2>2. s \in Seq(T) /\ Len(s) = n /\ \A i \in 1..n : s[i] = a[m + i - 1]
    BY <1>3, <2>1
  <2> QED BY <2>2 DEF s
<1> QED BY <1>4, <1>5 DEF m, k

\* Sequences with the same symbols at the same places are the same.
LEMMA SameSeq ==
  ASSUME NEW T, NEW a \in Seq(T), NEW b \in Seq(T), Len(a) = Len(b),
         \A i \in 1..Len(a) : a[i] = b[i]
  PROVE  a = b
BY SeqEqual

\* splitBracketCode of m finds the code c and what follows it is r.
SplitsInto(m, c, r) ==
  LET end == At(m, "]")
  IN  /\ m # <<>> /\ m[1] = "[" /\ end > 2 /\ end < Len(m) /\ m[end + 1] = " "
      /\ c = SubSeq(m, 2, end - 1) /\ r = SubSeq(m, end + 2, Len(m))
      /\ \A i \in 1..Len(c) : c[i] \notin White

\* The same form as the definition's, with the search by its name.
LEMMA SplitDef ==
  ASSUME NEW m
  PROVE  SplitBracketCode(m) =
           IF /\ Begins(m, "[") /\ At(m, "]") # 0
              /\ SubSeq(m, 2, At(m, "]") - 1) # <<>>
              /\ \A i \in DOMAIN SubSeq(m, 2, At(m, "]") - 1) :
                    SubSeq(m, 2, At(m, "]") - 1)[i] \notin White
              /\ Begins(SubSeq(m, At(m, "]") + 1, Len(m)), " ")
             THEN [code |-> SubSeq(m, 2, At(m, "]") - 1),
                   rest |-> Tail(SubSeq(m, At(m, "]") + 1, Len(m)))]
             ELSE NoCode(m)
BY DEF SplitBracketCode, At

\* What is left of a sequence after its first n symbols.
LEMMA TailIs ==
  ASSUME NEW T, NEW m \in Seq(T), NEW n \in 0..Len(m)
  PROVE  /\ SubSeq(m, n + 1, Len(m)) \in Seq(T)
         /\ Len(SubSeq(m, n + 1, Len(m))) = Len(m) - n
         /\ \A i \in 1..(Len(m) - n) : SubSeq(m, n + 1, Len(m))[i] = m[n + i]
<1> DEFINE k == Len(m) - n
<1>1. k \in Nat /\ n \in Nat /\ n + k <= Len(m) /\ n + k = Len(m)
  OBVIOUS
<1> HIDE DEF k
<1>2. /\ SubSeq(m, n + 1, n + k) \in Seq(T)
      /\ Len(SubSeq(m, n + 1, n + k)) = k
      /\ \A i \in 1..k : SubSeq(m, n + 1, n + k)[i] = m[n + i]
  BY <1>1, CutIs
<1>3. n + k = Len(m)
  BY <1>1
<1> QED BY <1>2, <1>3, Zenon DEF k

\* splitBracketCode answers with the code and the rest when there are such, and with the
\* message as it came when there are none.
LEMMA SplitIs ==
  ASSUME NEW T, NEW m \in Seq(T)
  PROVE  \/ \E c \in Seq(T), r \in Seq(T) :
              SplitsInto(m, c, r) /\ c # <<>> /\ SplitBracketCode(m) = [code |-> c, rest |-> r]
         \/ (\A c, r : ~SplitsInto(m, c, r)) /\ SplitBracketCode(m) = NoCode(m)
<1> DEFINE end == At(m, "]")
           l == Len(m)
           c == SubSeq(m, 2, end - 1)
           after == SubSeq(m, end + 1, Len(m))
           r == SubSeq(m, end + 2, Len(m))
           P == /\ Begins(m, "[") /\ end # 0
                /\ c # <<>> /\ (\A i \in DOMAIN c : c[i] \notin White)
                /\ Begins(after, " ")
<1>1. SplitBracketCode(m) = IF P THEN [code |-> c, rest |-> Tail(after)] ELSE NoCode(m)
  BY SplitDef
<1>2. l \in Nat /\ end \in 0..l
  BY AtIs
<1>3. ASSUME end > 2
      PROVE  /\ c \in Seq(T) /\ Len(c) = end - 2 /\ DOMAIN c = 1..Len(c)
             /\ \A i \in 1..(end - 2) : c[i] = m[1 + i]
  <2> HIDE DEF end
  <2>1. /\ end - 2 \in Nat /\ 1 + (end - 2) <= Len(m) /\ 1 \in Nat
        /\ 1 + (end - 2) = end - 1 /\ 1 + 1 = 2
    BY <1>2, <1>3
  <2>2. /\ SubSeq(m, 1 + 1, 1 + (end - 2)) \in Seq(T)
        /\ Len(SubSeq(m, 1 + 1, 1 + (end - 2))) = end - 2
        /\ \A i \in 1..(end - 2) : SubSeq(m, 1 + 1, 1 + (end - 2))[i] = m[1 + i]
    BY <2>1, CutIs
  <2>3. c \in Seq(T) /\ Len(c) = end - 2 /\ \A i \in 1..(end - 2) : c[i] = m[1 + i]
    BY <2>1, <2>2
  <2> HIDE DEF c
  <2> QED BY <2>3
<1>4. end <= 2 => c = <<>>
  BY <1>2, SubSeqEmpty
<1>5. /\ after \in Seq(T) /\ Len(after) = l - end
      /\ \A i \in 1..(l - end) : after[i] = m[end + i]
  BY <1>2, TailIs
<1>6. ASSUME end < l
      PROVE  r \in Seq(T) /\ Tail(after) = r
  <2>1. end + 1 \in 0..Len(m) /\ (end + 1) + 1 = end + 2
    BY <1>2, <1>6
  <2>2. /\ SubSeq(m, (end + 1) + 1, Len(m)) \in Seq(T)
        /\ Len(SubSeq(m, (end + 1) + 1, Len(m))) = Len(m) - (end + 1)
        /\ \A i \in 1..(Len(m) - (end + 1)) : SubSeq(m, (end + 1) + 1, Len(m))[i] = m[(end + 1) + i]
    <3> HIDE DEF end
    <3> QED BY <2>1, TailIs
  <2>3. /\ r \in Seq(T) /\ Len(r) = l - (end + 1)
        /\ \A i \in 1..(l - (end + 1)) : r[i] = m[(end + 1) + i]
    BY <2>1, <2>2
  <2> HIDE DEF end, after, r, l
  <2>4. Len(after) # 0 /\ after # <<>>
    BY <1>2, <1>5, <1>6
  <2>5. /\ Tail(after) \in Seq(T) /\ Len(Tail(after)) = Len(after) - 1
        /\ \A i \in 1..Len(Tail(after)) : Tail(after)[i] = after[i + 1]
    BY <1>5, <2>4
  <2> DEFINE t == Tail(after)
  <2>6. t \in Seq(T) /\ Len(t) = l - (end + 1) /\ \A i \in 1..Len(t) : t[i] = after[i + 1]
    BY <1>2, <1>5, <2>5
  <2> HIDE DEF t
  <2>7. ASSUME NEW i \in 1..Len(t) PROVE t[i] = r[i]
    <3>1. i + 1 \in 1..(l - end) /\ end + (i + 1) = (end + 1) + i /\ i \in 1..(l - (end + 1))
      BY <1>2, <1>6, <2>6
    <3> QED BY <1>5, <2>3, <2>6, <3>1
  <2>8. t = r
    BY <2>3, <2>6, <2>7, SameSeq
  <2> QED BY <2>3, <2>8 DEF t
<1>7. CASE P
  <2>1. /\ Begins(m, "[") /\ end # 0 /\ c # <<>>
        /\ \A i \in DOMAIN c : c[i] \notin White
    BY <1>7
  <2>2. Begins(after, " ")
    BY <1>7
  <2>3. end > 2
    <3> HIDE DEF c, end, l
    <3> QED BY <1>2, <1>4, <2>1
  <2>4. end < l /\ m[end + 1] = " "
    <3> HIDE DEF after, end, l, c, P
    <3>1. after # <<>> /\ after[1] = " "
      BY <2>2 DEF Begins
    <3>2. Len(after) # 0
      BY <1>5, <3>1, EmptySeq
    <3>3. end < l /\ 1 \in 1..(l - end)
      BY <1>2, <1>5, <3>2
    <3>4. after[1] = m[end + 1]
      BY <1>5, <3>3
    <3> QED BY <3>1, <3>3, <3>4
  <2>5. m # <<>> /\ m[1] = "["
    BY <2>1 DEF Begins
  <2>6. \A i \in 1..Len(c) : c[i] \notin White
    <3> HIDE DEF c, end, P
    <3> QED BY <1>3, <2>1, <2>3
  <2>7. SplitsInto(m, c, r)
    BY <2>3, <2>4, <2>5, <2>6 DEF SplitsInto
  <2>8. SplitBracketCode(m) = [code |-> c, rest |-> r]
    <3> HIDE DEF c, r, end, after, l
    <3> QED BY <1>1, <1>6, <1>7, <2>4
  <2>9. c \in Seq(T) /\ r \in Seq(T)
    <3> HIDE DEF c, r, end, after, l, P
    <3> QED BY <1>3, <1>6, <2>3, <2>4
  <2> HIDE DEF c, r, P
  <2> QED BY <2>1, <2>7, <2>8, <2>9
<1>8. CASE ~P
  <2>1. SplitBracketCode(m) = NoCode(m)
    BY <1>1, <1>8
  <2>2. ASSUME NEW d, NEW q, SplitsInto(m, d, q) PROVE P
    <3>1. /\ m # <<>> /\ m[1] = "[" /\ end > 2 /\ end < l /\ m[end + 1] = " "
          /\ d = c /\ \A i \in 1..Len(d) : d[i] \notin White
      BY <2>2 DEF SplitsInto
    <3>0. end > 2
      BY <3>1
    <3>2. Begins(after, " ")
      <4> HIDE DEF after, end, l, c, P
      <4>0. end < l
        BY <3>1
      <4>1. 1 \in 1..(l - end) /\ Len(after) # 0
        BY <1>2, <1>5, <4>0
      <4>2. after[1] = m[end + 1]
        BY <1>5, <4>1
      <4>3. after # <<>>
        BY <4>1
      <4> QED BY <3>1, <4>2, <4>3 DEF Begins
    <3>3. c # <<>> /\ \A i \in DOMAIN c : c[i] \notin White
      <4> HIDE DEF c, end, l, after, P
      <4>1. DOMAIN c = 1..Len(c) /\ Len(c) = end - 2
        BY <1>3, <3>1
      <4>2. Len(c) # 0
        <5> HIDE DEF P
        <5> QED BY <3>0, <4>1, <1>2
      <4>3. c # <<>>
        BY <4>2
      <4> QED BY <3>1, <4>1, <4>3
    <3>4. Begins(m, "[")
      BY <3>1 DEF Begins
    <3>5. end # 0
      <4> HIDE DEF c, end, l, after, P
      <4> QED BY <1>2, <3>0
    <3> HIDE DEF c, after, end
    <3> QED BY <3>2, <3>3, <3>4, <3>5
  <2> QED BY <1>8, <2>1, <2>2
<1> QED BY <1>7, <1>8

\* o, c, p, q and r one after another.
Joined(o, p, q, c, r) == <<o>> \o c \o <<p, q>> \o r

\* m is o, c, p, q and r, read off by places.
Consists(T, m, o, p, q, c, r) ==
  /\ m \in Seq(T) /\ Len(m) = Len(c) + 3 + Len(r)
  /\ m[1] = o
  /\ \A i \in 1..Len(c) : m[i + 1] = c[i]
  /\ m[Len(c) + 2] = p /\ m[Len(c) + 3] = q
  /\ \A i \in 1..Len(r) : m[Len(c) + 3 + i] = r[i]

\* A message put together has its parts at their places.
LEMMA JoinedIs ==
  ASSUME NEW T, NEW o \in T, NEW p \in T, NEW q \in T, NEW c \in Seq(T), NEW r \in Seq(T)
  PROVE  Consists(T, Joined(o, p, q, c, r), o, p, q, c, r)
<1> DEFINE a == <<o>>
           b == a \o c
           d == <<p, q>>
           e == b \o d
           j == e \o r
<1>1. a \in Seq(T) /\ d \in Seq(T) /\ Len(a) = 1 /\ Len(d) = 2
      /\ a[1] = o /\ d[1] = p /\ d[2] = q
  OBVIOUS
<1>2. Len(c) \in Nat /\ Len(r) \in Nat
  OBVIOUS
<1>3. /\ b \in Seq(T) /\ Len(b) = 1 + Len(c) /\ b[1] = o
      /\ \A i \in 1..Len(c) : b[i + 1] = c[i]
  <2> HIDE DEF a, d
  <2>0. /\ b \in Seq(T) /\ Len(b) = Len(a) + Len(c)
        /\ \A i \in 1..(Len(a) + Len(c)) : b[i] = IF i <= Len(a) THEN a[i] ELSE c[i - Len(a)]
    BY <1>1, ConcatProperties
  <2>1. b \in Seq(T) /\ Len(b) = 1 + Len(c)
    BY <1>1, <2>0
  <2>2. \A i \in 1..(1 + Len(c)) : b[i] = IF i <= 1 THEN a[i] ELSE c[i - 1]
    BY <1>1, <2>0
  <2> HIDE DEF b
  <2>3. b[1] = o
    <3>1. 1 \in 1..(1 + Len(c))
      BY <1>2
    <3> QED BY <1>1, <2>2, <3>1
  <2>4. ASSUME NEW i \in 1..Len(c) PROVE b[i + 1] = c[i]
    <3>1. i + 1 \in 1..(1 + Len(c)) /\ ~(i + 1 <= 1) /\ (i + 1) - 1 = i
      BY <1>2
    <3> QED BY <2>2, <3>1
  <2> QED BY <2>1, <2>3, <2>4
<1> HIDE DEF b
<1>4. /\ e \in Seq(T) /\ Len(e) = Len(c) + 3
      /\ \A i \in 1..(Len(c) + 1) : e[i] = b[i]
      /\ e[Len(c) + 2] = p /\ e[Len(c) + 3] = q
  <2> HIDE DEF a, d
  <2>0. /\ e \in Seq(T) /\ Len(e) = Len(b) + Len(d)
        /\ \A i \in 1..(Len(b) + Len(d)) : e[i] = IF i <= Len(b) THEN b[i] ELSE d[i - Len(b)]
    BY <1>1, <1>3, ConcatProperties
  <2> HIDE DEF e
  <2> DEFINE k == Len(c)
  <2>1. e \in Seq(T) /\ Len(e) = k + 3 /\ Len(b) = k + 1 /\ Len(b) + Len(d) = k + 3
    <3>1. k \in Nat /\ Len(b) = 1 + k
      BY <1>2, <1>3
    <3> HIDE DEF k
    <3> QED BY <1>1, <2>0, <3>1
  <2>2. \A i \in 1..(k + 3) : e[i] = IF i <= k + 1 THEN b[i] ELSE d[i - (k + 1)]
    <3> HIDE DEF k
    <3> QED BY <2>0, <2>1
  <2>3. k \in Nat /\ \A i \in 1..(k + 3) : e[i] = IF i <= k + 1 THEN b[i] ELSE d[i - (k + 1)]
    BY <1>2, <2>2
  <2> HIDE DEF k
  <2>4. \A i \in 1..(k + 1) : e[i] = b[i]
    BY <2>3
  <2>5. /\ k + 2 \in 1..(k + 3) /\ ~(k + 2 <= k + 1) /\ (k + 2) - (k + 1) = 1
        /\ k + 3 \in 1..(k + 3) /\ ~(k + 3 <= k + 1) /\ (k + 3) - (k + 1) = 2
    BY <2>3
  <2>6. e[k + 2] = d[1] /\ e[k + 3] = d[2]
    BY <2>3, <2>5
  <2> QED BY <1>1, <2>1, <2>4, <2>6 DEF k
<1> HIDE DEF e
<1>5. /\ j \in Seq(T) /\ Len(j) = Len(c) + 3 + Len(r)
      /\ \A i \in 1..(Len(c) + 3) : j[i] = e[i]
      /\ \A i \in 1..Len(r) : j[Len(c) + 3 + i] = r[i]
  <2>0. /\ j \in Seq(T) /\ Len(j) = Len(e) + Len(r)
        /\ \A i \in 1..(Len(e) + Len(r)) : j[i] = IF i <= Len(e) THEN e[i] ELSE r[i - Len(e)]
    BY <1>4, ConcatProperties
  <2> DEFINE k == Len(c) + 3
             l == Len(r)
  <2>1. j \in Seq(T) /\ Len(j) = k + l /\ Len(e) = k
    BY <1>4, <2>0
  <2>2. k \in Nat /\ l \in Nat
    BY <1>2
  <2>3. \A i \in 1..(k + l) : j[i] = IF i <= k THEN e[i] ELSE r[i - k]
    BY <2>0, <2>1
  <2> HIDE DEF j, k, l
  <2>4. \A i \in 1..k : j[i] = e[i]
    BY <2>2, <2>3
  <2>5. ASSUME NEW i \in 1..l PROVE j[k + i] = r[i]
    <3>1. k + i \in 1..(k + l) /\ ~(k + i <= k) /\ (k + i) - k = i
      BY <2>2
    <3> QED BY <2>3, <3>1
  <2> QED BY <2>1, <2>4, <2>5 DEF k, l
<1>6. Joined(o, p, q, c, r) = j
  BY DEF Joined, e, b
<1> HIDE DEF j, a, d
<1>7. 1 \in 1..(Len(c) + 3) /\ 1 \in 1..(Len(c) + 1) /\ Len(c) + 2 \in 1..(Len(c) + 3)
      /\ Len(c) + 3 \in 1..(Len(c) + 3)
  BY <1>2
<1>8. j[1] = o
  BY <1>3, <1>4, <1>5, <1>7
<1>9. j[Len(c) + 2] = p /\ j[Len(c) + 3] = q
  BY <1>4, <1>5, <1>7
<1>10. ASSUME NEW i \in 1..Len(c) PROVE j[i + 1] = c[i]
  <2>1. i + 1 \in 1..(Len(c) + 3) /\ i + 1 \in 1..(Len(c) + 1)
    BY <1>2
  <2> QED BY <1>3, <1>4, <1>5, <2>1
<1> QED BY <1>5, <1>6, <1>8, <1>9, <1>10 DEF Consists

\* m is o, c up to p at place e, q and r.
Parted(m, o, p, q, e, c, r) ==
  /\ 2 < e /\ e < Len(m)
  /\ m[1] = o /\ m[e] = p /\ m[e + 1] = q
  /\ c = SubSeq(m, 2, e - 1) /\ r = SubSeq(m, e + 2, Len(m))

\* The parts of a message that was put together are found again ...
LEMMA JoinedCut ==
  ASSUME NEW T, NEW o \in T, NEW p \in T, NEW q \in T, o # p, NEW c \in Seq(T), NEW r \in Seq(T),
         c # <<>>, \A i \in 1..Len(c) : c[i] # p,
         NEW m, m = Joined(o, p, q, c, r)
  PROVE  At(m, p) = Len(c) + 2 /\ Parted(m, o, p, q, Len(c) + 2, c, r)
<1> DEFINE k == Len(c)
           l == Len(r)
<1>1. k \in Nat /\ l \in Nat
  OBVIOUS
<1>2. /\ m \in Seq(T) /\ Len(m) = k + 3 + l /\ m[1] = o
      /\ \A i \in 1..k : m[i + 1] = c[i]
      /\ m[k + 2] = p /\ m[k + 3] = q
      /\ \A i \in 1..l : m[k + 3 + i] = r[i]
  <2>1. Consists(T, m, o, p, q, c, r)
    BY JoinedIs, Zenon
  <2> QED BY <2>1, Zenon DEF Consists
<1> HIDE DEF k, l
<1>3. k # 0
  BY EmptySeq DEF k
<1>4. At(m, p) = k + 2
  <2>1. k + 2 \in 1..Len(m)
    BY <1>1, <1>2
  <2>2. ASSUME NEW i \in 1..((k + 2) - 1) PROVE m[i] # p
    <3>1. CASE i = 1
      BY <1>2, <3>1
    <3>2. CASE i # 1
      <4>1. i - 1 \in 1..k /\ (i - 1) + 1 = i
        BY <1>1, <3>2
      <4>2. c[i - 1] # p
        BY <4>1 DEF k
      <4> QED BY <1>2, <4>1, <4>2
    <3> QED BY <3>1, <3>2
  <2> DEFINE n == k + 2
  <2>3. n \in 1..Len(m) /\ m[n] = p /\ \A i \in 1..(n - 1) : m[i] # p
    BY <1>2, <2>1, <2>2
  <2> HIDE DEF n
  <2>4. At(m, p) = n
    BY <1>2, <2>3, AtUnique
  <2> QED BY <2>4 DEF n
<1>5. c = SubSeq(m, 2, k + 1)
  <2>1. 1 \in Nat /\ 1 + k <= Len(m) /\ 1 + 1 = 2 /\ 1 + k = k + 1
    BY <1>1, <1>2
  <2>2. /\ SubSeq(m, 1 + 1, 1 + k) \in Seq(T) /\ Len(SubSeq(m, 1 + 1, 1 + k)) = k
        /\ \A i \in 1..k : SubSeq(m, 1 + 1, 1 + k)[i] = m[1 + i]
    BY <1>1, <1>2, <2>1, CutIs
  <2> DEFINE s == SubSeq(m, 2, k + 1)
  <2>3. s \in Seq(T) /\ Len(s) = k /\ \A i \in 1..k : s[i] = m[1 + i]
    BY <2>1, <2>2
  <2> HIDE DEF s
  <2>4. ASSUME NEW i \in 1..k PROVE c[i] = s[i]
    <3>1. 1 + i = i + 1
      BY <1>1
    <3>2. s[i] = m[1 + i]
      BY <2>3
    <3>3. m[i + 1] = c[i]
      BY <1>2
    <3> QED BY <3>1, <3>2, <3>3
  <2>5. c = s
    BY <2>3, <2>4, SameSeq DEF k
  <2> QED BY <2>5 DEF s
<1>6. r = SubSeq(m, k + 4, Len(m))
  <2>1. k + 3 \in 0..Len(m) /\ (k + 3) + 1 = k + 4 /\ Len(m) - (k + 3) = l
    BY <1>1, <1>2
  <2> DEFINE n == k + 3
             s == SubSeq(m, n + 1, Len(m))
  <2>2. n \in 0..Len(m)
    BY <2>1
  <2>3. s \in Seq(T) /\ Len(s) = Len(m) - n /\ \A i \in 1..(Len(m) - n) : s[i] = m[n + i]
    <3> HIDE DEF n
    <3>1. /\ s \in Seq(T) /\ Len(s) = Len(m) - n
          /\ \A i \in 1..(Len(m) - n) : s[i] = m[n + i]
      BY <1>2, <2>2, TailIs
    <3> QED BY <3>1, Zenon
  <2> HIDE DEF s
  <2>4. s \in Seq(T) /\ Len(s) = l /\ \A i \in 1..l : s[i] = m[k + 3 + i]
    BY <2>1, <2>3
  <2>5. ASSUME NEW i \in 1..l PROVE r[i] = s[i]
    BY <1>2, <2>4
  <2>6. r = s
    BY <2>4, <2>5, SameSeq DEF l
  <2> QED BY <2>1, <2>6 DEF s
<1>7. /\ k + 2 < Len(m) /\ 2 < k + 2
      /\ (k + 2) + 1 = k + 3 /\ (k + 2) - 1 = k + 1 /\ (k + 2) + 2 = k + 4
  BY <1>1, <1>2, <1>3
<1>8. Parted(m, o, p, q, k + 2, c, r)
  BY <1>2, <1>5, <1>6, <1>7 DEF Parted
<1> QED BY <1>4, <1>8 DEF k

\* ... and the parts that are found, put together, are the message.
LEMMA CutJoined ==
  ASSUME NEW T, NEW o \in T, NEW p \in T, NEW q \in T, NEW m \in Seq(T), NEW e \in Nat,
         NEW c, NEW r, Parted(m, o, p, q, e, c, r)
  PROVE  c \in Seq(T) /\ r \in Seq(T) /\ Len(c) = e - 2 /\ m = Joined(o, p, q, c, r)
<1>0. /\ 2 < e /\ e < Len(m)
      /\ m[1] = o /\ m[e] = p /\ m[e + 1] = q
      /\ c = SubSeq(m, 2, e - 1) /\ r = SubSeq(m, e + 2, Len(m))
  BY DEF Parted
<1> DEFINE l == Len(m)
<1>1. l \in Nat /\ e \in Nat /\ 2 < e /\ e < l
  BY <1>0
<1>2. c \in Seq(T) /\ Len(c) = e - 2 /\ \A i \in 1..(e - 2) : c[i] = m[1 + i]
  <2>1. 1 \in Nat /\ e - 2 \in Nat /\ 1 + (e - 2) <= Len(m) /\ 1 + 1 = 2 /\ 1 + (e - 2) = e - 1
    BY <1>0
  <2>2. /\ SubSeq(m, 1 + 1, 1 + (e - 2)) \in Seq(T) /\ Len(SubSeq(m, 1 + 1, 1 + (e - 2))) = e - 2
        /\ \A i \in 1..(e - 2) : SubSeq(m, 1 + 1, 1 + (e - 2))[i] = m[1 + i]
    BY <2>1, CutIs
  <2> QED BY <1>0, <2>1, <2>2
<1>3. r \in Seq(T) /\ Len(r) = l - (e + 1) /\ \A i \in 1..(l - (e + 1)) : r[i] = m[(e + 1) + i]
  <2> DEFINE n == e + 1
  <2>1. n \in 0..Len(m) /\ n + 1 = e + 2
    BY <1>1
  <2>2. /\ SubSeq(m, n + 1, Len(m)) \in Seq(T) /\ Len(SubSeq(m, n + 1, Len(m))) = Len(m) - n
        /\ \A i \in 1..(Len(m) - n) : SubSeq(m, n + 1, Len(m))[i] = m[n + i]
    <3> HIDE DEF n
    <3> QED BY <2>1, TailIs
  <2> QED BY <1>0, <2>1, <2>2
<1> DEFINE j == Joined(o, p, q, c, r)
           k == Len(c)
<1>4. /\ j \in Seq(T) /\ Len(j) = k + 3 + Len(r) /\ j[1] = o
      /\ \A i \in 1..k : j[i + 1] = c[i]
      /\ j[k + 2] = p /\ j[k + 3] = q
      /\ \A i \in 1..Len(r) : j[k + 3 + i] = r[i]
  <2>1. Consists(T, j, o, p, q, c, r)
    BY <1>2, <1>3, JoinedIs, Zenon
  <2> HIDE DEF j
  <2> QED BY <2>1, Zenon DEF Consists
<1> HIDE DEF j, l
<1>5. k = e - 2 /\ k + 2 = e /\ k + 3 = e + 1 /\ Len(r) = l - (e + 1)
  <2>1. k = e - 2 /\ Len(r) = l - (e + 1)
    BY <1>2, <1>3
  <2> HIDE DEF k
  <2> QED BY <1>1, <2>1
<1> HIDE DEF k
<1>6. Len(j) = l
  <2>1. Len(j) = k + 3 + Len(r)
    BY <1>4
  <2> QED BY <1>1, <1>5, <2>1
<1>7. ASSUME NEW i \in 1..l PROVE m[i] = j[i]
  <2>1. CASE i = 1
    BY <1>0, <1>4, <2>1
  <2>2. CASE i > 1 /\ i < e
    <3>1. i - 1 \in 1..k /\ i - 1 \in 1..(e - 2) /\ (i - 1) + 1 = i /\ 1 + (i - 1) = i
      BY <1>1, <1>5, <2>2
    <3> QED BY <1>2, <1>4, <3>1
  <2>3. CASE i = e
    BY <1>0, <1>4, <1>5, <2>3
  <2>4. CASE i = e + 1
    BY <1>0, <1>4, <1>5, <2>4
  <2>5. CASE i > e + 1
    <3> DEFINE x == i - (e + 1)
    <3>1. x \in 1..(l - (e + 1)) /\ (e + 1) + x = i
      BY <1>1, <2>5
    <3> HIDE DEF x
    <3>2. x \in 1..Len(r) /\ k + 3 + x = i
      BY <1>5, <3>1
    <3> QED BY <1>3, <1>4, <3>1, <3>2
  <2>6. i = 1 \/ (i > 1 /\ i < e) \/ i = e \/ i = e + 1 \/ i > e + 1
    BY <1>1
  <2> QED BY <2>1, <2>2, <2>3, <2>4, <2>5, <2>6
<1>8. m = j
  BY <1>4, <1>6, <1>7, SameSeq DEF l
<1> QED BY <1>2, <1>3, <1>8 DEF j

\* The symbols splitBracketCode looks for.
Marks == {"[", "]", " "}

\* "[c] r" with a machine-readable c is what splitBracketCode recognises, no more, no less.
LEMMA CodedIffSplits ==
  ASSUME NEW T, Marks \subseteq T, NEW m \in Seq(T), NEW c \in Seq(T), NEW r \in Seq(T)
  PROVE  Coded(m, c, r) <=> SplitsInto(m, c, r)
<1> DEFINE o == "["
           p == "]"
           q == " "
<1>1. o \in T /\ p \in T /\ q \in T /\ o # p
  BY DEF Marks
<1>2. Coded(m, c, r) <=> /\ m = Joined(o, p, q, c, r) /\ c # <<>>
                         /\ \A i \in DOMAIN c : c[i] \notin White /\ c[i] # p
  BY Zenon DEF Coded, Joined
<1>3. DOMAIN c = 1..Len(c) /\ (c # <<>> <=> Len(c) # 0) /\ Len(c) \in Nat
  BY EmptySeq
<1>4. SplitsInto(m, c, r) <=>
        /\ m # <<>> /\ m[1] = o /\ At(m, p) > 2 /\ At(m, p) < Len(m) /\ m[At(m, p) + 1] = q
        /\ c = SubSeq(m, 2, At(m, p) - 1) /\ r = SubSeq(m, At(m, p) + 2, Len(m))
        /\ \A i \in 1..Len(c) : c[i] \notin White
  BY Zenon DEF SplitsInto
<1> HIDE DEF o, p, q
<1>5. ASSUME Coded(m, c, r) PROVE SplitsInto(m, c, r)
  <2>1. /\ m = Joined(o, p, q, c, r) /\ c # <<>>
        /\ (\A i \in 1..Len(c) : c[i] # p) /\ \A i \in 1..Len(c) : c[i] \notin White
    BY <1>2, <1>3, <1>5
  <2>2. At(m, p) = Len(c) + 2 /\ Parted(m, o, p, q, Len(c) + 2, c, r)
    BY <1>1, <2>1, JoinedCut
  <2> DEFINE e == At(m, p)
  <2>3. Parted(m, o, p, q, e, c, r)
    BY <2>2
  <2>4. m # <<>>
    <3>1. Len(m) # 0
      <4>1. 2 < e /\ e < Len(m) /\ e \in 0..Len(m) /\ Len(m) \in Nat
        BY <2>3, AtIs DEF Parted
      <4> HIDE DEF e
      <4> QED BY <4>1
    <3> QED BY <3>1, EmptySeq
  <2>5. e > 2
    <3>1. 2 < e /\ e \in 0..Len(m) /\ Len(m) \in Nat
      BY <2>3, AtIs DEF Parted
    <3> HIDE DEF e
    <3> QED BY <3>1
  <2> HIDE DEF e
  <2>6. /\ e < Len(m) /\ m[1] = o /\ m[e + 1] = q
        /\ c = SubSeq(m, 2, e - 1) /\ r = SubSeq(m, e + 2, Len(m))
    BY <2>3 DEF Parted
  <2> QED BY <1>4, <2>1, <2>4, <2>5, <2>6, Zenon DEF e
<1>6. ASSUME SplitsInto(m, c, r) PROVE Coded(m, c, r)
  <2> DEFINE e == At(m, p)
             l == Len(m)
  <2>1. e > 2 /\ e < l
    BY <1>4, <1>6, Zenon
  <2>2. /\ m # <<>> /\ m[1] = o /\ m[e + 1] = q
        /\ c = SubSeq(m, 2, e - 1) /\ r = SubSeq(m, e + 2, Len(m))
        /\ \A i \in 1..Len(c) : c[i] \notin White
    BY <1>4, <1>6, Zenon
  <2>3. e \in 0..l /\ (e # 0 => m[e] = p /\ \A i \in 1..(e - 1) : m[i] # p)
    BY AtIs, Zenon
  <2>4. e \in Nat /\ 2 < e /\ e < Len(m)
    <3>1. l \in Nat
      OBVIOUS
    <3>2. e \in 0..l
      BY <2>3
    <3> HIDE DEF e
    <3> QED BY <2>1, <3>1, <3>2
  <2>5. m[e] = p /\ \A i \in 1..(e - 1) : m[i] # p
    <3>1. e # 0
      <4> HIDE DEF e
      <4> QED BY <2>4
    <3> QED BY <2>3, <3>1, Zenon
  <2> HIDE DEF e
  <2>6. Len(c) = e - 2 /\ m = Joined(o, p, q, c, r)
    <3>1. Parted(m, o, p, q, e, c, r)
      BY <2>2, <2>4, <2>5 DEF Parted
    <3> QED BY <1>1, <2>4, <3>1, CutJoined
  <2>7. c # <<>>
    BY <1>3, <2>4, <2>6
  <2>8. c \in Seq(T) /\ \A i \in 1..(e - 2) : c[i] = m[1 + i]
    <3>1. 1 \in Nat /\ e - 2 \in Nat /\ 1 + (e - 2) <= Len(m) /\ 1 + 1 = 2 /\ 1 + (e - 2) = e - 1
      BY <2>4
    <3>2. \A i \in 1..(e - 2) : SubSeq(m, 1 + 1, 1 + (e - 2))[i] = m[1 + i]
      BY <3>1, CutIs
    <3> QED BY <2>2, <3>1, <3>2
  <2>9. ASSUME NEW i \in 1..Len(c) PROVE c[i] # p
    <3>1. i \in 1..(e - 2) /\ 1 + i \in 1..(e - 1)
      BY <2>4, <2>6
    <3> QED BY <2>5, <2>8, <3>1, Zenon
  <2> QED BY <1>2, <1>3, <2>2, <2>6, <2>7, <2>9, Zenon
<1> QED BY <1>5, <1>6

\* The cuts and the codes of ClassifiedRight, by name.
CutsOf(m) == {<<SubSeq(m, 2, i), SubSeq(m, i + 3, Len(m))>> : i \in 2..Len(m)}
CodesOf(m) == {p \in CutsOf(m) : Coded(m, p[1], p[2])}

\* Cuts of a message are messages.
LEMMA CutsTyped ==
  ASSUME NEW T, NEW m \in Seq(T), NEW p \in CutsOf(m)
  PROVE  p[1] \in Seq(T) /\ p[2] \in Seq(T) /\ p = <<p[1], p[2]>>
<1>1. PICK i \in 2..Len(m) : p = <<SubSeq(m, 2, i), SubSeq(m, i + 3, Len(m))>>
  BY DEF CutsOf
<1> DEFINE a == SubSeq(m, 2, i)
           b == SubSeq(m, i + 3, Len(m))
<1>2. Len(m) \in Nat /\ i \in Nat /\ \A j \in 1..Len(m) : m[j] \in T
  OBVIOUS
<1>3. a \in Seq(T)
  <2>1. \A j \in 2..i : m[j] \in T
    BY <1>2
  <2> QED BY <1>2, <2>1, SubSeqProperties
<1>4. b \in Seq(T)
  <2>1. \A j \in (i + 3)..Len(m) : m[j] \in T
    BY <1>2
  <2>2. i + 3 \in Int /\ Len(m) \in Int
    BY <1>2
  <2> QED BY <2>1, <2>2, SubSeqProperties
<1> HIDE DEF a, b
<1>5. p = <<a, b>>
  BY <1>1 DEF a, b
<1> QED BY <1>3, <1>4, <1>5

\* What splitBracketCode finds is one of the cuts.
LEMMA SplitsAreCuts ==
  ASSUME NEW T, NEW m \in Seq(T), NEW c, NEW r, SplitsInto(m, c, r)
  PROVE  <<c, r>> \in CutsOf(m)
<1> DEFINE e == At(m, "]")
           l == Len(m)
<1>1. e > 2 /\ e < l
  BY Zenon DEF SplitsInto
<1>2. c = SubSeq(m, 2, e - 1) /\ r = SubSeq(m, e + 2, Len(m))
  BY Zenon DEF SplitsInto
<1>3. e \in 0..l
  BY AtIs, Zenon
<1>4. l \in Nat
  OBVIOUS
<1> HIDE DEF e
<1>5. e - 1 \in 2..l /\ (e - 1) + 3 = e + 2
  <2> HIDE DEF l
  <2> QED BY <1>1, <1>3, <1>4
<1> QED BY <1>2, <1>5 DEF CutsOf

\* A message has at most one code.
LEMMA CodesAre ==
  ASSUME NEW T, Marks \subseteq T, NEW m \in Seq(T)
  PROVE  /\ \A c, r : SplitsInto(m, c, r) => CodesOf(m) = {<<c, r>>}
         /\ (\A c, r : ~SplitsInto(m, c, r)) => CodesOf(m) = {}
<1>1. ASSUME NEW p \in CodesOf(m) PROVE SplitsInto(m, p[1], p[2]) /\ p = <<p[1], p[2]>>
  <2>1. p \in CutsOf(m) /\ Coded(m, p[1], p[2])
    BY DEF CodesOf
  <2>2. p[1] \in Seq(T) /\ p[2] \in Seq(T) /\ p = <<p[1], p[2]>>
    BY <2>1, CutsTyped
  <2> QED BY <2>1, <2>2, CodedIffSplits, Zenon
<1>2. ASSUME NEW c, NEW r, SplitsInto(m, c, r) PROVE CodesOf(m) = {<<c, r>>}
  <2>1. <<c, r>> \in CutsOf(m)
    BY <1>2, SplitsAreCuts, Zenon
  <2>2. c \in Seq(T) /\ r \in Seq(T)
    <3> DEFINE p == <<c, r>>
    <3>1. p[1] \in Seq(T) /\ p[2] \in Seq(T)
      <4> HIDE DEF p
      <4>1. p \in CutsOf(m)
        BY <2>1 DEF p
      <4> QED BY <4>1, CutsTyped, Zenon
    <3> QED BY <3>1
  <2>3. <<c, r>> \in CodesOf(m)
    <3>1. Coded(m, c, r)
      BY <1>2, <2>2, CodedIffSplits, Zenon
    <3> QED BY <2>1, <3>1 DEF CodesOf
  <2>4. ASSUME NEW p \in CodesOf(m) PROVE p = <<c, r>>
    <3>1. SplitsInto(m, p[1], p[2]) /\ p = <<p[1], p[2]>>
      BY <1>1, Zenon
    <3>2. p[1] = c /\ p[2] = r
      BY <1>2, <3>1, Zenon DEF SplitsInto
    <3> QED BY <3>1, <3>2, Zenon
  <2> QED BY <2>3, <2>4, Zenon
<1>3. ASSUME \A c, r : ~SplitsInto(m, c, r) PROVE CodesOf(m) = {}
  BY <1>1, <1>3, Zenon
<1> QED BY <1>2, <1>3, Zenon

\* A prefix of two symbols is read off the first two places.
LEMMA PrefixOfTwo ==
  ASSUME NEW T, NEW m \in Seq(T), NEW a, NEW b
  PROVE  IsPrefix(<<a, b>>, m) <=> 2 <= Len(m) /\ m[1] = a /\ m[2] = b
<1> DEFINE p == <<a, b>>
           q == SubSeq(m, 1, 2)
<1>1. p \in Seq({a, b}) /\ Len(p) = 2 /\ p[1] = a /\ p[2] = b
  OBVIOUS
<1> HIDE DEF p
<1>2. SubSeq(p, 1, 2) = p
  BY <1>1, SubSeqFull
<1>3. IsPrefix(p, m) <=> 2 <= Len(m) /\ p = q
  BY <1>1, <1>2 DEF IsPrefix
<1>4. ASSUME 2 <= Len(m) PROVE q \in Seq(T) /\ Len(q) = 2 /\ q[1] = m[1] /\ q[2] = m[2]
  <2>1. 0 \in Nat /\ 2 \in Nat /\ 0 + 2 <= Len(m) /\ 0 + 1 = 1 /\ 0 + 2 = 2
    BY <1>4
  <2>2. /\ SubSeq(m, 0 + 1, 0 + 2) \in Seq(T) /\ Len(SubSeq(m, 0 + 1, 0 + 2)) = 2
        /\ \A i \in 1..2 : SubSeq(m, 0 + 1, 0 + 2)[i] = m[0 + i]
    BY <2>1, CutIs
  <2>3. q \in Seq(T) /\ Len(q) = 2 /\ \A i \in 1..2 : q[i] = m[0 + i]
    BY <2>1, <2>2
  <2> HIDE DEF q
  <2>4. 1 \in 1..2 /\ 2 \in 1..2 /\ 0 + 1 = 1 /\ 0 + 2 = 2
    OBVIOUS
  <2> QED BY <2>3, <2>4
<1> HIDE DEF q
<1>5. ASSUME 2 <= Len(m), m[1] = a, m[2] = b PROVE p = q
  <2>1. /\ p \in Seq({a, b} \cup T) /\ q \in Seq({a, b} \cup T) /\ Len(p) = 2 /\ Len(q) = 2
        /\ p[1] = q[1] /\ p[2] = q[2]
    BY <1>1, <1>4, <1>5
  <2>2. \A i \in 1..Len(p) : p[i] = q[i]
    BY <2>1
  <2> QED BY <2>1, <2>2, SameSeq
<1> QED BY <1>1, <1>3, <1>4, <1>5 DEF p

\* The shortest messages by their length.
LEMMA OneOnly ==
  ASSUME NEW T, NEW m \in Seq(T), NEW a
  PROVE  /\ m = <<a>> <=> Len(m) = 1 /\ m[1] = a
         /\ m # <<>> <=> Len(m) = 1 \/ 2 <= Len(m)
<1>1. Len(m) \in Nat /\ (m # <<>> <=> Len(m) # 0)
  BY EmptySeq
<1>2. m = <<a>> <=> Len(m) = 1 /\ m[1] = a
  OBVIOUS
<1> DEFINE l == Len(m)
<1>3. l # 0 <=> l = 1 \/ 2 <= l
  <2>1. l \in Nat
    BY <1>1
  <2> HIDE DEF l
  <2> QED BY <2>1
<1> QED BY <1>1, <1>2, <1>3

\* startsWithAuthPrefix recognises the messages that deny access, no more, no less.
LEMMA DeniesIs ==
  ASSUME NEW T, NEW m \in Seq(T)
  PROVE  Denies(m) <=> StartsWithAuthPrefix(m)
<1>1. m = <<"AUTH">> <=> Len(m) = 1 /\ m[1] = "AUTH"
  BY OneOnly, Zenon
<1>2. m # <<>> <=> Len(m) = 1 \/ 2 <= Len(m)
  BY OneOnly, Zenon
<1>3. IsPrefix(<<"AUTH", " ">>, m) <=> 2 <= Len(m) /\ m[1] = "AUTH" /\ m[2] = " "
  BY PrefixOfTwo, Zenon
<1>4. StartsWithAuthPrefix(m) <=> m # <<>> /\ m[1] = "AUTH" /\ (Len(m) = 1 \/ m[2] = " ")
  BY Zenon DEF StartsWithAuthPrefix, Begins
<1> QED BY <1>1, <1>2, <1>3, <1>4, Zenon DEF Denies

\* The conventions with codes in brackets.
Brackets == {"bracket_code", "both"}

\* The class and the code, from what splitBracketCode found.
LEMMA FromSplit ==
  ASSUME NEW m, NEW f
  PROVE  /\ f \in Brackets /\ StartsWithAuthPrefix(SplitBracketCode(m).rest)
              => FromServerMessage(m, f) = Auth(m)
         /\ f \in Brackets /\ ~StartsWithAuthPrefix(SplitBracketCode(m).rest)
              => FromServerMessage(m, f) = Server(m, SplitBracketCode(m).code)
         /\ f \notin Brackets /\ f # "none" /\ StartsWithAuthPrefix(m)
              => FromServerMessage(m, f) = Auth(m)
         /\ f \notin Brackets /\ (f = "none" \/ ~StartsWithAuthPrefix(m))
              => FromServerMessage(m, f) = Server(m, <<>>)
<1> DEFINE s == SplitBracketCode(m)
<1>1. NoCode(m).rest = m /\ NoCode(m).code = <<>>
  BY DEF NoCode
<1>2. CASE f \in Brackets
  <2>1. f # "none"
    BY <1>2 DEF Brackets
  <2>2. FromServerMessage(m, f) = IF StartsWithAuthPrefix(s.rest)
                                    THEN Auth(m) ELSE Server(m, s.code)
    <3> HIDE DEF s
    <3> QED BY <1>2, <2>1, Zenon DEF FromServerMessage, Brackets, s
  <2> QED BY <1>2, <2>2
<1>3. CASE f \notin Brackets
  <2>1. FromServerMessage(m, f) = IF f # "none" /\ StartsWithAuthPrefix(NoCode(m).rest)
                                    THEN Auth(m) ELSE Server(m, NoCode(m).code)
    BY <1>3, Zenon DEF FromServerMessage, Brackets
  <2> QED BY <1>1, <1>3, <2>1
<1> QED BY <1>2, <1>3, Zenon

\* What ClassifiedRight says, the codes by their name.
LEMMA RightIs ==
  ASSUME NEW m, NEW f, NEW e, NEW C,
         e = FromServerMessage(m, f), C = IF f \in Brackets THEN CodesOf(m) ELSE {},
         e.msg = m,
         e.class = "auth" <=> f # "none" /\ (Denies(m) \/ \E p \in C : Denies(p[2])),
         e.code = <<>> <=> e.class = "auth" \/ C = {},
         e.code # <<>> => \A p \in C : p[1] = e.code
  PROVE  ClassifiedRight(m, f)
<1> DEFINE b == f \in Brackets
           D == {p \in CutsOf(m) : b /\ Coded(m, p[1], p[2])}
<1>1. D = C
  BY DEF CodesOf
<1>2. ClassifiedRight(m, f) <=>
        /\ e.msg = m
        /\ e.class = "auth" <=> f # "none" /\ (Denies(m) \/ \E p \in D : Denies(p[2]))
        /\ e.code = <<>> <=> e.class = "auth" \/ D = {}
        /\ e.code # <<>> => \A p \in D : p[1] = e.code
  BY Zenon DEF ClassifiedRight, CutsOf, Brackets
<1> HIDE DEF D
<1> QED BY <1>1, <1>2, Zenon

\* The class, the code and the text of every message over every set of symbols.
LEMMA Classified ==
  ASSUME NEW T, Marks \subseteq T, NEW m \in Seq(T), NEW f \in Conventions
  PROVE  ClassifiedRight(m, f)
<1> DEFINE e == FromServerMessage(m, f)
           C == IF f \in Brackets THEN CodesOf(m) ELSE {}
<1>1. /\ Auth(m).class = "auth" /\ Auth(m).msg = m /\ Auth(m).code = <<>>
      /\ \A c : Server(m, c).class = "server" /\ Server(m, c).msg = m /\ Server(m, c).code = c
      /\ "server" # "auth"
  BY DEF Auth, Server
<1>2. /\ e.msg = m
      /\ e.class = "auth" <=> f # "none" /\ (Denies(m) \/ \E p \in C : Denies(p[2]))
      /\ e.code = <<>> <=> e.class = "auth" \/ C = {}
      /\ e.code # <<>> => \A p \in C : p[1] = e.code
  <2>1. CASE f \notin Brackets
    <3>1. C = {}
      BY <2>1
    <3>2. CASE f # "none" /\ Denies(m)
      <4>1. e = Auth(m)
        BY <2>1, <3>2, FromSplit, DeniesIs, Zenon
      <4> HIDE DEF C, e
      <4> QED BY <1>1, <3>1, <3>2, <4>1, Zenon
    <3>3. CASE f = "none" \/ ~Denies(m)
      <4>1. e = Server(m, <<>>)
        BY <2>1, <3>3, FromSplit, DeniesIs, Zenon
      <4> HIDE DEF C, e
      <4> QED BY <1>1, <3>1, <3>3, <4>1, Zenon
    <3> QED BY <3>2, <3>3, Zenon
  <2>2. CASE f \in Brackets /\ \A c, r : ~SplitsInto(m, c, r)
    <3>1. C = {} /\ SplitBracketCode(m) = NoCode(m) /\ f # "none"
      <4>1. f # "none"
        BY <2>2 DEF Brackets
      <4>2. C = {}
        BY <2>2, CodesAre, Zenon
      <4>3. SplitBracketCode(m) = NoCode(m)
        BY <2>2, SplitIs, Zenon
      <4> QED BY <4>1, <4>2, <4>3
    <3>2. SplitBracketCode(m).rest = m /\ SplitBracketCode(m).code = <<>>
      BY <3>1 DEF NoCode
    <3>3. CASE Denies(m)
      <4>1. e = Auth(m)
        BY <2>2, <3>2, <3>3, FromSplit, DeniesIs, Zenon
      <4> HIDE DEF C, e
      <4> QED BY <1>1, <3>1, <3>3, <4>1, Zenon
    <3>4. CASE ~Denies(m)
      <4>1. e = Server(m, <<>>)
        BY <2>2, <3>2, <3>4, FromSplit, DeniesIs, Zenon
      <4> HIDE DEF C, e
      <4> QED BY <1>1, <3>1, <3>4, <4>1, Zenon
    <3> QED BY <3>3, <3>4, Zenon
  <2>3. CASE f \in Brackets /\ \E c, r : SplitsInto(m, c, r)
    <3>1. PICK c \in Seq(T), r \in Seq(T) :
            SplitsInto(m, c, r) /\ c # <<>> /\ SplitBracketCode(m) = [code |-> c, rest |-> r]
      BY <2>3, SplitIs, Zenon
    <3>2. SplitBracketCode(m).rest = r /\ SplitBracketCode(m).code = c
      BY <3>1
    <3>3. C = {<<c, r>>}
      BY <2>3, <3>1, CodesAre, Zenon
    <3>4. ~Denies(m)
      <4>1. m[1] = "["
        BY <3>1, Zenon DEF SplitsInto
      <4>2. "[" # "AUTH"
        OBVIOUS
      <4>3. ~StartsWithAuthPrefix(m)
        BY <4>1, <4>2, Zenon DEF StartsWithAuthPrefix, Begins
      <4> QED BY <4>3, DeniesIs, Zenon
    <3>5. f # "none"
      BY <2>3 DEF Brackets
    <3>6. <<c, r>>[1] = c /\ <<c, r>>[2] = r
      OBVIOUS
    <3>7. CASE Denies(r)
      <4>1. e = Auth(m)
        BY <2>3, <3>2, <3>7, FromSplit, DeniesIs, Zenon
      <4> HIDE DEF C, e
      <4>2. \E p \in C : Denies(p[2])
        BY <3>3, <3>6, <3>7, Zenon
      <4> QED BY <1>1, <3>5, <4>1, <4>2, Zenon
    <3>8. CASE ~Denies(r)
      <4>1. e = Server(m, c)
        BY <2>3, <3>2, <3>8, FromSplit, DeniesIs, Zenon
      <4> HIDE DEF C, e
      <4>2. (\A p \in C : p[1] = c /\ ~Denies(p[2])) /\ C # {}
        BY <3>3, <3>6, <3>8, Zenon
      <4> QED BY <1>1, <3>1, <3>4, <4>1, <4>2, Zenon
    <3> QED BY <3>7, <3>8, Zenon
  <2> QED BY <2>1, <2>2, <2>3, Zenon
<1> HIDE DEF C
<1>3. C = IF f \in Brackets THEN CodesOf(m) ELSE {}
  BY DEF C
<1> HIDE DEF e
<1>4. e = FromServerMessage(m, f)
  BY DEF e
<1> QED BY <1>2, <1>3, <1>4, RightIs

\* Every message is made of the symbols it is built from.
MessageTyped == message \in Seq(MessageSymbols)

\* Every message FromServerMessage is given, under any convention but "none", becomes an
\* authentication error exactly if it denies access, at its start or behind its code
\* (CLT-051), and carries a code exactly if the convention and the message have one
\* (CLT-050). Under "none" it is a plain server error (errors.go:76-77).
THEOREM ErrorsAlwaysRight == Spec => []ErrorsRight
<1>1. Init => MessageTyped
  <2>1. Init => message = <<>>
    BY Zenon DEF Init
  <2>2. <<>> \in Seq(MessageSymbols)
    BY EmptySeq, Zenon
  <2> QED BY <2>1, <2>2, Zenon DEF MessageTyped
<1>2. MessageTyped /\ [Next]_vars => MessageTyped'
  BY DEF MessageTyped, Next, MessageGrows, EndpointGrows, vars
<1>3. MessageTyped => ErrorsRight
  <2>1. Marks \subseteq MessageSymbols
    BY DEF Marks, MessageSymbols
  <2>2. ASSUME NEW m \in Seq(MessageSymbols), NEW f \in Conventions PROVE ClassifiedRight(m, f)
    BY <2>1, Classified
  <2> QED BY <2>2 DEF MessageTyped, ErrorsRight
<1> QED BY <1>1, <1>2, <1>3, PTL DEF Spec
=============================================================================
