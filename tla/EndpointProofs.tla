--------------------------- MODULE EndpointProofs ---------------------------
(***************************************************************************)
(* An endpoint text of any length is read as its form says or refused, and *)
(* what it is read as survives being written as the address to dial        *)
(* (client/endpoint.go ParseEndpoint 28-71, splitHostPort 73-117).         *)
(*                                                                         *)
(* That a text reads as a host and a port is cut into cases by where its   *)
(* separators are: each reading is unique (TakenIs, HostPort) and is the   *)
(* one the code's searches find (HostPortIs), and so for what follows a    *)
(* scheme (RestIs, TextIs).  What the code takes so is the list of forms   *)
(* on ParseEndpoint with the departures Endpoint.tla names (MeantIs).      *)
(***************************************************************************)
EXTENDS TextProofs, FiniteSetTheorems

\* A set of places that is not empty has a greatest one.
LEMMA GreatestElement ==
  ASSUME NEW N \in Nat, NEW T \in SUBSET (1..N), T # {}
  PROVE  \E x \in T : \A y \in T : y <= x
<1> DEFINE D == {N - x : x \in T}
<1>1. D \in SUBSET Nat /\ D # {}
  <2>1. \A x \in T : N - x \in Nat
    OBVIOUS
  <2>2. PICK x \in T : TRUE
    OBVIOUS
  <2> QED BY <2>1, <2>2
<1>2. PICK d \in D : \A e \in D : d <= e
  <2> HIDE DEF D
  <2> QED BY <1>1, LeastElement
<1>3. PICK x \in T : d = N - x
  BY <1>2
<1>4. ASSUME NEW y \in T PROVE y <= x
  <2>1. N - y \in D
    OBVIOUS
  <2>2. N - x <= N - y
    BY <1>2, <1>3, <2>1
  <2> QED BY <2>2
<1> QED BY <1>4

\* strings.LastIndexByte: the last place of a symbol, or 0.
LEMMA LastAtIs ==
  ASSUME NEW T, NEW s \in Seq(T), NEW c
  PROVE  /\ LastAt(s, c) \in 0..Len(s)
         /\ LastAt(s, c) = 0 => \A i \in 1..Len(s) : s[i] # c
         /\ LastAt(s, c) # 0 => /\ s[LastAt(s, c)] = c
                                /\ \A i \in (LastAt(s, c) + 1)..Len(s) : s[i] # c
<1> DEFINE I == {i \in 1..Len(s) : s[i] = c}
<1>1. LastAt(s, c) = IF I # {} THEN Max(I) ELSE 0
  BY DEF LastAt, SelectLastInSeq
<1>2. Len(s) \in Nat
  OBVIOUS
<1>3. CASE I = {}
  BY <1>1, <1>2, <1>3
<1>4. CASE I # {}
  <2>1. I \in SUBSET (1..Len(s))
    OBVIOUS
  <2>2. \E n \in I : \A m \in I : m <= n
    <3> HIDE DEF I
    <3> QED BY <1>2, <1>4, <2>1, GreatestElement
  <2>3. LastAt(s, c) \in I /\ \A m \in I : LastAt(s, c) >= m
    <3> DEFINE P(x) == x \in I /\ \A m \in I : x >= m
    <3>1. \E x : P(x)
      <4>1. PICK n \in I : \A m \in I : m <= n
        BY <2>2
      <4>2. \A m \in I : n >= m
        BY <1>2, <2>1, <4>1
      <4> QED BY <4>1, <4>2
    <3>2. LastAt(s, c) = CHOOSE x \in I : \A y \in I : x >= y
      BY <1>1, <1>4 DEF Max
    <3> HIDE DEF I
    <3> QED BY <3>1, <3>2
  <2>4. LastAt(s, c) \in 1..Len(s) /\ s[LastAt(s, c)] = c
    BY <2>3
  <2>5. ASSUME NEW i \in (LastAt(s, c) + 1)..Len(s), s[i] = c PROVE FALSE
    <3>1. i \in 1..Len(s) /\ ~(LastAt(s, c) >= i)
      BY <1>2, <2>4
    <3> QED BY <2>3, <2>5, <3>1
  <2> QED BY <1>2, <2>4, <2>5
<1> QED BY <1>3, <1>4

\* The last place is the only one with no such symbol after it.
LEMMA LastAtUnique ==
  ASSUME NEW T, NEW s \in Seq(T), NEW c, NEW n \in 1..Len(s), s[n] = c,
         \A i \in (n + 1)..Len(s) : s[i] # c
  PROVE  LastAt(s, c) = n
<1> DEFINE a == LastAt(s, c)
<1>1. Len(s) \in Nat /\ n \in Nat
  OBVIOUS
<1>2. /\ a \in 0..Len(s)
      /\ a = 0 => \A i \in 1..Len(s) : s[i] # c
      /\ a # 0 => s[a] = c /\ \A i \in (a + 1)..Len(s) : s[i] # c
  BY LastAtIs
<1> HIDE DEF a
<1>3. a # 0
  BY <1>2
<1>4. ~(n < a)
  <2>1. SUFFICES ASSUME n < a PROVE FALSE
    OBVIOUS
  <2>2. a \in (n + 1)..Len(s)
    BY <1>1, <1>2, <2>1
  <2> QED BY <1>2, <1>3, <2>2
<1>5. ~(a < n)
  BY <1>1, <1>2, <1>3
<1>6. a = n
  BY <1>1, <1>2, <1>3, <1>4, <1>5
<1> QED BY <1>6 DEF a

\* Whether a symbol occurs.
LEMMA HasIs ==
  ASSUME NEW T, NEW s \in Seq(T), NEW c
  PROVE  Has(s, c) <=> \E i \in 1..Len(s) : s[i] = c
<1> DEFINE a == At(s, c)
<1>1. /\ a \in 0..Len(s)
      /\ a = 0 => \A i \in 1..Len(s) : s[i] # c
      /\ a # 0 => s[a] = c
  BY AtIs
<1>2. Has(s, c) <=> a # 0
  BY DEF Has
<1>3. Len(s) \in Nat
  OBVIOUS
<1> HIDE DEF a
<1> QED BY <1>1, <1>2, <1>3

\* Two sequences one after the other: places and parts.
LEMMA JoinIs ==
  ASSUME NEW T, NEW a \in Seq(T), NEW b \in Seq(T)
  PROVE  /\ a \o b \in Seq(T) /\ Len(a \o b) = Len(a) + Len(b)
         /\ \A i \in 1..Len(a) : (a \o b)[i] = a[i]
         /\ \A i \in 1..Len(b) : (a \o b)[Len(a) + i] = b[i]
         /\ SubSeq(a \o b, 1, Len(a)) = a
         /\ SubSeq(a \o b, Len(a) + 1, Len(a) + Len(b)) = b
<1> DEFINE j == a \o b
           k == Len(a)
           l == Len(b)
<1>1. /\ j \in Seq(T) /\ Len(j) = k + l
      /\ \A i \in 1..(k + l) : j[i] = IF i <= k THEN a[i] ELSE b[i - k]
  BY ConcatProperties
<1>2. k \in Nat /\ l \in Nat
  OBVIOUS
<1> HIDE DEF j, k, l
<1>3. \A i \in 1..k : j[i] = a[i]
  BY <1>1, <1>2
<1>4. ASSUME NEW i \in 1..l PROVE j[k + i] = b[i]
  <2>1. k + i \in 1..(k + l) /\ ~(k + i <= k) /\ (k + i) - k = i
    BY <1>2
  <2> QED BY <1>1, <2>1
<1>5. SubSeq(j, 1, k) = a
  <2>1. 0 + k <= Len(j) /\ 0 \in Nat /\ 0 + 1 = 1 /\ 0 + k = k /\ \A i \in 1..k : 0 + i = i
    BY <1>1, <1>2
  <2>2. /\ SubSeq(j, 0 + 1, 0 + k) \in Seq(T) /\ Len(SubSeq(j, 0 + 1, 0 + k)) = k
        /\ \A i \in 1..k : SubSeq(j, 0 + 1, 0 + k)[i] = j[0 + i]
    BY <1>1, <1>2, <2>1, CutIs
  <2> DEFINE u == SubSeq(j, 1, k)
  <2>3. u \in Seq(T) /\ Len(u) = k /\ \A i \in 1..k : u[i] = j[i]
    BY <2>1, <2>2
  <2> HIDE DEF u
  <2>4. Len(u) = Len(a) /\ \A i \in 1..Len(u) : u[i] = a[i]
    BY <1>3, <2>3 DEF k
  <2>5. u = a
    BY <2>3, <2>4, SameSeq
  <2> QED BY <2>5 DEF u
<1>6. SubSeq(j, k + 1, k + l) = b
  <2>1. /\ SubSeq(j, k + 1, k + l) \in Seq(T) /\ Len(SubSeq(j, k + 1, k + l)) = l
        /\ \A i \in 1..l : SubSeq(j, k + 1, k + l)[i] = j[k + i]
    BY <1>1, <1>2, CutIs
  <2> DEFINE u == SubSeq(j, k + 1, k + l)
  <2>2. u \in Seq(T) /\ Len(u) = l /\ \A i \in 1..l : u[i] = j[k + i]
    BY <2>1
  <2> HIDE DEF u
  <2>3. Len(u) = Len(b) /\ \A i \in 1..Len(u) : u[i] = b[i]
    BY <1>4, <2>2 DEF l
  <2>4. u = b
    BY <2>2, <2>3, SameSeq
  <2> QED BY <2>4 DEF u
<1> QED BY <1>1, <1>3, <1>4, <1>5, <1>6 DEF j, k, l

\* A sequence cut in two is its two parts.
LEMMA CutInTwo ==
  ASSUME NEW T, NEW s \in Seq(T), NEW n \in 0..Len(s)
  PROVE  /\ SubSeq(s, 1, n) \in Seq(T) /\ Len(SubSeq(s, 1, n)) = n
         /\ \A i \in 1..n : SubSeq(s, 1, n)[i] = s[i]
         /\ SubSeq(s, n + 1, Len(s)) \in Seq(T) /\ Len(SubSeq(s, n + 1, Len(s))) = Len(s) - n
         /\ \A i \in 1..(Len(s) - n) : SubSeq(s, n + 1, Len(s))[i] = s[n + i]
         /\ s = SubSeq(s, 1, n) \o SubSeq(s, n + 1, Len(s))
<1>1. /\ 0 + n <= Len(s) /\ 0 \in Nat /\ n \in Nat /\ 0 + 1 = 1 /\ 0 + n = n /\ Len(s) \in Nat
      /\ \A i \in 1..n : 0 + i = i
  OBVIOUS
<1>2. /\ SubSeq(s, 0 + 1, 0 + n) \in Seq(T) /\ Len(SubSeq(s, 0 + 1, 0 + n)) = n
      /\ \A i \in 1..n : SubSeq(s, 0 + 1, 0 + n)[i] = s[0 + i]
  BY <1>1, CutIs
<1>3. /\ SubSeq(s, 1, n) \in Seq(T) /\ Len(SubSeq(s, 1, n)) = n
      /\ \A i \in 1..n : SubSeq(s, 1, n)[i] = s[i]
  BY <1>1, <1>2
<1>4. /\ SubSeq(s, n + 1, Len(s)) \in Seq(T) /\ Len(SubSeq(s, n + 1, Len(s))) = Len(s) - n
      /\ \A i \in 1..(Len(s) - n) : SubSeq(s, n + 1, Len(s))[i] = s[n + i]
  BY TailIs
<1>5. s = SubSeq(s, 1, n) \o SubSeq(s, n + 1, Len(s))
  <2>1. 1 \in 1..(Len(s) + 1) /\ n \in (1 - 1)..Len(s) /\ Len(s) \in n..Len(s)
    BY <1>1
  <2>2. SubSeq(s, 1, n) \o SubSeq(s, n + 1, Len(s)) = SubSeq(s, 1, Len(s))
    BY <2>1, ConcatAdjacentSubSeq
  <2> QED BY <2>2, SubSeqFull
<1> QED BY <1>3, <1>4, <1>5

\* The symbols that mean something in an endpoint.
Separators == {":", "/", "[", "]"}

LEMMA PortFacts ==
  /\ \A p \in Ports : p \notin Separators /\ p # " " /\ p # NoPort
  /\ ":" # "/" /\ ":" # "[" /\ ":" # "]" /\ "/" # "[" /\ "/" # "]" /\ "[" # "]"
  /\ " " \notin Separators
BY DEF Ports, NoPort, Separators

\* A port and the colon before it.
Suffix(p) == IF p = NoPort THEN <<>> ELSE <<":", p>>

LEMMA SuffixIs ==
  ASSUME NEW T, Separators \subseteq T, Ports \subseteq T, NEW p \in Ports
  PROVE  /\ Suffix(p) = <<":", p>> /\ Suffix(p) \in Seq(T) /\ Len(Suffix(p)) = 2
         /\ Suffix(p)[1] = ":" /\ Suffix(p)[2] = p
<1>1. Suffix(p) = <<":", p>>
  BY PortFacts DEF Suffix
<1>2. ":" \in T /\ p \in T
  BY DEF Separators
<1> QED BY <1>1, <1>2

\* A sequence of two.
LEMMA PairIs ==
  ASSUME NEW T, NEW s \in Seq(T), Len(s) = 2
  PROVE  s = <<s[1], s[2]>>
<1>1. s[1] \in T /\ s[2] \in T
  OBVIOUS
<1> DEFINE d == <<s[1], s[2]>>
<1>2. d \in Seq(T) /\ Len(d) = 2 /\ d[1] = s[1] /\ d[2] = s[2]
  BY <1>1
<1> HIDE DEF d
<1>3. \A i \in 1..2 : s[i] = d[i]
  BY <1>2
<1>4. s = d
  BY <1>2, <1>3, SameSeq
<1> QED BY <1>4 DEF d

\* What is read as a port is one.
LEMMA PortRead ==
  ASSUME NEW T, NEW s \in Seq(T), NEW h, ParsePort(s, h).ok
  PROVE  \E p \in Ports : s = <<p>> /\ ParsePort(s, h) = Valid(h, p)
<1>1. Len(s) = 1 /\ s[1] \in Ports /\ ParsePort(s, h) = Valid(h, s[1])
  <2>1. ~Invalid.ok
    BY DEF Invalid
  <2> QED BY <2>1 DEF ParsePort
<1>2. s = <<s[1]>>
  BY <1>1
<1> QED BY <1>1, <1>2

LEMMA PortOnly == ASSUME NEW p \in Ports, NEW h PROVE ParsePort(<<p>>, h) = Valid(h, p)
BY DEF ParsePort

LEMMA ValidIs == ASSUME NEW h, NEW p
                 PROVE  /\ Valid(h, p).ok /\ Valid(h, p).host = h /\ Valid(h, p).port = p
                        /\ ~Invalid.ok
BY DEF Valid, Invalid

\* A host without colons and a port.
LEMMA PlainPort ==
  ASSUME NEW T, Separators \subseteq T, Ports \subseteq T,
         NEW h \in Seq(T), h # <<>>, \A i \in 1..Len(h) : h[i] # ":", NEW p \in Ports
  PROVE  SplitPlain(h \o <<":", p>>) = Valid(h, p)
<1> DEFINE d == <<":", p>>
           s == h \o d
           k == Len(h)
<1>1. d \in Seq(T) /\ Len(d) = 2 /\ d[1] = ":" /\ d[2] = p
  BY SuffixIs
<1>2. k \in Nat /\ k # 0
  BY EmptySeq
<1> HIDE DEF d
<1>3. /\ s \in Seq(T) /\ Len(s) = k + Len(d)
      /\ \A i \in 1..k : s[i] = h[i]
      /\ \A i \in 1..Len(d) : s[k + i] = d[i]
      /\ SubSeq(s, 1, k) = h
      /\ SubSeq(s, k + 1, k + Len(d)) = d
  BY <1>1, JoinIs
<1> HIDE DEF s
<1>4. Len(s) = k + 2 /\ s[k + 1] = ":" /\ s[k + 2] = p
  BY <1>1, <1>3
<1>5. p # ":"
  BY PortFacts DEF Separators
<1>6. k + 1 \in 1..Len(s) /\ \A i \in (k + 1 + 1)..Len(s) : s[i] # ":"
  <2>1. \A i \in (k + 1 + 1)..(k + 2) : i = k + 2
    BY <1>2
  <2> QED BY <1>2, <1>4, <1>5, <2>1
<1> HIDE DEF k
<1>7. LastAt(s, ":") = k + 1
  BY <1>3, <1>4, <1>6, LastAtUnique
<1>8. Upto(s, k + 1) = h
  <2>1. (k + 1) - 1 = k
    BY <1>2
  <2> QED BY <1>3, <2>1 DEF Upto
<1>9. After(s, k + 1) = <<p>>
  <2>1. k + 1 \in 0..Len(s) /\ Len(s) - (k + 1) = 1 /\ (k + 1) + 1 = k + 2
    BY <1>2, <1>4
  <2>2. /\ SubSeq(s, (k + 1) + 1, Len(s)) \in Seq(T)
        /\ Len(SubSeq(s, (k + 1) + 1, Len(s))) = Len(s) - (k + 1)
        /\ \A i \in 1..(Len(s) - (k + 1)) : SubSeq(s, (k + 1) + 1, Len(s))[i] = s[(k + 1) + i]
    BY <1>3, <2>1, TailIs
  <2> DEFINE u == SubSeq(s, (k + 1) + 1, Len(s))
  <2>5. 1 \in 1..(Len(s) - (k + 1))
    BY <2>1
  <2>6. u[1] = s[k + 2]
    BY <2>1, <2>2, <2>5
  <2>3. u \in Seq(T) /\ Len(u) = 1 /\ u[1] = p
    BY <1>4, <2>1, <2>2, <2>6
  <2> HIDE DEF u
  <2>4. u = <<p>>
    BY <2>3
  <2> QED BY <2>4 DEF u, After
<1>10. ~Has(h, ":")
  BY HasIs DEF k
<1>11. k + 1 # 0 /\ k + 1 # 1
  BY <1>2
<1>12. SplitPlain(s) = ParsePort(<<p>>, h)
  BY <1>7, <1>8, <1>9, <1>10, <1>11 DEF SplitPlain
<1> QED BY <1>12, PortOnly DEF s, d

\* A text with no colon or with several is all host.
LEMMA PlainWhole ==
  ASSUME NEW T, NEW s \in Seq(T),
         \/ \A i \in 1..Len(s) : s[i] # ":"
         \/ \E i, j \in 1..Len(s) : i # j /\ s[i] = ":" /\ s[j] = ":"
  PROVE  SplitPlain(s) = Valid(s, NoPort)
<1> DEFINE n == LastAt(s, ":")
<1>1. /\ n \in 0..Len(s)
      /\ n = 0 => \A i \in 1..Len(s) : s[i] # ":"
      /\ n # 0 => s[n] = ":" /\ \A i \in (n + 1)..Len(s) : s[i] # ":"
  BY LastAtIs
<1>2. SplitPlain(s) = IF n = 0 \/ Has(Upto(s, n), ":") THEN Valid(s, NoPort)
                      ELSE IF n = 1 THEN Invalid
                      ELSE ParsePort(After(s, n), Upto(s, n))
  BY DEF SplitPlain
<1> HIDE DEF n
<1>3. CASE n = 0
  BY <1>2, <1>3
<1>4. CASE n # 0
  <2>1. PICK i \in 1..Len(s) : s[i] = ":" /\ i # n
    BY <1>1, <1>4
  <2>2. n - 1 \in 0..Len(s) /\ i \in 1..(n - 1)
    BY <1>1, <1>4, <2>1
  <2>3. /\ SubSeq(s, 1, n - 1) \in Seq(T) /\ Len(SubSeq(s, 1, n - 1)) = n - 1
        /\ \A j \in 1..(n - 1) : SubSeq(s, 1, n - 1)[j] = s[j]
    BY <2>2, CutInTwo
  <2>4. Has(SubSeq(s, 1, n - 1), ":")
    BY <2>1, <2>2, <2>3, HasIs
  <2> QED BY <1>2, <2>4 DEF Upto
<1> QED BY <1>3, <1>4

\* What SplitPlain makes of a text.
LEMMA PlainIs ==
  ASSUME NEW T, NEW s \in Seq(T), SplitPlain(s).ok
  PROVE  \/ /\ SplitPlain(s) = Valid(s, NoPort)
            /\ \/ \A i \in 1..Len(s) : s[i] # ":"
               \/ \E i, j \in 1..Len(s) : i # j /\ s[i] = ":" /\ s[j] = ":"
         \/ \E h \in Seq(T), p \in Ports :
              /\ s = h \o <<":", p>> /\ h # <<>> /\ \A i \in 1..Len(h) : h[i] # ":"
              /\ SplitPlain(s) = Valid(h, p)
<1> DEFINE n == LastAt(s, ":")
           h == SubSeq(s, 1, n - 1)
           t == SubSeq(s, n + 1, Len(s))
<1>1. /\ n \in 0..Len(s)
      /\ n = 0 => \A i \in 1..Len(s) : s[i] # ":"
      /\ n # 0 => s[n] = ":"
  BY LastAtIs
<1>2. SplitPlain(s) = IF n = 0 \/ Has(h, ":") THEN Valid(s, NoPort)
                      ELSE IF n = 1 THEN Invalid
                      ELSE ParsePort(t, h)
  BY DEF SplitPlain, Upto, After
<1>0. Len(s) \in Nat
  OBVIOUS
<1> HIDE DEF n
<1>3. CASE n = 0
  BY <1>1, <1>2, <1>3
<1>4. CASE n # 0
  <2>1. n - 1 \in 0..Len(s) /\ n \in 0..Len(s) /\ (n - 1) + 1 = n
    BY <1>0, <1>1, <1>4
  <2>2. /\ h \in Seq(T) /\ Len(h) = n - 1
        /\ \A i \in 1..(n - 1) : h[i] = s[i]
        /\ SubSeq(s, (n - 1) + 1, Len(s)) \in Seq(T)
        /\ Len(SubSeq(s, (n - 1) + 1, Len(s))) = Len(s) - (n - 1)
        /\ \A i \in 1..(Len(s) - (n - 1)) : SubSeq(s, (n - 1) + 1, Len(s))[i] = s[(n - 1) + i]
        /\ s = h \o SubSeq(s, (n - 1) + 1, Len(s))
    BY <2>1, CutInTwo
  <2>3. t \in Seq(T) /\ Len(t) = Len(s) - n /\ \A i \in 1..(Len(s) - n) : t[i] = s[n + i]
    BY <2>1, TailIs
  <2>4. CASE Has(h, ":")
    <3> HIDE DEF h
    <3>1. PICK i \in 1..(n - 1) : h[i] = ":"
      BY <2>2, <2>4, HasIs
    <3>2. i \in 1..Len(s) /\ n \in 1..Len(s) /\ i # n /\ s[i] = ":" /\ s[n] = ":"
      BY <1>0, <1>1, <1>4, <2>1, <2>2, <3>1
    <3> QED BY <1>2, <2>4, <3>2
  <2>5. CASE ~Has(h, ":")
    <3> HIDE DEF h, t
    <3>1. n # 1 /\ SplitPlain(s) = ParsePort(t, h)
      BY <1>2, <1>4, <2>5, ValidIs
    <3>2. PICK p \in Ports : t = <<p>> /\ ParsePort(t, h) = Valid(h, p)
      BY <2>3, <3>1, PortRead
    <3>3. h # <<>>
      BY <1>1, <2>1, <2>2, <3>1
    <3>4. \A i \in 1..Len(h) : h[i] # ":"
      BY <2>2, <2>5, HasIs
    <3>5. SubSeq(s, (n - 1) + 1, Len(s)) = <<":", p>>
      <4> DEFINE u == SubSeq(s, (n - 1) + 1, Len(s))
      <4>1. /\ u \in Seq(T) /\ Len(u) = Len(s) - (n - 1)
            /\ \A i \in 1..(Len(s) - (n - 1)) : u[i] = s[(n - 1) + i]
        BY <2>2
      <4> HIDE DEF u
      <4>2. Len(t) = 1 /\ t[1] = p
        BY <3>2
      <4>6. Len(s) = n + 1
        <5>1. Len(s) - n = 1
          BY <2>3, <4>2, Zenon
        <5>2. Len(s) \in Int /\ n \in Int
          BY <1>0, <2>1
        <5> QED BY <5>1, <5>2
      <4>7. 1 \in 1..(Len(s) - n)
        BY <2>1, <4>6
      <4>3. Len(s) = n + 1 /\ s[n + 1] = p
        BY <2>3, <4>2, <4>6, <4>7
      <4>4. Len(u) = 2 /\ u[1] = ":" /\ u[2] = p
        <5>1. Len(s) - (n - 1) = 2 /\ (n - 1) + 1 = n /\ (n - 1) + 2 = n + 1
          BY <2>1, <4>3
        <5> QED BY <1>1, <1>4, <4>1, <4>3, <5>1
      <4>5. u = <<":", p>>
        BY <4>1, <4>4, PairIs
      <4> QED BY <4>5 DEF u
    <3>6. s = h \o <<":", p>>
      BY <2>2, <3>5
    <3>7. h \in Seq(T) /\ SplitPlain(s) = Valid(h, p)
      BY <2>2, <3>1, <3>2
    <3> QED BY <3>3, <3>4, <3>6, <3>7
  <2> QED BY <2>4, <2>5
<1> QED BY <1>3, <1>4

\* A host in brackets.
Bracket(h) == <<"[">> \o h \o <<"]">>

LEMMA BracketShape ==
  ASSUME NEW T, Separators \subseteq T, NEW h \in Seq(T)
  PROVE  /\ Bracket(h) \in Seq(T) /\ Len(Bracket(h)) = Len(h) + 2
         /\ Bracket(h)[1] = "[" /\ Bracket(h)[Len(h) + 2] = "]"
         /\ \A i \in 1..Len(h) : Bracket(h)[i + 1] = h[i]
<1> DEFINE a == <<"[">>
           z == <<"]">>
           b == a \o h
           c == b \o z
           k == Len(h)
<1>1. a \in Seq(T) /\ z \in Seq(T) /\ Len(a) = 1 /\ Len(z) = 1 /\ a[1] = "[" /\ z[1] = "]"
  BY DEF Separators
<1>2. k \in Nat
  OBVIOUS
<1> HIDE DEF a, z
<1>3. /\ b \in Seq(T) /\ Len(b) = Len(a) + k
      /\ \A i \in 1..Len(a) : b[i] = a[i]
      /\ \A i \in 1..k : b[Len(a) + i] = h[i]
  BY <1>1, JoinIs
<1> HIDE DEF b
<1>4. /\ c \in Seq(T) /\ Len(c) = Len(b) + Len(z)
      /\ \A i \in 1..Len(b) : c[i] = b[i]
      /\ \A i \in 1..Len(z) : c[Len(b) + i] = z[i]
  <2>1. b \in Seq(T) /\ z \in Seq(T)
    BY <1>1, <1>3
  <2> QED BY <2>1, JoinIs
<1> HIDE DEF c, k
<1>5. Len(b) = k + 1 /\ b[1] = "[" /\ \A i \in 1..k : b[i + 1] = h[i]
  <2>1. \A i \in 1..k : 1 + i = i + 1
    BY <1>2
  <2>2. 1 + k = k + 1 /\ 1 \in 1..1
    BY <1>2
  <2> QED BY <1>1, <1>3, <2>1, <2>2
<1>6. Len(c) = k + 2 /\ c[1] = "[" /\ c[k + 2] = "]"
  <2>1. Len(c) = k + 2
    BY <1>1, <1>2, <1>4, <1>5
  <2>2. 1 \in 1..Len(b) /\ 1 \in 1..Len(z) /\ Len(b) + 1 = k + 2
    BY <1>1, <1>2, <1>5
  <2> QED BY <1>1, <1>4, <1>5, <2>1, <2>2
<1>7. ASSUME NEW i \in 1..k PROVE c[i + 1] = h[i]
  <2>1. i + 1 \in 1..Len(b)
    BY <1>2, <1>5
  <2> QED BY <1>4, <1>5, <2>1
<1>8. Bracket(h) = c
  BY DEF Bracket, a, b, c, z
<1> QED BY <1>4, <1>6, <1>7, <1>8 DEF k

\* Either suffix.
LEMMA SuffixType ==
  ASSUME NEW T, Separators \subseteq T, Ports \subseteq T, NEW p \in Ports \cup {NoPort}
  PROVE  Suffix(p) \in Seq(T) /\ (p = NoPort => Suffix(p) = <<>>)
<1>1. p = NoPort => Suffix(p) = <<>>
  BY DEF Suffix
<1>2. <<>> \in Seq(T)
  BY EmptySeq
<1>3. p \in Ports => Suffix(p) \in Seq(T)
  BY SuffixIs
<1> QED BY <1>1, <1>2, <1>3

\* A host in brackets, with a port or without one.
LEMMA BracketPort ==
  ASSUME NEW T, Separators \subseteq T, Ports \subseteq T,
         NEW h \in Seq(T), h # <<>>, \A i \in 1..Len(h) : h[i] # "]",
         NEW p \in Ports \cup {NoPort}
  PROVE  SplitBracketed(Bracket(h) \o Suffix(p)) = Valid(h, p)
<1> DEFINE b == Bracket(h)
           d == Suffix(p)
           s == b \o d
           k == Len(h)
<1>1. /\ b \in Seq(T) /\ Len(b) = k + 2 /\ b[1] = "[" /\ b[k + 2] = "]"
      /\ \A i \in 1..k : b[i + 1] = h[i]
  BY BracketShape
<1>2. k \in Nat /\ k # 0
  BY EmptySeq
<1>3. d \in Seq(T) /\ Len(d) \in Nat
  <2>1. d \in Seq(T)
    BY SuffixType
  <2> QED BY <2>1, LenProperties
<1> HIDE DEF b, d
<1>4. /\ s \in Seq(T) /\ Len(s) = Len(b) + Len(d)
      /\ \A i \in 1..Len(b) : s[i] = b[i]
      /\ SubSeq(s, Len(b) + 1, Len(b) + Len(d)) = d
  <2>1. b \in Seq(T) /\ d \in Seq(T)
    BY <1>1, <1>3
  <2> QED BY <2>1, JoinIs
<1> HIDE DEF s, k
<1>5. Len(s) = k + 2 + Len(d) /\ SubSeq(s, (k + 2) + 1, Len(s)) = d
  BY <1>1, <1>4
<1>6. At(s, "]") = k + 2
  <2>1. k + 2 \in 1..Len(s) /\ s[k + 2] = "]"
    BY <1>1, <1>2, <1>3, <1>4, <1>5
  <2>2. ASSUME NEW i \in 1..((k + 2) - 1) PROVE s[i] # "]"
    <3>1. i \in 1..(k + 2) /\ (i = 1 \/ i - 1 \in 1..k)
      BY <1>2
    <3>2. s[i] = b[i]
      BY <1>1, <1>4, <3>1
    <3>3. CASE i = 1
      BY <1>1, <3>2, <3>3, PortFacts
    <3>4. CASE i - 1 \in 1..k
      <4>1. (i - 1) + 1 = i
        BY <1>2
      <4>2. b[i] = h[i - 1]
        BY <1>1, <3>4, <4>1
      <4> QED BY <3>2, <3>4, <4>2 DEF k
    <3> QED BY <3>1, <3>3, <3>4
  <2> QED BY <1>4, <2>1, <2>2, AtUnique
<1>7. SubSeq(s, 2, (k + 2) - 1) = h
  <2>1. 1 + k <= Len(s) /\ 1 + 1 = 2 /\ 1 + k = (k + 2) - 1 /\ 1 \in Nat
    BY <1>2, <1>3, <1>5
  <2>2. /\ SubSeq(s, 1 + 1, 1 + k) \in Seq(T) /\ Len(SubSeq(s, 1 + 1, 1 + k)) = k
        /\ \A i \in 1..k : SubSeq(s, 1 + 1, 1 + k)[i] = s[1 + i]
    BY <1>2, <1>4, <2>1, CutIs
  <2> DEFINE u == SubSeq(s, 2, (k + 2) - 1)
  <2>3. u \in Seq(T) /\ Len(u) = k /\ \A i \in 1..k : u[i] = s[1 + i]
    BY <2>1, <2>2
  <2> HIDE DEF u
  <2>4. ASSUME NEW i \in 1..k PROVE s[1 + i] = h[i]
    <3>1. 1 + i = i + 1 /\ i + 1 \in 1..(k + 2)
      BY <1>2
    <3> QED BY <1>1, <1>4, <3>1
  <2>5. Len(u) = Len(h) /\ \A i \in 1..Len(u) : u[i] = h[i]
    BY <2>3, <2>4 DEF k
  <2>6. u = h
    BY <2>3, <2>5, SameSeq
  <2> QED BY <2>6 DEF u
<1>8. SplitBracketed(s) = IF k + 2 = 0 \/ h = <<>> THEN Invalid
                          ELSE IF d = <<>> THEN Valid(h, NoPort)
                          ELSE IF d[1] # ":" THEN Invalid
                          ELSE ParsePort(Tail(d), h)
  BY <1>5, <1>6, <1>7 DEF SplitBracketed, After
<1>9. k + 2 # 0
  BY <1>2
<1>10. CASE p = NoPort
  <2>1. d = <<>>
    BY <1>10 DEF d, Suffix
  <2> QED BY <1>8, <1>9, <1>10, <2>1 DEF s, b, d
<1>11. CASE p \in Ports
  <2>1. d = <<":", p>>
    BY <1>11, SuffixIs DEF d
  <2>2. d # <<>> /\ d[1] = ":" /\ Tail(d) = <<p>>
    BY <2>1
  <2>3. SplitBracketed(s) = ParsePort(<<p>>, h)
    BY <1>8, <1>9, <2>2
  <2> QED BY <1>11, <2>3, PortOnly DEF s, b, d
<1> QED BY <1>10, <1>11

\* What SplitBracketed makes of a text that begins with a bracket.
LEMMA BracketIs ==
  ASSUME NEW T, Separators \subseteq T, Ports \subseteq T,
         NEW s \in Seq(T), s # <<>>, s[1] = "[", SplitBracketed(s).ok
  PROVE  \E h \in Seq(T), p \in Ports \cup {NoPort} :
           /\ s = Bracket(h) \o Suffix(p) /\ h # <<>> /\ \A i \in 1..Len(h) : h[i] # "]"
           /\ SplitBracketed(s) = Valid(h, p)
<1> DEFINE n == At(s, "]")
           h == SubSeq(s, 2, n - 1)
           t == SubSeq(s, n + 1, Len(s))
           g == SubSeq(s, 1, n)
<1>0. Len(s) \in Nat
  OBVIOUS
<1>1. /\ n \in 0..Len(s)
      /\ n # 0 => s[n] = "]" /\ \A i \in 1..(n - 1) : s[i] # "]"
  BY AtIs
<1>2. SplitBracketed(s) = IF n = 0 \/ h = <<>> THEN Invalid
                          ELSE IF t = <<>> THEN Valid(h, NoPort)
                          ELSE IF t[1] # ":" THEN Invalid
                          ELSE ParsePort(Tail(t), h)
  BY DEF SplitBracketed, After
<1> HIDE DEF n
<1>3. n # 0 /\ h # <<>> /\ (t = <<>> \/ t[1] = ":")
  BY <1>2, ValidIs
<1>4. n > 2
  <2>1. n - 1 < 2 => h = <<>>
    BY <1>1, SubSeqEmpty
  <2> QED BY <1>1, <1>3, <2>1
<1>5. /\ h \in Seq(T) /\ Len(h) = n - 2
      /\ \A i \in 1..(n - 2) : h[i] = s[1 + i]
  <2>1. n - 2 \in Nat /\ 1 \in Nat /\ 1 + (n - 2) <= Len(s) /\ 1 + 1 = 2 /\ 1 + (n - 2) = n - 1
    BY <1>0, <1>1, <1>4
  <2>2. /\ SubSeq(s, 1 + 1, 1 + (n - 2)) \in Seq(T)
        /\ Len(SubSeq(s, 1 + 1, 1 + (n - 2))) = n - 2
        /\ \A i \in 1..(n - 2) : SubSeq(s, 1 + 1, 1 + (n - 2))[i] = s[1 + i]
    BY <2>1, CutIs
  <2> QED BY <2>1, <2>2
<1>6. /\ g \in Seq(T) /\ Len(g) = n /\ \A i \in 1..n : g[i] = s[i]
      /\ t \in Seq(T) /\ s = g \o t
  BY <1>1, CutInTwo
<1> HIDE DEF h, t, g
<1>7. g = Bracket(h)
  <2> DEFINE b == Bracket(h)
  <2>1. /\ b \in Seq(T) /\ Len(b) = Len(h) + 2 /\ b[1] = "[" /\ b[Len(h) + 2] = "]"
        /\ \A i \in 1..Len(h) : b[i + 1] = h[i]
    BY <1>5, BracketShape
  <2> HIDE DEF b
  <2>2. Len(h) + 2 = n
    BY <1>1, <1>4, <1>5
  <2>3. ASSUME NEW i \in 1..n PROVE g[i] = b[i]
    <3>1. i = 1 \/ i = n \/ i - 1 \in 1..(n - 2)
      BY <1>1
    <3>2. g[i] = s[i]
      BY <1>6
    <3>3. CASE i = 1
      BY <2>1, <3>2, <3>3
    <3>4. CASE i = n
      BY <1>1, <1>3, <2>1, <2>2, <3>2, <3>4
    <3>5. CASE i - 1 \in 1..(n - 2)
      <4>1. 1 + (i - 1) = i /\ (i - 1) + 1 = i
        BY <1>1
      <4>2. b[(i - 1) + 1] = h[i - 1] /\ h[i - 1] = s[1 + (i - 1)]
        BY <1>5, <2>1, <3>5
      <4> QED BY <3>2, <4>1, <4>2
    <3> QED BY <3>1, <3>3, <3>4, <3>5
  <2>4. Len(g) = Len(b) /\ \A i \in 1..Len(g) : g[i] = b[i]
    BY <1>6, <2>1, <2>2, <2>3
  <2>5. g = b
    BY <1>6, <2>1, <2>4, SameSeq
  <2> QED BY <2>5 DEF b
<1>8. \A i \in 1..Len(h) : h[i] # "]"
  <2>1. ASSUME NEW i \in 1..Len(h) PROVE h[i] # "]"
    <3>1. i \in 1..(n - 2) /\ 1 + i \in 1..(n - 1)
      BY <1>1, <1>4, <1>5
    <3> QED BY <1>1, <1>3, <1>5, <3>1
  <2> QED BY <2>1
<1>9. CASE t = <<>>
  <2>1. SplitBracketed(s) = Valid(h, NoPort) /\ t = Suffix(NoPort)
    BY <1>2, <1>3, <1>9 DEF Suffix
  <2> QED BY <1>3, <1>5, <1>6, <1>7, <1>8, <2>1
<1>10. CASE t # <<>>
  <2>1. t[1] = ":" /\ SplitBracketed(s) = ParsePort(Tail(t), h)
    BY <1>2, <1>3, <1>10
  <2>2. /\ Tail(t) \in Seq(T) /\ Len(Tail(t)) = Len(t) - 1
        /\ \A i \in 1..Len(Tail(t)) : Tail(t)[i] = t[i + 1]
    BY <1>6, <1>10, HeadTailProperties
  <2>3. PICK p \in Ports : Tail(t) = <<p>> /\ ParsePort(Tail(t), h) = Valid(h, p)
    <3>1. ParsePort(Tail(t), h).ok
      BY <2>1
    <3>2. Tail(t) \in Seq(T)
      BY <2>2
    <3> QED BY <3>1, <3>2, PortRead
  <2>4. Len(Tail(t)) = 1 /\ Tail(t)[1] = p
    <3>1. Len(<<p>>) = 1 /\ <<p>>[1] = p
      OBVIOUS
    <3> QED BY <2>3, <3>1, Zenon
  <2>5. Len(t) = 2 /\ t[2] = p
    <3>1. Len(t) \in Nat
      BY <1>6
    <3>2. Len(t) - 1 = 1
      BY <2>2, <2>4, Zenon
    <3>4. 1 \in 1..1 /\ 1 + 1 = 2
      OBVIOUS
    <3>3. Tail(t)[1] = t[1 + 1] /\ 1 + 1 = 2
      BY <2>2, <2>4, <3>4, Zenon
    <3> QED BY <2>4, <3>1, <3>2, <3>3
  <2>6. t = <<":", p>>
    BY <1>6, <2>1, <2>5, PairIs
  <2>7. t = Suffix(p)
    BY <2>6, SuffixIs
  <2>8. SplitBracketed(s) = Valid(h, p) /\ p \in Ports \cup {NoPort}
    BY <2>1, <2>3
  <2> QED BY <1>3, <1>5, <1>6, <1>7, <1>8, <2>7, <2>8
<1> QED BY <1>9, <1>10

\* No colon, or two.
AllHost(s) == \/ \A i \in 1..Len(s) : s[i] # ":"
              \/ \E i, j \in 1..Len(s) : i # j /\ s[i] = ":" /\ s[j] = ":"

LEMMA ColonsAre ==
  ASSUME NEW T, NEW s \in Seq(T)
  PROVE  Cardinality(Colons(s)) > 1 <=> Has(s, ":") /\ AllHost(s)
<1> DEFINE C == Colons(s)
<1>1. C = {i \in 1..Len(s) : s[i] = ":"} /\ Len(s) \in Nat
  BY DEF Colons
<1>2. IsFiniteSet(C)
  <2>1. IsFiniteSet(1..Len(s)) /\ C \subseteq 1..Len(s)
    BY <1>1, FS_Interval
  <2> QED BY <2>1, FS_Subset
<1>3. Cardinality(C) = 1 <=> \E x : C = {x}
  BY <1>2, FS_Singleton
<1>4. (\E x : C = {x}) <=> ~AllHost(s)
  <2>1. ASSUME NEW x, C = {x} PROVE ~AllHost(s)
    BY <1>1, <2>1 DEF AllHost
  <2>2. ASSUME ~AllHost(s) PROVE \E x : C = {x}
    <3>1. PICK x \in 1..Len(s) : s[x] = ":"
      BY <2>2 DEF AllHost
    <3>2. \A y \in 1..Len(s) : s[y] = ":" => y = x
      BY <2>2, <3>1 DEF AllHost
    <3>3. C = {x}
      BY <1>1, <3>1, <3>2
    <3> QED BY <3>3
  <2> QED BY <2>1, <2>2
<1>5. C # {} <=> Has(s, ":")
  BY <1>1, HasIs
<1>6. Cardinality(C) \in Nat /\ (Cardinality(C) = 0 <=> C = {})
  BY <1>2, FS_CardinalityType, FS_EmptySet
<1>7. Cardinality(C) > 1 <=> Cardinality(C) # 0 /\ Cardinality(C) # 1
  BY <1>6
<1> HIDE DEF C
<1>8. Cardinality(C) > 1 <=> Has(s, ":") /\ AllHost(s)
  BY <1>3, <1>4, <1>5, <1>6, <1>7
<1> QED BY <1>8 DEF C

\* The two ways to read a text as a host and a port.
InBrackets(s, h, p) == /\ s = Bracket(h) \o Suffix(p)
                       /\ \A i \in 1..Len(h) : h[i] # "]"
Bare(s, h, p) == /\ s = h \o Suffix(p) /\ h[1] # "["
                 /\ IF p = NoPort THEN AllHost(h) ELSE \A i \in 1..Len(h) : h[i] # ":"

\* What the code takes for a host and a port is a reading of the list, or a literal
\* without brackets.
Taken(s, h, p) == Reads(s, h, p) \/ Unbracketed(s, h, p)

LEMMA TakenIs ==
  ASSUME NEW T, NEW h \in Seq(T), NEW s, NEW p
  PROVE  Taken(s, h, p) <=> h # <<>> /\ (InBrackets(s, h, p) \/ Bare(s, h, p))
<1>1. ~Has(h, "]") <=> \A i \in 1..Len(h) : h[i] # "]"
  BY HasIs
<1>2. ~Has(h, ":") <=> \A i \in 1..Len(h) : h[i] # ":"
  BY HasIs
<1>3. Reads(s, h, p) <=>
        /\ h # <<>>
        /\ \/ s = Bracket(h) \o Suffix(p) /\ ~Has(h, "]")
           \/ s = h \o Suffix(p) /\ h[1] # "[" /\ ~Has(h, ":")
  BY DEF Reads, Bracket, Suffix
<1>4. Cardinality(Colons(h)) > 1 <=> Has(h, ":") /\ AllHost(h)
  BY ColonsAre
<1>5. p = NoPort => h \o Suffix(p) = h
  BY ConcatEmptySeq DEF Suffix
<1>6. Unbracketed(s, h, p) <=> /\ p = NoPort /\ s = h \o Suffix(p) /\ h[1] # "["
                               /\ Has(h, ":") /\ AllHost(h)
  BY <1>4, <1>5 DEF Unbracketed
<1>7. Has(h, ":") => h # <<>>
  BY <1>2, EmptySeq
<1>8. ~Has(h, ":") => AllHost(h)
  BY <1>2 DEF AllHost
<1>9. Bare(s, h, p) <=> /\ s = h \o Suffix(p) /\ h[1] # "["
                        /\ IF p = NoPort THEN AllHost(h) ELSE ~Has(h, ":")
  BY <1>2 DEF Bare
<1>10. InBrackets(s, h, p) <=> s = Bracket(h) \o Suffix(p) /\ ~Has(h, "]")
  BY <1>1 DEF InBrackets
<1> QED BY <1>3, <1>6, <1>7, <1>8, <1>9, <1>10 DEF Taken

\* A text that can be read as a host and a port is read so, in the only way ...
LEMMA HostPort ==
  ASSUME NEW T, Separators \subseteq T, Ports \subseteq T, NEW s \in Seq(T),
         NEW h \in Seq(T), NEW p \in Ports \cup {NoPort}, Taken(s, h, p)
  PROVE  SplitHostPort(s) = Valid(h, p)
<1>1. h # <<>> /\ (InBrackets(s, h, p) \/ Bare(s, h, p))
  BY TakenIs
<1>2. Suffix(p) \in Seq(T)
  BY SuffixType
<1>3. Len(h) \in Nat /\ Len(h) # 0 /\ 1 \in 1..Len(h)
  BY <1>1, EmptySeq
<1>4. CASE InBrackets(s, h, p)
  <2>1. /\ Bracket(h) \in Seq(T) /\ Len(Bracket(h)) = Len(h) + 2 /\ Bracket(h)[1] = "["
    BY BracketShape
  <2>2. 1 \in 1..Len(Bracket(h))
    BY <1>3, <2>1
  <2>3. s[1] = "[" /\ Len(s) = Len(Bracket(h)) + Len(Suffix(p))
    <3>1. s = Bracket(h) \o Suffix(p)
      BY <1>4 DEF InBrackets
    <3> DEFINE b == Bracket(h)
               d == Suffix(p)
    <3>2. b \in Seq(T) /\ d \in Seq(T)
      BY <1>2, <2>1
    <3> HIDE DEF b, d
    <3>3. /\ Len(b \o d) = Len(b) + Len(d)
          /\ \A i \in 1..Len(b) : (b \o d)[i] = b[i]
      BY <3>2, JoinIs
    <3> QED BY <2>1, <2>2, <3>1, <3>3 DEF b, d
  <2>4. Len(Suffix(p)) \in Nat
    BY <1>2, LenProperties
  <2>5. s # <<>>
    <3>1. Len(s) # 0
      BY <1>3, <2>1, <2>3, <2>4
    <3> QED BY <3>1, EmptySeq
  <2>6. SplitBracketed(s) = Valid(h, p)
    BY <1>1, <1>4, BracketPort DEF InBrackets
  <2> QED BY <2>3, <2>5, <2>6 DEF SplitHostPort
<1>5. CASE Bare(s, h, p)
  <2>1. s[1] = h[1] /\ Len(s) = Len(h) + Len(Suffix(p))
    BY <1>2, <1>3, <1>5, JoinIs DEF Bare
  <2>2. s[1] # "["
    BY <1>5, <2>1 DEF Bare
  <2>3. s # <<>>
    <3>1. Len(Suffix(p)) \in Nat
      BY <1>2, LenProperties
    <3>2. Len(s) # 0
      BY <1>3, <2>1, <3>1
    <3> QED BY <3>2, EmptySeq
  <2>4. SplitPlain(s) = Valid(h, p)
    <3>1. CASE p = NoPort
      <4>1. Suffix(p) = <<>>
        BY <3>1 DEF Suffix
      <4>2. s = h /\ AllHost(s)
        BY <1>5, <3>1, <4>1, ConcatEmptySeq DEF Bare
      <4> QED BY <3>1, <4>2, PlainWhole DEF AllHost
    <3>2. CASE p \in Ports
      <4>1. p # NoPort /\ Suffix(p) = <<":", p>>
        BY <3>2, PortFacts, SuffixIs
      <4>2. s = h \o <<":", p>> /\ \A i \in 1..Len(h) : h[i] # ":"
        BY <1>5, <4>1 DEF Bare
      <4> QED BY <1>1, <3>2, <4>2, PlainPort
    <3> QED BY <3>1, <3>2
  <2> QED BY <2>2, <2>3, <2>4 DEF SplitHostPort
<1> QED BY <1>1, <1>4, <1>5

\* ... and no other text is.
LEMMA HostPortIs ==
  ASSUME NEW T, Separators \subseteq T, Ports \subseteq T, NEW s \in Seq(T), SplitHostPort(s).ok
  PROVE  \E h \in Seq(T), p \in Ports \cup {NoPort} :
           Taken(s, h, p) /\ SplitHostPort(s) = Valid(h, p)
<1>1. s # <<>>
  BY ValidIs DEF SplitHostPort
<1>2. CASE s[1] = "["
  <2>1. SplitHostPort(s) = SplitBracketed(s)
    BY <1>1, <1>2 DEF SplitHostPort
  <2>2. PICK h \in Seq(T), p \in Ports \cup {NoPort} :
           /\ s = Bracket(h) \o Suffix(p) /\ h # <<>> /\ \A i \in 1..Len(h) : h[i] # "]"
           /\ SplitBracketed(s) = Valid(h, p)
    BY <1>1, <1>2, <2>1, BracketIs
  <2>3. Taken(s, h, p)
    BY <2>2, TakenIs DEF InBrackets
  <2> QED BY <2>1, <2>2, <2>3
<1>3. CASE s[1] # "["
  <2>1. SplitHostPort(s) = SplitPlain(s)
    BY <1>1, <1>3 DEF SplitHostPort
  <2>2. \/ SplitPlain(s) = Valid(s, NoPort) /\ AllHost(s)
        \/ \E h \in Seq(T), p \in Ports :
              /\ s = h \o <<":", p>> /\ h # <<>> /\ \A i \in 1..Len(h) : h[i] # ":"
              /\ SplitPlain(s) = Valid(h, p)
    BY <2>1, PlainIs DEF AllHost
  <2>3. CASE SplitPlain(s) = Valid(s, NoPort) /\ AllHost(s)
    <3>1. Suffix(NoPort) = <<>>
      BY DEF Suffix
    <3>2. s = s \o Suffix(NoPort)
      BY <3>1, ConcatEmptySeq
    <3>3. Bare(s, s, NoPort)
      BY <1>3, <2>3, <3>2 DEF Bare
    <3>4. Taken(s, s, NoPort)
      BY <1>1, <3>3, TakenIs
    <3> QED BY <2>1, <2>3, <3>4
  <2>4. CASE \E h \in Seq(T), p \in Ports :
              /\ s = h \o <<":", p>> /\ h # <<>> /\ \A i \in 1..Len(h) : h[i] # ":"
              /\ SplitPlain(s) = Valid(h, p)
    <3>1. PICK h \in Seq(T), p \in Ports :
              /\ s = h \o <<":", p>> /\ h # <<>> /\ \A i \in 1..Len(h) : h[i] # ":"
              /\ SplitPlain(s) = Valid(h, p)
      BY <2>4
    <3>2. p # NoPort /\ Suffix(p) = <<":", p>> /\ Suffix(p) \in Seq(T)
      BY PortFacts, SuffixIs
    <3>3. 1 \in 1..Len(h)
      BY <3>1, EmptySeq
    <3>4. s[1] = h[1]
      BY <3>1, <3>2, <3>3, JoinIs
    <3>5. Bare(s, h, p)
      BY <1>3, <3>1, <3>2, <3>4 DEF Bare
    <3>6. Taken(s, h, p)
      BY <3>1, <3>5, TakenIs
    <3> QED BY <2>1, <3>1, <3>6
  <2> QED BY <2>2, <2>3, <2>4
<1> QED BY <1>2, <1>3

\* "://"
Mark == <<":", "/", "/">>
MarkAt(s, i) == s[i] = ":" /\ s[i + 1] = "/" /\ s[i + 2] = "/"

\* A sequence of three.
LEMMA TripleIs ==
  ASSUME NEW T, NEW s \in Seq(T), Len(s) = 3
  PROVE  s = <<s[1], s[2], s[3]>>
<1>1. s[1] \in T /\ s[2] \in T /\ s[3] \in T
  OBVIOUS
<1> DEFINE d == <<s[1], s[2], s[3]>>
<1>2. d \in Seq(T) /\ Len(d) = 3 /\ d[1] = s[1] /\ d[2] = s[2] /\ d[3] = s[3]
  BY <1>1
<1> HIDE DEF d
<1>3. \A i \in 1..3 : s[i] = d[i]
  BY <1>2
<1>4. s = d
  BY <1>2, <1>3, SameSeq
<1> QED BY <1>4 DEF d

LEMMA MarkIs ==
  ASSUME NEW T, NEW s \in Seq(T), NEW i \in 1..(Len(s) - 2)
  PROVE  SubSeq(s, i, i + 2) = Mark <=> MarkAt(s, i)
<1> DEFINE k == i - 1
           u == SubSeq(s, i, i + 2)
<1>1. k \in Nat /\ 3 \in Nat /\ k + 3 <= Len(s) /\ k + 1 = i /\ k + 2 = i + 1 /\ k + 3 = i + 2
  OBVIOUS
<1> HIDE DEF k
<1>2. /\ SubSeq(s, k + 1, k + 3) \in Seq(T) /\ Len(SubSeq(s, k + 1, k + 3)) = 3
      /\ \A j \in 1..3 : SubSeq(s, k + 1, k + 3)[j] = s[k + j]
  BY <1>1, CutIs
<1>3. u \in Seq(T) /\ Len(u) = 3 /\ u[1] = s[i] /\ u[2] = s[i + 1] /\ u[3] = s[i + 2]
  BY <1>1, <1>2
<1> HIDE DEF u
<1>4. u = <<s[i], s[i + 1], s[i + 2]>>
  BY <1>3, TripleIs
<1>5. SubSeq(s, i, i + 2) = u
  BY DEF u
<1>6. MarkAt(s, i) => u = Mark
  BY <1>4 DEF MarkAt, Mark
<1>7. u = Mark => MarkAt(s, i)
  <2>1. Mark[1] = ":" /\ Mark[2] = "/" /\ Mark[3] = "/"
    BY DEF Mark
  <2> QED BY <1>3, <2>1 DEF MarkAt
<1> QED BY <1>5, <1>6, <1>7

\* strings.Index of "://": the first place, or 0.
LEMMA SchemeEndIs ==
  ASSUME NEW T, NEW s \in Seq(T)
  PROVE  /\ SchemeEnd(s) \in 0..Len(s)
         /\ SchemeEnd(s) = 0 => \A i \in 1..(Len(s) - 2) : ~MarkAt(s, i)
         /\ SchemeEnd(s) # 0 => /\ SchemeEnd(s) \in 1..(Len(s) - 2)
                                /\ MarkAt(s, SchemeEnd(s))
                                /\ \A i \in 1..(SchemeEnd(s) - 1) : ~MarkAt(s, i)
<1> DEFINE I == {i \in 1..(Len(s) - 2) : SubSeq(s, i, i + 2) = Mark}
           J == {i \in 1..(Len(s) - 2) : MarkAt(s, i)}
           e == SchemeEnd(s)
<1>1. e = IF I = {} THEN 0 ELSE CHOOSE i \in I : \A j \in I : i <= j
  BY DEF SchemeEnd, Mark
<1>2. I = J
  BY MarkIs
<1>0. Len(s) \in Nat
  OBVIOUS
<1> HIDE DEF I, e
<1>3. CASE J = {}
  BY <1>0, <1>1, <1>2, <1>3 DEF e
<1>4. CASE J # {}
  <2>1. J \in SUBSET Nat
    OBVIOUS
  <2>2. \E n \in J : \A m \in J : n <= m
    <3> HIDE DEF J
    <3> QED BY <1>4, <2>1, LeastElement
  <2>3. e \in J /\ \A m \in J : e <= m
    <3> HIDE DEF J
    <3> QED BY <1>1, <1>2, <1>4, <2>2
  <2>4. e \in 1..(Len(s) - 2) /\ MarkAt(s, e)
    BY <2>3
  <2>5. ASSUME NEW i \in 1..(e - 1) PROVE ~MarkAt(s, i)
    <3>1. i \in 1..(Len(s) - 2) /\ ~(e <= i)
      BY <1>0, <2>4
    <3> QED BY <2>3, <3>1
  <2> QED BY <1>0, <2>4, <2>5 DEF e
<1> QED BY <1>3, <1>4

\* What precedes the first colon of a text, if "://" is there, is its scheme.
LEMMA SchemeEndUnique ==
  ASSUME NEW T, NEW s \in Seq(T), NEW n \in 1..(Len(s) - 2), MarkAt(s, n),
         \A i \in 1..(n - 1) : s[i] # ":"
  PROVE  SchemeEnd(s) = n
<1> DEFINE e == SchemeEnd(s)
<1>1. /\ e \in 0..Len(s)
      /\ e = 0 => \A i \in 1..(Len(s) - 2) : ~MarkAt(s, i)
      /\ e # 0 => /\ e \in 1..(Len(s) - 2) /\ MarkAt(s, e)
                  /\ \A i \in 1..(e - 1) : ~MarkAt(s, i)
  BY SchemeEndIs
<1>0. Len(s) \in Nat /\ n \in Nat
  OBVIOUS
<1> HIDE DEF e
<1>2. e # 0
  BY <1>1
<1>3. ~(n < e)
  BY <1>0, <1>1, <1>2
<1>4. ~(e < n)
  <2>1. s[e] = ":"
    BY <1>1, <1>2 DEF MarkAt
  <2> QED BY <1>0, <1>1, <1>2, <2>1
<1>5. e = n
  BY <1>0, <1>1, <1>3, <1>4
<1> QED BY <1>5 DEF e

\* One '/' at the end is left out.
Slashes == {<<>>, <<"/">>}
Unslash(s) == IF s # <<>> /\ Last(s) = "/" THEN Front(s) ELSE s

LEMMA SlashType == ASSUME NEW T, Separators \subseteq T, NEW d \in Slashes
                   PROVE  /\ d \in Seq(T) /\ Len(d) \in {0, 1}
                          /\ d # <<>> => d = <<"/">> /\ Len(d) = 1 /\ d[1] = "/"
<1>1. "/" \in T
  BY DEF Separators
<1>2. <<"/">> \in Seq(T) /\ Len(<<"/">>) = 1 /\ <<"/">>[1] = "/"
  BY <1>1
<1>3. <<>> \in Seq(T) /\ Len(<<>>) = 0
  BY EmptySeq
<1>4. d = <<>> \/ d = <<"/">>
  BY DEF Slashes
<1> QED BY <1>2, <1>3, <1>4

LEMMA UnslashIs ==
  ASSUME NEW T, Separators \subseteq T, NEW s \in Seq(T)
  PROVE  Unslash(s) \in Seq(T) /\ \E d \in Slashes : s = Unslash(s) \o d
<1>1. CASE s # <<>> /\ Last(s) = "/"
  <2> DEFINE n == Len(s) - 1
  <2>1. Len(s) \in Nat /\ Len(s) # 0 /\ n \in 0..Len(s) /\ n + 1 = Len(s) /\ Len(s) - n = 1
    BY <1>1, EmptySeq
  <2> HIDE DEF n
  <2>2. /\ SubSeq(s, 1, n) \in Seq(T)
        /\ SubSeq(s, n + 1, Len(s)) \in Seq(T) /\ Len(SubSeq(s, n + 1, Len(s))) = Len(s) - n
        /\ \A i \in 1..(Len(s) - n) : SubSeq(s, n + 1, Len(s))[i] = s[n + i]
        /\ s = SubSeq(s, 1, n) \o SubSeq(s, n + 1, Len(s))
    BY <2>1, CutInTwo
  <2> DEFINE u == SubSeq(s, n + 1, Len(s))
  <2>3. u \in Seq(T) /\ Len(u) = 1 /\ u[1] = "/"
    <3>1. 1 \in 1..(Len(s) - n)
      BY <2>1
    <3> QED BY <1>1, <2>1, <2>2, <3>1 DEF Last
  <2>4. s = SubSeq(s, 1, n) \o u
    BY <2>2
  <2> HIDE DEF u
  <2>5. u = <<"/">>
    BY <2>3
  <2>6. Unslash(s) = SubSeq(s, 1, n)
    BY <1>1 DEF Unslash, Front, n
  <2> QED BY <2>2, <2>4, <2>5, <2>6 DEF Slashes
<1>2. CASE ~(s # <<>> /\ Last(s) = "/")
  <2>1. Unslash(s) = s /\ s = s \o <<>>
    BY <1>2, ConcatEmptySeq DEF Unslash
  <2> QED BY <2>1 DEF Slashes
<1> QED BY <1>1, <1>2

LEMMA UnslashOf ==
  ASSUME NEW T, Separators \subseteq T, NEW r \in Seq(T), NEW d \in Slashes,
         \A i \in 1..Len(r) : r[i] # "/"
  PROVE  Unslash(r \o d) = r
<1> DEFINE s == r \o d
           k == Len(r)
<1>1. d \in Seq(T) /\ Len(d) \in {0, 1} /\ (d # <<>> => d = <<"/">> /\ Len(d) = 1 /\ d[1] = "/")
  BY SlashType
<1>2. /\ s \in Seq(T) /\ Len(s) = k + Len(d)
      /\ \A i \in 1..Len(d) : s[k + i] = d[i]
      /\ SubSeq(s, 1, k) = r
  BY <1>1, JoinIs
<1>3. k \in Nat
  OBVIOUS
<1>4. CASE d = <<>>
  <2>1. s = r
    BY <1>4, ConcatEmptySeq
  <2>2. ~(r # <<>> /\ Last(r) = "/")
    <3>1. r # <<>> => k \in 1..Len(r)
      BY EmptySeq
    <3> QED BY <3>1 DEF Last
  <2> QED BY <2>1, <2>2 DEF Unslash
<1>5. CASE d # <<>>
  <2> HIDE DEF s, k
  <2>1. Len(s) = k + 1
    BY <1>1, <1>2, <1>5
  <2>2. s[k + 1] = "/"
    <3>1. 1 \in 1..Len(d)
      BY <1>1, <1>5
    <3> QED BY <1>1, <1>2, <1>5, <3>1
  <2>3. s # <<>> /\ Last(s) = "/"
    <3>1. Len(s) # 0
      BY <1>3, <2>1
    <3> QED BY <2>1, <2>2, <3>1, EmptySeq DEF Last
  <2>4. Len(s) - 1 = k
    BY <1>3, <2>1
  <2>5. Unslash(s) = r
    BY <1>2, <2>3, <2>4 DEF Unslash, Front
  <2> QED BY <2>5 DEF s
<1> QED BY <1>4, <1>5

LEMMA RestDef ==
  ASSUME NEW rest, NEW dp
  PROVE  ParseRest(rest, dp) =
           IF Has(Unslash(rest), "/") THEN Invalid
           ELSE IF SplitHostPort(Unslash(rest)).ok /\ SplitHostPort(Unslash(rest)).port = NoPort
                  THEN Valid(SplitHostPort(Unslash(rest)).host, dp)
                  ELSE SplitHostPort(Unslash(rest))
BY DEF ParseRest, Unslash

\* What follows a scheme, taken with the port that holds when it has none.
TakesRest(r, h, p, dp) == Taken(r, h, p) \/ (p = dp /\ Taken(r, h, NoPort))

LEMMA RestRead ==
  ASSUME NEW T, Separators \subseteq T, Ports \subseteq T, NEW r \in Seq(T), NEW d \in Slashes,
         \A i \in 1..Len(r) : r[i] # "/", NEW dp \in Ports,
         NEW h \in Seq(T), NEW p \in Ports, TakesRest(r, h, p, dp)
  PROVE  ParseRest(r \o d, dp) = Valid(h, p)
<1>1. Unslash(r \o d) = r
  BY UnslashOf
<1>2. ~Has(r, "/")
  BY HasIs
<1>3. ParseRest(r \o d, dp) = IF SplitHostPort(r).ok /\ SplitHostPort(r).port = NoPort
                                THEN Valid(SplitHostPort(r).host, dp) ELSE SplitHostPort(r)
  BY <1>1, <1>2, RestDef
<1>4. CASE Taken(r, h, p)
  <2>1. SplitHostPort(r) = Valid(h, p)
    BY <1>4, HostPort
  <2>2. p # NoPort
    BY PortFacts
  <2> QED BY <1>3, <2>1, <2>2, ValidIs
<1>5. CASE p = dp /\ Taken(r, h, NoPort)
  <2>1. SplitHostPort(r) = Valid(h, NoPort)
    BY <1>5, HostPort
  <2> QED BY <1>3, <1>5, <2>1, ValidIs
<1> QED BY <1>4, <1>5 DEF TakesRest

LEMMA RestIs ==
  ASSUME NEW T, Separators \subseteq T, Ports \subseteq T, NEW rest \in Seq(T), NEW dp \in Ports,
         ParseRest(rest, dp).ok
  PROVE  \E r \in Seq(T), d \in Slashes, h \in Seq(T), p \in Ports :
           /\ rest = r \o d /\ \A i \in 1..Len(r) : r[i] # "/"
           /\ TakesRest(r, h, p, dp) /\ ParseRest(rest, dp) = Valid(h, p)
<1> DEFINE r == Unslash(rest)
<1>1. PICK d \in Slashes : r \in Seq(T) /\ rest = r \o d
  BY UnslashIs
<1>2. ParseRest(rest, dp) = IF Has(r, "/") THEN Invalid
                            ELSE IF SplitHostPort(r).ok /\ SplitHostPort(r).port = NoPort
                              THEN Valid(SplitHostPort(r).host, dp) ELSE SplitHostPort(r)
  BY RestDef
<1> HIDE DEF r
<1>3. ~Has(r, "/") /\ SplitHostPort(r).ok
  BY <1>2, ValidIs
<1>4. \A i \in 1..Len(r) : r[i] # "/"
  BY <1>1, <1>3, HasIs
<1>5. PICK h \in Seq(T), q \in Ports \cup {NoPort} :
        Taken(r, h, q) /\ SplitHostPort(r) = Valid(h, q)
  BY <1>1, <1>3, HostPortIs
<1>6. CASE q = NoPort
  <2>1. ParseRest(rest, dp) = Valid(h, dp)
    BY <1>2, <1>3, <1>5, <1>6, ValidIs
  <2>2. TakesRest(r, h, dp, dp)
    BY <1>5, <1>6 DEF TakesRest
  <2> QED BY <1>1, <1>4, <2>1, <2>2
<1>7. CASE q \in Ports
  <2>1. ParseRest(rest, dp) = Valid(h, q)
    <3>1. q # NoPort
      BY <1>7, PortFacts
    <3>2. SplitHostPort(r).port = q
      BY <1>5, ValidIs
    <3> QED BY <1>2, <1>3, <1>5, <3>1, <3>2
  <2>2. TakesRest(r, h, q, dp)
    BY <1>5 DEF TakesRest
  <2> QED BY <1>1, <1>4, <1>7, <2>1, <2>2
<1> QED BY <1>6, <1>7

\* A config an application can have: no colon in its scheme (nor does
\* the form scheme://host allow one; the code would find it before "://" and take it).
AppConfig(f) == f.port \in Ports /\ \A i \in DOMAIN f.scheme : f.scheme[i] # ":"

\* ParseEndpoint of a text without blanks around it.
ParseText(s, f) ==
  IF SchemeEnd(s) # 0
    THEN IF ToLower(Upto(s, SchemeEnd(s))) = <<"http">> \/ ToLower(Upto(s, SchemeEnd(s))) # f.scheme
           THEN Invalid
           ELSE ParseRest(SubSeq(s, SchemeEnd(s) + 3, Len(s)), f.port)
    ELSE IF SplitHostPort(s).ok /\ SplitHostPort(s).port = NoPort THEN Invalid ELSE SplitHostPort(s)

LEMMA ParseIs == ASSUME NEW g, NEW f PROVE ParseEndpoint(g, f) = ParseText(TrimSpace(g), f)
BY DEF ParseEndpoint, ParseText

\* Capitals are no colons.
LEMMA LowerIs ==
  ASSUME NEW T, NEW w \in Seq(T), NEW f, AppConfig(f), ToLower(w) = f.scheme
  PROVE  \A i \in 1..Len(w) : w[i] # ":"
<1>1. ASSUME NEW i \in 1..Len(w), w[i] = ":" PROVE FALSE
  <2>1. i \in DOMAIN w /\ DOMAIN ToLower(w) = DOMAIN w
    BY DEF ToLower
  <2>2. ":" # "APP"
    OBVIOUS
  <2>3. ToLower(w)[i] = ":"
    BY <1>1, <2>1, <2>2 DEF ToLower
  <2> QED BY <2>1, <2>3 DEF AppConfig
<1> QED BY <1>1

\* A text with scheme w, and rest u.
Schemed(w, u) == (w \o Mark) \o u

LEMMA SchemedIs ==
  ASSUME NEW T, Separators \subseteq T, NEW w \in Seq(T), NEW u \in Seq(T)
  PROVE  /\ Schemed(w, u) \in Seq(T) /\ Len(Schemed(w, u)) = Len(w) + 3 + Len(u)
         /\ \A i \in 1..Len(w) : Schemed(w, u)[i] = w[i]
         /\ MarkAt(Schemed(w, u), Len(w) + 1)
         /\ SubSeq(Schemed(w, u), 1, Len(w)) = w
         /\ SubSeq(Schemed(w, u), Len(w) + 4, Len(Schemed(w, u))) = u
<1> DEFINE a == w \o Mark
           s == a \o u
           k == Len(w)
<1>1. Mark \in Seq(T) /\ Len(Mark) = 3 /\ Mark[1] = ":" /\ Mark[2] = "/" /\ Mark[3] = "/"
  <2>1. ":" \in T /\ "/" \in T
    BY DEF Separators
  <2> QED BY <2>1 DEF Mark
<1>2. k \in Nat /\ Len(u) \in Nat
  OBVIOUS
<1>3. /\ a \in Seq(T) /\ Len(a) = k + Len(Mark)
      /\ \A i \in 1..k : a[i] = w[i]
      /\ \A i \in 1..Len(Mark) : a[k + i] = Mark[i]
  <2>1. Mark \in Seq(T)
    BY <1>1
  <2> QED BY <2>1, JoinIs
<1> HIDE DEF a
<1>4. /\ s \in Seq(T) /\ Len(s) = Len(a) + Len(u)
      /\ \A i \in 1..Len(a) : s[i] = a[i]
      /\ SubSeq(s, Len(a) + 1, Len(a) + Len(u)) = u
  <2>1. a \in Seq(T)
    BY <1>3
  <2> QED BY <2>1, JoinIs
<1> HIDE DEF s, k
<1>5. Len(a) = k + 3 /\ Len(s) = k + 3 + Len(u) /\ (k + 3) + 1 = k + 4
  BY <1>1, <1>2, <1>3, <1>4
<1>6. \A i \in 1..k : s[i] = w[i]
  <2>1. \A i \in 1..k : i \in 1..Len(a)
    BY <1>2, <1>5
  <2> QED BY <1>3, <1>4, <2>1
<1>7. MarkAt(s, k + 1)
  <2>1. /\ k + 1 \in 1..Len(a) /\ k + 2 \in 1..Len(a) /\ k + 3 \in 1..Len(a)
        /\ (k + 1) + 1 = k + 2 /\ (k + 1) + 2 = k + 3
        /\ 1 \in 1..Len(Mark) /\ 2 \in 1..Len(Mark) /\ 3 \in 1..Len(Mark)
    BY <1>1, <1>2, <1>5
  <2> QED BY <1>1, <1>3, <1>4, <2>1 DEF MarkAt
<1>8. SubSeq(s, 1, k) = w
  <2>1. k \in 0..Len(s)
    BY <1>2, <1>5
  <2>2. /\ SubSeq(s, 1, k) \in Seq(T) /\ Len(SubSeq(s, 1, k)) = k
        /\ \A i \in 1..k : SubSeq(s, 1, k)[i] = s[i]
    BY <1>4, <2>1, CutInTwo
  <2> DEFINE v == SubSeq(s, 1, k)
  <2>3. v \in Seq(T) /\ Len(v) = k /\ \A i \in 1..k : v[i] = s[i]
    BY <2>2
  <2> HIDE DEF v
  <2>4. Len(v) = Len(w) /\ \A i \in 1..Len(v) : v[i] = w[i]
    BY <1>6, <2>3 DEF k
  <2>5. v = w
    BY <2>3, <2>4, SameSeq
  <2> QED BY <2>5 DEF v
<1>9. SubSeq(s, k + 4, Len(s)) = u
  BY <1>4, <1>5
<1> QED BY <1>4, <1>5, <1>6, <1>7, <1>8, <1>9 DEF s, a, k, Schemed

\* A text of the form with a scheme, put together.
HasForm(T, s, w, r, d, h, p, f) ==
  /\ s = Schemed(w, r \o d) /\ w \in Seq(T) /\ r \in Seq(T) /\ d \in Slashes
  /\ ToLower(w) = f.scheme /\ f.scheme # <<"http">>
  /\ \A i \in 1..Len(w) : w[i] # ":"
  /\ \A i \in 1..Len(r) : r[i] # "/"
  /\ TakesRest(r, h, p, f.port)

\* What the code takes: behind the scheme of the Config, and without a scheme.
TakenWithScheme(s, h, p, f) ==
  \E n \in {i \in 0..(Len(s) - 3) : SubSeq(s, i + 1, i + 3) = Mark} : \E d \in Slashes :
    /\ ToLower(SubSeq(s, 1, n)) = f.scheme /\ f.scheme # <<"http">>
    /\ s = SubSeq(s, 1, n) \o Mark \o SubSeq(s, n + 4, Len(s) - Len(d)) \o d
    /\ ~Has(SubSeq(s, 1, n), ":") /\ ~Has(SubSeq(s, n + 4, Len(s) - Len(d)), "/")
    /\ TakesRest(SubSeq(s, n + 4, Len(s) - Len(d)), h, p, f.port)

TakenText(s, h, p, f) == TakenWithScheme(s, h, p, f) \/ (Taken(s, h, p) /\ SchemeEnd(s) = 0)

LEMMA WithSchemeHas ==
  ASSUME NEW T, Separators \subseteq T, NEW s \in Seq(T), NEW h, NEW p, NEW f,
         TakenWithScheme(s, h, p, f)
  PROVE  \E w \in Seq(T), r \in Seq(T), d \in Slashes : HasForm(T, s, w, r, d, h, p, f)
<1>1. PICK n \in 0..(Len(s) - 3), d \in Slashes :
        LET w == SubSeq(s, 1, n)
            r == SubSeq(s, n + 4, Len(s) - Len(d))
        IN  /\ ToLower(w) = f.scheme /\ f.scheme # <<"http">>
            /\ s = w \o Mark \o r \o d
            /\ ~Has(w, ":") /\ ~Has(r, "/")
            /\ TakesRest(r, h, p, f.port)
  BY DEF TakenWithScheme
<1> DEFINE w == SubSeq(s, 1, n)
           r == SubSeq(s, n + 4, Len(s) - Len(d))
<1>0. Len(s) \in Nat
  OBVIOUS
<1>2. d \in Seq(T) /\ Len(d) \in {0, 1}
  BY SlashType
<1>3. w \in Seq(T)
  <2>1. n \in 0..Len(s)
    BY <1>0
  <2> QED BY <2>1, CutInTwo
<1>4. r \in Seq(T)
  <2> DEFINE e == Len(s) - Len(d)
  <2>1. n + 4 \in Int /\ e \in Int
    BY <1>0, <1>2
  <2>2. ASSUME NEW i \in (n + 4)..e PROVE s[i] \in T
    <3>1. i \in 1..Len(s)
      BY <1>0, <1>2
    <3> QED BY <3>1, ElementOfSeq
  <2> HIDE DEF e
  <2>3. SubSeq(s, n + 4, e) \in Seq(T)
    BY <2>1, <2>2, SubSeqProperties
  <2> QED BY <2>3 DEF e
<1>5. /\ ToLower(w) = f.scheme /\ f.scheme # <<"http">>
      /\ s = ((w \o Mark) \o r) \o d
      /\ ~Has(w, ":") /\ ~Has(r, "/") /\ TakesRest(r, h, p, f.port)
  BY <1>1
<1> HIDE DEF w, r
<1>6. w \o Mark \in Seq(T)
  <2>1. Mark \in Seq(T)
    <3>1. ":" \in T /\ "/" \in T
      BY DEF Separators
    <3> QED BY <3>1 DEF Mark
  <2> QED BY <1>3, <2>1, JoinIs
<1>7. s = Schemed(w, r \o d)
  <2> DEFINE a == w \o Mark
  <2>1. a \in Seq(T) /\ s = (a \o r) \o d
    BY <1>5, <1>6
  <2> HIDE DEF a
  <2>2. (a \o r) \o d = a \o (r \o d)
    BY <1>2, <1>4, <2>1, ConcatAssociative
  <2> QED BY <2>1, <2>2 DEF Schemed, a
<1>8. (\A i \in 1..Len(w) : w[i] # ":") /\ \A i \in 1..Len(r) : r[i] # "/"
  BY <1>3, <1>4, <1>5, HasIs
<1> QED BY <1>3, <1>4, <1>5, <1>7, <1>8 DEF HasForm

LEMMA HasWithScheme ==
  ASSUME NEW T, Separators \subseteq T, NEW s, NEW w, NEW r, NEW d, NEW h, NEW p, NEW f,
         HasForm(T, s, w, r, d, h, p, f)
  PROVE  TakenWithScheme(s, h, p, f)
<1>1. /\ s = Schemed(w, r \o d) /\ w \in Seq(T) /\ r \in Seq(T) /\ d \in Slashes
      /\ ToLower(w) = f.scheme /\ f.scheme # <<"http">>
      /\ \A i \in 1..Len(w) : w[i] # ":"
      /\ \A i \in 1..Len(r) : r[i] # "/"
      /\ TakesRest(r, h, p, f.port)
  BY DEF HasForm
<1> DEFINE n == Len(w)
           k == Len(r)
           u == r \o d
<1>2. d \in Seq(T) /\ Len(d) \in {0, 1}
  BY <1>1, SlashType
<1>3. n \in Nat /\ k \in Nat
  BY <1>1
<1>4. u \in Seq(T) /\ Len(u) = k + Len(d) /\ SubSeq(u, 1, k) = r
  BY <1>1, <1>2, JoinIs
<1>5. \A i \in 1..k : u[i] = r[i]
  BY <1>1, <1>2, JoinIs
<1> HIDE DEF u
<1>6. /\ Schemed(w, u) \in Seq(T) /\ Len(Schemed(w, u)) = n + 3 + Len(u)
      /\ MarkAt(Schemed(w, u), n + 1)
      /\ SubSeq(Schemed(w, u), 1, n) = w
      /\ SubSeq(Schemed(w, u), n + 4, Len(Schemed(w, u))) = u
  <2>1. w \in Seq(T) /\ u \in Seq(T)
    BY <1>1, <1>4
  <2>2. Schemed(w, u) \in Seq(T) /\ Len(Schemed(w, u)) = Len(w) + 3 + Len(u)
    BY <2>1, SchemedIs
  <2>3. MarkAt(Schemed(w, u), Len(w) + 1)
    BY <2>1, SchemedIs
  <2>4. SubSeq(Schemed(w, u), 1, Len(w)) = w
    BY <2>1, SchemedIs
  <2>5. SubSeq(Schemed(w, u), Len(w) + 4, Len(Schemed(w, u))) = u
    BY <2>1, SchemedIs
  <2> QED BY <2>2, <2>3, <2>4, <2>5
<1>7. s = Schemed(w, u)
  BY <1>1 DEF u
<1> HIDE DEF n, k
<1>8. Len(s) = n + 3 + k + Len(d) /\ s \in Seq(T)
  BY <1>2, <1>3, <1>4, <1>6, <1>7
<1>9. n \in 0..(Len(s) - 3) /\ n + 1 \in 1..(Len(s) - 2) /\ (n + 1) + 2 = n + 3
  BY <1>2, <1>3, <1>8
<1>10. SubSeq(s, n + 1, n + 3) = Mark
  BY <1>6, <1>7, <1>8, <1>9, MarkIs
<1>11. SubSeq(s, n + 4, Len(s) - Len(d)) = r
  <2>1. /\ n + 3 \in 0..Len(s) /\ (n + 3) + 1 = n + 4 /\ (n + 3) + k = Len(s) - Len(d)
        /\ n + 3 \in Nat /\ (n + 3) + k <= Len(s)
    BY <1>2, <1>3, <1>8
  <2>2. \A i \in 1..(Len(s) - (n + 3)) : SubSeq(s, (n + 3) + 1, Len(s))[i] = s[(n + 3) + i]
    BY <1>8, <2>1, TailIs
  <2>3. \A i \in 1..k : u[i] = s[(n + 3) + i]
    <3>1. \A i \in 1..k : i \in 1..(Len(s) - (n + 3))
      BY <1>2, <1>3, <1>8
    <3> QED BY <1>6, <1>7, <2>1, <2>2, <3>1
  <2>4. /\ SubSeq(s, (n + 3) + 1, (n + 3) + k) \in Seq(T)
        /\ Len(SubSeq(s, (n + 3) + 1, (n + 3) + k)) = k
        /\ \A i \in 1..k : SubSeq(s, (n + 3) + 1, (n + 3) + k)[i] = s[(n + 3) + i]
    BY <1>3, <1>8, <2>1, CutIs
  <2> DEFINE v == SubSeq(s, n + 4, Len(s) - Len(d))
  <2>5. v \in Seq(T) /\ Len(v) = k /\ \A i \in 1..k : v[i] = s[(n + 3) + i]
    BY <2>1, <2>4
  <2> HIDE DEF v
  <2>6. Len(v) = Len(r) /\ \A i \in 1..Len(v) : v[i] = r[i]
    BY <1>5, <2>3, <2>5 DEF k
  <2>7. v = r
    BY <1>1, <2>5, <2>6, SameSeq
  <2> QED BY <2>7 DEF v
<1>12. SubSeq(s, 1, n) = w
  BY <1>6, <1>7
<1>13. s = ((w \o Mark) \o r) \o d
  <2>1. w \o Mark \in Seq(T)
    <3>1. Mark \in Seq(T)
      <4>1. ":" \in T /\ "/" \in T
        BY DEF Separators
      <4> QED BY <4>1 DEF Mark
    <3> QED BY <1>1, <3>1, JoinIs
  <2>2. ((w \o Mark) \o r) \o d = (w \o Mark) \o (r \o d)
    <3> DEFINE a == w \o Mark
    <3>1. a \in Seq(T) /\ r \in Seq(T) /\ d \in Seq(T)
      BY <1>1, <1>2, <2>1
    <3> HIDE DEF a
    <3>2. (a \o r) \o d = a \o (r \o d)
      BY <3>1, ConcatAssociative
    <3> QED BY <3>2 DEF a
  <2> QED BY <1>7, <2>2 DEF Schemed, u
<1>14. ~Has(w, ":") /\ ~Has(r, "/")
  BY <1>1, HasIs
<1>15. \E m \in {i \in 0..(Len(s) - 3) : SubSeq(s, i + 1, i + 3) = Mark} : \E x \in Slashes :
         /\ ToLower(SubSeq(s, 1, m)) = f.scheme /\ f.scheme # <<"http">>
         /\ s = SubSeq(s, 1, m) \o Mark \o SubSeq(s, m + 4, Len(s) - Len(x)) \o x
         /\ ~Has(SubSeq(s, 1, m), ":") /\ ~Has(SubSeq(s, m + 4, Len(s) - Len(x)), "/")
         /\ TakesRest(SubSeq(s, m + 4, Len(s) - Len(x)), h, p, f.port)
  BY <1>1, <1>9, <1>10, <1>11, <1>12, <1>13, <1>14
<1> QED BY <1>15 DEF TakenWithScheme

\* The host is part of the text.
LEMMA HostIsPart ==
  ASSUME NEW T, Separators \subseteq T, Ports \subseteq T, NEW r \in Seq(T),
         NEW h \in Seq(T), NEW q \in Ports \cup {NoPort}, Taken(r, h, q),
         \A i \in 1..Len(r) : r[i] # "/"
  PROVE  h # <<>> /\ \A i \in 1..Len(h) : h[i] # "/"
<1>1. h # <<>> /\ (InBrackets(r, h, q) \/ Bare(r, h, q))
  BY TakenIs
<1>2. Suffix(q) \in Seq(T) /\ Len(Suffix(q)) \in Nat
  BY SuffixType, LenProperties
<1>3. Len(h) \in Nat
  OBVIOUS
<1>4. ASSUME NEW i \in 1..Len(h), InBrackets(r, h, q) PROVE h[i] # "/"
  <2> DEFINE b == Bracket(h)
             d == Suffix(q)
  <2>1. b \in Seq(T) /\ Len(b) = Len(h) + 2 /\ b[i + 1] = h[i]
    BY BracketShape
  <2>2. d \in Seq(T) /\ Len(d) \in Nat /\ r = b \o d
    BY <1>2, <1>4 DEF InBrackets
  <2> HIDE DEF b, d
  <2>3. Len(b \o d) = Len(b) + Len(d) /\ \A k \in 1..Len(b) : (b \o d)[k] = b[k]
    <3>1. b \in Seq(T) /\ d \in Seq(T)
      BY <2>1, <2>2
    <3>2. Len(b \o d) = Len(b) + Len(d)
      BY <3>1, JoinIs
    <3>3. \A k \in 1..Len(b) : (b \o d)[k] = b[k]
      BY <3>1, JoinIs
    <3> QED BY <3>2, <3>3
  <2>4. i + 1 \in 1..Len(b) /\ i + 1 \in 1..Len(r)
    BY <1>3, <2>1, <2>2, <2>3
  <2> QED BY <2>1, <2>2, <2>3, <2>4
<1>5. ASSUME NEW i \in 1..Len(h), Bare(r, h, q) PROVE h[i] # "/"
  <2> DEFINE d == Suffix(q)
  <2>1. d \in Seq(T) /\ Len(d) \in Nat /\ r = h \o d
    BY <1>2, <1>5 DEF Bare
  <2> HIDE DEF d
  <2>2. Len(h \o d) = Len(h) + Len(d) /\ \A k \in 1..Len(h) : (h \o d)[k] = h[k]
    BY <2>1, JoinIs
  <2>3. i \in 1..Len(r)
    BY <1>3, <2>1, <2>2
  <2> QED BY <2>1, <2>2, <2>3
<1> QED BY <1>1, <1>4, <1>5

\* A text that has one of the documented forms is read so ...
LEMMA TextParsed ==
  ASSUME NEW T, Separators \subseteq T, Ports \subseteq T, NEW s \in Seq(T),
         NEW f, AppConfig(f), NEW h \in Seq(T), NEW p \in Ports, TakenText(s, h, p, f)
  PROVE  ParseText(s, f) = Valid(h, p)
<1>1. CASE TakenWithScheme(s, h, p, f)
  <2>1. PICK w \in Seq(T), r \in Seq(T), d \in Slashes : HasForm(T, s, w, r, d, h, p, f)
    BY <1>1, WithSchemeHas
  <2>2. /\ s = Schemed(w, r \o d)
        /\ ToLower(w) = f.scheme /\ f.scheme # <<"http">>
        /\ \A i \in 1..Len(w) : w[i] # ":"
        /\ \A i \in 1..Len(r) : r[i] # "/"
        /\ TakesRest(r, h, p, f.port)
    BY <2>1 DEF HasForm
  <2> DEFINE n == Len(w) + 1
             u == r \o d
  <2>3. u \in Seq(T)
    <3>1. d \in Seq(T)
      BY SlashType
    <3> QED BY <3>1, JoinIs
  <2>4. s = Schemed(w, u)
    BY <2>2
  <2> HIDE DEF u
  <2>5. Len(s) = Len(w) + 3 + Len(u) /\ \A i \in 1..Len(w) : s[i] = w[i]
    <3>1. Len(Schemed(w, u)) = Len(w) + 3 + Len(u)
      BY <2>3, SchemedIs
    <3>2. \A i \in 1..Len(w) : Schemed(w, u)[i] = w[i]
      BY <2>3, SchemedIs
    <3> QED BY <2>4, <3>1, <3>2
  <2>6. MarkAt(s, n)
    <3>1. MarkAt(Schemed(w, u), Len(w) + 1)
      BY <2>3, SchemedIs
    <3> QED BY <2>4, <3>1
  <2>7. SubSeq(s, 1, Len(w)) = w
    <3>1. SubSeq(Schemed(w, u), 1, Len(w)) = w
      BY <2>3, SchemedIs
    <3> QED BY <2>4, <3>1
  <2>8. SubSeq(s, Len(w) + 4, Len(s)) = u
    <3>1. SubSeq(Schemed(w, u), Len(w) + 4, Len(Schemed(w, u))) = u
      BY <2>3, SchemedIs
    <3> QED BY <2>4, <3>1
  <2>9. Len(w) \in Nat /\ Len(u) \in Nat
    BY <2>3
  <2>10. n \in 1..(Len(s) - 2) /\ n # 0 /\ n - 1 = Len(w) /\ n + 3 = Len(w) + 4
    BY <2>5, <2>9
  <2>11. \A i \in 1..(n - 1) : s[i] # ":"
    BY <2>2, <2>5, <2>10
  <2> HIDE DEF n
  <2>12. SchemeEnd(s) = n
    BY <2>6, <2>10, <2>11, SchemeEndUnique
  <2>13. Upto(s, n) = w /\ SubSeq(s, n + 3, Len(s)) = u
    BY <2>7, <2>8, <2>10 DEF Upto
  <2>14. ParseText(s, f) = ParseRest(u, f.port)
    BY <2>2, <2>10, <2>12, <2>13 DEF ParseText
  <2>15. f.port \in Ports
    BY DEF AppConfig
  <2>16. ParseRest(r \o d, f.port) = Valid(h, p)
    <3>1. (\A i \in 1..Len(r) : r[i] # "/") /\ TakesRest(r, h, p, f.port)
      BY <2>2
    <3> DEFINE dp == f.port
    <3>2. dp \in Ports /\ TakesRest(r, h, p, dp)
      BY <2>15, <3>1
    <3> HIDE DEF dp
    <3>3. ParseRest(r \o d, dp) = Valid(h, p)
      BY <3>1, <3>2, RestRead
    <3> QED BY <3>3 DEF dp
  <2> QED BY <2>14, <2>16 DEF u
<1>2. CASE Taken(s, h, p) /\ SchemeEnd(s) = 0
  <2>1. SplitHostPort(s) = Valid(h, p) /\ p # NoPort
    BY <1>2, HostPort, PortFacts
  <2> QED BY <1>2, <2>1, ValidIs DEF ParseText
<1> QED BY <1>1, <1>2 DEF TakenText

\* ... and no other text is accepted. A host that came with a scheme holds no '/'.
LEMMA TextIs ==
  ASSUME NEW T, Separators \subseteq T, Ports \subseteq T, NEW s \in Seq(T),
         NEW f, AppConfig(f), ParseText(s, f).ok
  PROVE  \E h \in Seq(T), p \in Ports :
           /\ ParseText(s, f) = Valid(h, p) /\ TakenText(s, h, p, f) /\ h # <<>>
           /\ \/ \A i \in 1..Len(h) : h[i] # "/"
              \/ Taken(s, h, p) /\ SchemeEnd(s) = 0
<1> DEFINE n == SchemeEnd(s)
           w == Upto(s, n)
           u == SubSeq(s, n + 3, Len(s))
<1>0. Len(s) \in Nat /\ f.port \in Ports
  BY DEF AppConfig
<1>1. /\ n \in 0..Len(s)
      /\ n # 0 => n \in 1..(Len(s) - 2) /\ MarkAt(s, n)
  BY SchemeEndIs
<1>2. ParseText(s, f) =
        IF n # 0 THEN IF ToLower(w) = <<"http">> \/ ToLower(w) # f.scheme
                        THEN Invalid ELSE ParseRest(u, f.port)
        ELSE IF SplitHostPort(s).ok /\ SplitHostPort(s).port = NoPort THEN Invalid
             ELSE SplitHostPort(s)
  BY DEF ParseText
<1> HIDE DEF n
<1>3. CASE n # 0
  <2>1. n \in 1..(Len(s) - 2) /\ MarkAt(s, n)
    BY <1>1, <1>3
  <2>2. n - 1 \in 0..Len(s) /\ n + 2 \in 0..Len(s) /\ (n + 2) + 1 = n + 3
    BY <1>0, <2>1
  <2>3. w \in Seq(T) /\ Len(w) = n - 1 /\ \A i \in 1..(n - 1) : w[i] = s[i]
    BY <2>2, CutInTwo DEF Upto
  <2>4. SubSeq(s, 1, n + 2) \in Seq(T) /\ Len(SubSeq(s, 1, n + 2)) = n + 2
        /\ (\A i \in 1..(n + 2) : SubSeq(s, 1, n + 2)[i] = s[i])
        /\ SubSeq(s, (n + 2) + 1, Len(s)) \in Seq(T)
        /\ s = SubSeq(s, 1, n + 2) \o SubSeq(s, (n + 2) + 1, Len(s))
    BY <2>2, CutInTwo
  <2>5. u \in Seq(T) /\ s = SubSeq(s, 1, n + 2) \o u
    BY <2>2, <2>4
  <2> HIDE DEF w, u
  <2>6. SubSeq(s, 1, n + 2) = w \o Mark
    <3> DEFINE a == SubSeq(s, 1, n + 2)
               b == w \o Mark
               k == n - 1
    <3>1. a \in Seq(T) /\ Len(a) = n + 2 /\ \A i \in 1..(n + 2) : a[i] = s[i]
      BY <2>4
    <3> HIDE DEF a
    <3>2. Mark \in Seq(T) /\ Len(Mark) = 3 /\ Mark[1] = ":" /\ Mark[2] = "/" /\ Mark[3] = "/"
      <4>1. ":" \in T /\ "/" \in T
        BY DEF Separators
      <4> QED BY <4>1 DEF Mark
    <3>9. w \in Seq(T) /\ Mark \in Seq(T)
      BY <2>3, <3>2
    <3>3. b \in Seq(T) /\ Len(b) = Len(w) + Len(Mark)
      BY <3>9, JoinIs
    <3>4. \A i \in 1..Len(w) : b[i] = w[i]
      BY <3>9, JoinIs
    <3>5. \A i \in 1..Len(Mark) : b[Len(w) + i] = Mark[i]
      BY <3>9, JoinIs
    <3> HIDE DEF b
    <3>6. ASSUME NEW i \in 1..(n + 2) PROVE a[i] = b[i]
      <4>1. i \in 1..(n - 1) \/ i = n \/ i = n + 1 \/ i = n + 2
        BY <2>1
      <4>2. CASE i \in 1..(n - 1)
        BY <2>3, <3>1, <3>4, <4>2
      <4>3. CASE i = n
        <5>1. (n - 1) + 1 = n /\ 1 \in 1..3
          BY <2>1
        <5>2. b[n] = ":"
          BY <2>3, <3>2, <3>5, <5>1
        <5> QED BY <2>1, <3>1, <4>3, <5>2 DEF MarkAt
      <4>4. CASE i = n + 1
        <5>1. (n - 1) + 2 = n + 1 /\ 2 \in 1..3
          BY <2>1
        <5>2. b[n + 1] = "/"
          BY <2>3, <3>2, <3>5, <5>1
        <5> QED BY <2>1, <3>1, <4>4, <5>2 DEF MarkAt
      <4>5. CASE i = n + 2
        <5>1. (n - 1) + 3 = n + 2 /\ 3 \in 1..3
          BY <2>1
        <5>2. b[n + 2] = "/"
          BY <2>3, <3>2, <3>5, <5>1
        <5> QED BY <2>1, <3>1, <4>5, <5>2 DEF MarkAt
      <4> QED BY <4>1, <4>2, <4>3, <4>4, <4>5
    <3>7. Len(a) = Len(b)
      BY <2>1, <2>3, <3>1, <3>2, <3>3
    <3>8. a = b
      BY <3>1, <3>3, <3>6, <3>7, SameSeq
    <3> QED BY <3>8 DEF a, b
  <2>7. s = Schemed(w, u)
    BY <2>5, <2>6 DEF Schemed
  <2>8. ToLower(w) # <<"http">> /\ ToLower(w) = f.scheme /\ ParseText(s, f) = ParseRest(u, f.port)
    BY <1>2, <1>3, ValidIs
  <2>9. PICK r \in Seq(T), d \in Slashes, h \in Seq(T), p \in Ports :
           /\ u = r \o d /\ \A i \in 1..Len(r) : r[i] # "/"
           /\ TakesRest(r, h, p, f.port) /\ ParseRest(u, f.port) = Valid(h, p)
    <3> DEFINE dp == f.port
    <3>1. dp \in Ports /\ ParseRest(u, dp).ok /\ u \in Seq(T)
      BY <1>0, <2>5, <2>8
    <3> HIDE DEF dp
    <3>2. \E r \in Seq(T), d \in Slashes, h \in Seq(T), p \in Ports :
           /\ u = r \o d /\ \A i \in 1..Len(r) : r[i] # "/"
           /\ TakesRest(r, h, p, dp) /\ ParseRest(u, dp) = Valid(h, p)
      BY <3>1, RestIs
    <3> QED BY <3>2 DEF dp
  <2>10. \A i \in 1..Len(w) : w[i] # ":"
    BY <2>3, <2>8, LowerIs
  <2>11. HasForm(T, s, w, r, d, h, p, f)
    BY <2>3, <2>7, <2>8, <2>9, <2>10 DEF HasForm
  <2>12. TakenText(s, h, p, f)
    BY <2>11, HasWithScheme DEF TakenText
  <2>13. PICK q \in Ports \cup {NoPort} : Taken(r, h, q)
    BY <2>9 DEF TakesRest
  <2>14. h # <<>> /\ \A i \in 1..Len(h) : h[i] # "/"
    BY <2>9, <2>13, HostIsPart
  <2> QED BY <2>8, <2>9, <2>12, <2>14
<1>4. CASE n = 0
  <2>1. SplitHostPort(s).ok /\ SplitHostPort(s).port # NoPort /\ ParseText(s, f) = SplitHostPort(s)
    BY <1>2, <1>4, ValidIs
  <2>2. PICK h \in Seq(T), p \in Ports \cup {NoPort} :
           Taken(s, h, p) /\ SplitHostPort(s) = Valid(h, p)
    BY <2>1, HostPortIs
  <2>3. p \in Ports
    BY <2>1, <2>2, ValidIs
  <2>4. TakenText(s, h, p, f)
    BY <1>4, <2>2 DEF TakenText, n
  <2>5. h # <<>>
    BY <2>2, TakenIs
  <2> QED BY <1>4, <2>1, <2>2, <2>3, <2>4, <2>5 DEF n
<1> QED BY <1>3, <1>4

\* strings.TrimSpace: a part of the text, the text itself if there are no blanks at its ends.
LEMMA TrimIs ==
  ASSUME NEW T, NEW s \in Seq(T)
  PROVE  /\ TrimSpace(s) \in Seq(T)
         /\ s # <<>> /\ s[1] # " " /\ s[Len(s)] # " " => TrimSpace(s) = s
<1> DEFINE I == {i \in 1..Len(s) : s[i] # " "}
           a == IF I # {} THEN Min(I) ELSE 0
           b == IF I # {} THEN Max(I) ELSE 0
<1>1. TrimSpace(s) = IF ToSet(s) \subseteq {" "} THEN <<>> ELSE SubSeq(s, a, b)
  BY DEF TrimSpace, SelectInSeq, SelectLastInSeq
<1>2. Len(s) \in Nat /\ DOMAIN s = 1..Len(s)
  OBVIOUS
<1>3. ToSet(s) \subseteq {" "} <=> I = {}
  BY <1>2 DEF ToSet
<1>4. CASE I = {}
  <2>1. TrimSpace(s) = <<>> /\ <<>> \in Seq(T)
    BY <1>1, <1>3, <1>4, EmptySeq
  <2>2. s # <<>> => 1 \in 1..Len(s)
    BY EmptySeq
  <2> QED BY <1>4, <2>1, <2>2
<1>5. CASE I # {}
  <2>1. I \in SUBSET (1..Len(s)) /\ I \in SUBSET Nat
    <3>1. \A i \in I : i \in 1..Len(s)
      OBVIOUS
    <3> HIDE DEF I
    <3>2. \A i \in I : i \in Nat
      BY <1>2, <3>1
    <3> QED BY <3>1, <3>2
  <2>2. a = (CHOOSE x \in I : \A y \in I : x <= y) /\ b = (CHOOSE x \in I : \A y \in I : x >= y)
    BY <1>5 DEF Min, Max
  <2> HIDE DEF I
  <2>3. \E x \in I : \A y \in I : x <= y
    BY <1>5, <2>1, LeastElement
  <2>4. \E x \in I : \A y \in I : x >= y
    <3>1. PICK x \in I : \A y \in I : y <= x
      BY <1>2, <1>5, <2>1, GreatestElement
    <3>2. \A y \in I : x >= y
      BY <2>1, <3>1
    <3> QED BY <3>2
  <2> HIDE DEF a, b
  <2>5. a \in I /\ \A y \in I : a <= y
    BY <2>2, <2>3
  <2>6. b \in I /\ \A y \in I : b >= y
    BY <2>2, <2>4
  <2>7. TrimSpace(s) = SubSeq(s, a, b)
    BY <1>1, <1>3, <1>5 DEF a, b
  <2>8. SubSeq(s, a, b) \in Seq(T)
    <3>1. a \in Int /\ b \in Int /\ a \in 1..Len(s) /\ b \in 1..Len(s)
      BY <2>1, <2>5, <2>6
    <3>2. \A i \in a..b : s[i] \in T
      <4>1. ASSUME NEW i \in a..b PROVE s[i] \in T
        <5>1. i \in 1..Len(s)
          BY <1>2, <3>1
        <5> QED BY <5>1, ElementOfSeq
      <4> QED BY <4>1
    <3> QED BY <3>1, <3>2, SubSeqProperties
  <2>9. ASSUME s # <<>>, s[1] # " ", s[Len(s)] # " " PROVE SubSeq(s, a, b) = s
    <3>0. Len(s) # 0
      BY <2>9, EmptySeq
    <3>1. 1 \in 1..Len(s) /\ Len(s) \in 1..Len(s)
      BY <1>2, <3>0
    <3>2. 1 \in I /\ Len(s) \in I
      BY <2>9, <3>1 DEF I
    <3>3. a = 1 /\ b = Len(s)
      <4>1. a <= 1 /\ Len(s) <= b
        BY <2>5, <2>6, <3>2
      <4>2. a \in 1..Len(s) /\ b \in 1..Len(s)
        BY <2>1, <2>5, <2>6
      <4>3. \A n \in Nat : \A x, y \in 1..n : x <= 1 /\ n <= y => x = 1 /\ y = n
        OBVIOUS
      <4> QED BY <1>2, <4>1, <4>2, <4>3, Zenon
    <3> QED BY <3>3, SubSeqFull
  <2> QED BY <2>7, <2>8, <2>9
<1> QED BY <1>4, <1>5

\* Lower case is lower case already.
LEMMA LowerTwice ==
  ASSUME NEW T, NEW w \in Seq(T)
  PROVE  ToLower(ToLower(w)) = ToLower(w)
<1>1. DOMAIN ToLower(w) = DOMAIN w
  BY DEF ToLower
<1>2. \A i \in DOMAIN w : ToLower(w)[i] # "APP"
  BY DEF ToLower
<1> DEFINE v == ToLower(w)
<1>3. v = [i \in DOMAIN v |-> v[i]]
  BY DEF ToLower
<1> HIDE DEF v
<1>4. ToLower(v) = [i \in DOMAIN v |-> v[i]]
  <2>1. \A i \in DOMAIN v : v[i] # "APP"
    BY <1>1, <1>2 DEF v
  <2> QED BY <2>1 DEF ToLower
<1> QED BY <1>3, <1>4 DEF v

\* What the code takes is the list with the departures that are named.
LEMMA MeantIs ==
  ASSUME NEW T, NEW s \in Seq(T), NEW h, NEW p \in Ports, NEW f
  PROVE  Meant(s, h, p, f) <=> TakenText(s, h, p, f)
<1> DEFINE Part(n, d) == /\ n \in {i \in 0..(Len(s) - 3) : SubSeq(s, i + 1, i + 3) = Mark} /\ d \in Slashes
                         /\ s = SubSeq(s, 1, n) \o Mark \o SubSeq(s, n + 4, Len(s) - Len(d)) \o d
                         /\ ~Has(SubSeq(s, 1, n), ":") /\ ~Has(SubSeq(s, n + 4, Len(s) - Len(d)), "/")
           Word(n) == ToLower(SubSeq(s, 1, n))
           Rest(n, d) == SubSeq(s, n + 4, Len(s) - Len(d))
           Own(n) == Word(n) = ToLower(f.scheme) /\ Word(n) # <<"http">>
           Listed(n, d) == Reads(Rest(n, d), h, p) \/ (p = f.port /\ Reads(Rest(n, d), h, NoPort))
           Literal(n, d) == \/ Unbracketed(Rest(n, d), h, p)
                            \/ p = f.port /\ Unbracketed(Rest(n, d), h, NoPort)
<1>1. WithScheme(s, h, p, f, Reads) <=> \E n, d : Part(n, d) /\ Own(n) /\ Listed(n, d)
  BY DEF WithScheme, Mark, Slashes
<1>2. WithScheme(s, h, p, f, Unbracketed) <=> \E n, d : Part(n, d) /\ Own(n) /\ Literal(n, d)
  BY DEF WithScheme, Mark, Slashes
<1>3. TakenWithScheme(s, h, p, f) <=>
        \E n, d : /\ Part(n, d) /\ Word(n) = f.scheme /\ f.scheme # <<"http">>
                  /\ Listed(n, d) \/ Literal(n, d)
  BY DEF TakenWithScheme, TakesRest, Taken
<1>4. \A n, d : Part(n, d) => ToLower(Word(n)) = Word(n)
  <2>1. ASSUME NEW n \in 0..(Len(s) - 3) PROVE ToLower(Word(n)) = Word(n)
    <3>1. n \in 0..Len(s)
      OBVIOUS
    <3>2. SubSeq(s, 1, n) \in Seq(T)
      BY <3>1, CutInTwo
    <3> QED BY <3>2, LowerTwice
  <2> QED BY <2>1
<1>5. ListedBare(s, h, p) <=> Taken(s, h, p) /\ SchemeEnd(s) = 0
  BY PortFacts DEF ListedBare, Taken, Unbracketed
<1> HIDE DEF Part, Word, Rest, Own, Listed, Literal
<1>6. Meant(s, h, p, f) <=>
        \/ ListedBare(s, h, p)
        \/ /\ f.scheme = ToLower(f.scheme)
           /\ \E n, d : Part(n, d) /\ Own(n) /\ (Listed(n, d) \/ Literal(n, d))
  <2> DEFINE L == \E n, d : Part(n, d) /\ Own(n) /\ Listed(n, d)
             U == \E n, d : Part(n, d) /\ Own(n) /\ Literal(n, d)
  <2>1. ListedWithScheme(s, h, p, f) <=> f.scheme # <<>> /\ L
    BY <1>1 DEF ListedWithScheme
  <2>2. Beyond(s, h, p, f) <=> U \/ (f.scheme = <<>> /\ L)
    BY <1>1, <1>2 DEF Beyond
  <2>3. L \/ U <=> \E n, d : Part(n, d) /\ Own(n) /\ (Listed(n, d) \/ Literal(n, d))
    OBVIOUS
  <2> HIDE DEF L, U
  <2>4. Meant(s, h, p, f) <=> ListedBare(s, h, p) \/ (f.scheme = ToLower(f.scheme) /\ (L \/ U))
    BY <2>1, <2>2 DEF Meant, Answers
  <2> QED BY <2>3, <2>4
<1>7. \A n, d : Part(n, d) =>
        (f.scheme = ToLower(f.scheme) /\ Own(n) <=> Word(n) = f.scheme /\ f.scheme # <<"http">>)
  BY <1>4 DEF Own
<1> QED BY <1>3, <1>5, <1>6, <1>7 DEF TakenText

\* Every text over every set of symbols is read as its form says, or refused.
LEMMA Parsed ==
  ASSUME NEW T, Separators \subseteq T, Ports \subseteq T, NEW g \in Seq(T), NEW f, AppConfig(f)
  PROVE  ParsedRight(g, f)
<1> DEFINE s == TrimSpace(g)
           e == ParseEndpoint(g, f)
<1>1. s \in Seq(T)
  BY TrimIs
<1>2. e = ParseText(s, f)
  BY ParseIs
<1>3. ParsedRight(g, f) <=>
        IF e.ok THEN e.port # NoPort /\ Meant(s, e.host, e.port, f)
        ELSE \A h \in SubSeqs(s), p \in Ports : ~Meant(s, h, p, f)
  BY DEF ParsedRight
<1> HIDE DEF s, e
<1>4. CASE e.ok
  <2>1. PICK h \in Seq(T), p \in Ports : e = Valid(h, p) /\ TakenText(s, h, p, f)
    BY <1>1, <1>2, <1>4, TextIs
  <2>3. Meant(s, h, p, f)
    BY <1>1, <2>1, MeantIs
  <2>2. e.host = h /\ e.port = p /\ p # NoPort
    BY <2>1, ValidIs, PortFacts
  <2> QED BY <1>3, <1>4, <2>1, <2>2, <2>3
<1>5. CASE ~e.ok
  <2>1. ASSUME NEW h \in SubSeqs(s), NEW p \in Ports, Meant(s, h, p, f) PROVE FALSE
    <3>1. h \in Seq(T)
      <4>1. PICK i \in 0..Len(s), j \in 0..Len(s) : h = SubSeq(s, i + 1, j)
        BY DEF SubSeqs
      <4>2. Len(s) \in Nat /\ i + 1 \in Int /\ j \in Int
        BY <1>1
      <4>3. \A k \in (i + 1)..j : s[k] \in T
        <5>1. ASSUME NEW k \in (i + 1)..j PROVE s[k] \in T
          <6>1. k \in 1..Len(s)
            BY <4>2
          <6> QED BY <1>1, <6>1, ElementOfSeq
        <5> QED BY <5>1
      <4> QED BY <4>1, <4>2, <4>3, SubSeqProperties
    <3>0. TakenText(s, h, p, f)
      BY <1>1, <2>1, MeantIs
    <3>2. ParseText(s, f) = Valid(h, p)
      BY <1>1, <3>0, <3>1, TextParsed
    <3> QED BY <1>2, <1>5, <3>2, ValidIs
  <2> QED BY <1>3, <1>5, <2>1
<1> QED BY <1>4, <1>5

\* "://" is not in an address unless it is in its host.
LEMMA NoMarkPlain ==
  ASSUME NEW T, Separators \subseteq T, Ports \subseteq T, NEW h \in Seq(T), NEW p \in Ports,
         \A i \in 1..Len(h) : h[i] # ":"
  PROVE  SchemeEnd(h \o Suffix(p)) = 0
<1> DEFINE d == Suffix(p)
           s == h \o d
           k == Len(h)
<1>1. d \in Seq(T) /\ Len(d) = 2 /\ d[2] = p
  BY SuffixIs
<1>2. k \in Nat
  OBVIOUS
<1> HIDE DEF d
<1>3. s \in Seq(T) /\ Len(s) = k + Len(d)
  BY <1>1, JoinIs
<1>4. \A i \in 1..k : s[i] = h[i]
  BY <1>1, JoinIs
<1>5. \A i \in 1..Len(d) : s[k + i] = d[i]
  BY <1>1, JoinIs
<1>6. p # "/"
  BY PortFacts DEF Separators
<1> HIDE DEF s
<1>7. ASSUME NEW i \in 1..(Len(s) - 2), MarkAt(s, i) PROVE FALSE
  <2>1. i \in 1..k
    BY <1>1, <1>2, <1>3
  <2> QED BY <1>4, <1>7, <2>1 DEF MarkAt
<1> QED BY <1>3, <1>7, SchemeEndIs DEF s, d

LEMMA NoMarkBracket ==
  ASSUME NEW T, Separators \subseteq T, Ports \subseteq T, NEW h \in Seq(T), NEW p \in Ports,
         \A i \in 1..Len(h) : h[i] # "/"
  PROVE  SchemeEnd(Bracket(h) \o Suffix(p)) = 0
<1> DEFINE d == Suffix(p)
           b == Bracket(h)
           s == b \o d
           k == Len(h)
<1>1. d \in Seq(T) /\ Len(d) = 2 /\ d[1] = ":" /\ d[2] = p
  BY SuffixIs
<1>2. k \in Nat
  OBVIOUS
<1>3. /\ b \in Seq(T) /\ Len(b) = k + 2 /\ b[1] = "[" /\ b[k + 2] = "]"
      /\ \A i \in 1..k : b[i + 1] = h[i]
  BY BracketShape
<1> HIDE DEF d, b
<1>4. b \in Seq(T) /\ d \in Seq(T)
  BY <1>1, <1>3
<1>5. s \in Seq(T) /\ Len(s) = Len(b) + Len(d)
  BY <1>4, JoinIs
<1>6. \A i \in 1..Len(b) : s[i] = b[i]
  BY <1>4, JoinIs
<1>7. \A i \in 1..Len(d) : s[Len(b) + i] = d[i]
  BY <1>4, JoinIs
<1> HIDE DEF s
<1>8. Len(s) = k + 4
  BY <1>1, <1>2, <1>3, <1>5
<1>9. ASSUME NEW i \in 1..(Len(s) - 2), MarkAt(s, i) PROVE FALSE
  <2>1. i \in 1..(k + 2) /\ s[i] = b[i]
    BY <1>2, <1>3, <1>6, <1>8
  <2>2. b[i] = ":" /\ s[i + 1] = "/"
    BY <1>9, <2>1 DEF MarkAt
  <2>3. CASE i = k + 2
    BY <1>3, <2>2, <2>3, PortFacts
  <2>4. CASE i = 1
    BY <1>3, <2>2, <2>4, PortFacts
  <2>5. CASE i \in 2..k
    <3>1. i + 1 \in 1..(k + 2) /\ i \in 1..k
      BY <1>2, <2>5
    <3>2. s[i + 1] = h[i]
      BY <1>3, <1>6, <3>1
    <3> QED BY <2>2, <3>1, <3>2 DEF k
  <2>6. CASE i = k + 1 /\ i # 1
    <3>1. i + 1 \in 1..(k + 2) /\ i + 1 = k + 2
      BY <1>2, <2>6
    <3>2. s[i + 1] = "]"
      BY <1>3, <1>6, <3>1
    <3> QED BY <2>2, <3>2, PortFacts
  <2>7. i = k + 2 \/ i = 1 \/ i \in 2..k \/ (i = k + 1 /\ i # 1)
    BY <1>2, <2>1
  <2> QED BY <2>3, <2>4, <2>5, <2>6, <2>7
<1> QED BY <1>5, <1>9, SchemeEndIs DEF s, b, d

\* The address made of what was parsed is parsed as the same.
LEMMA Dialled ==
  ASSUME NEW T, Separators \subseteq T, Ports \subseteq T, NEW g \in Seq(T), NEW f, AppConfig(f)
  PROVE  DialledRight(g, f)
<1> DEFINE s == TrimSpace(g)
           e == ParseEndpoint(g, f)
<1>1. SUFFICES ASSUME e.ok, ToSet(e.host) \cap {"[", "]", " "} = {}
               PROVE  ParseEndpoint(JoinHostPort(e.host, e.port), f) = e
  BY DEF DialledRight
<1>2. s \in Seq(T) /\ e = ParseText(s, f)
  BY TrimIs, ParseIs
<1> HIDE DEF s, e
<1>3. PICK h \in Seq(T), p \in Ports :
        /\ e = Valid(h, p) /\ TakenText(s, h, p, f) /\ h # <<>>
        /\ \/ \A i \in 1..Len(h) : h[i] # "/"
           \/ Taken(s, h, p) /\ SchemeEnd(s) = 0
  BY <1>1, <1>2, TextIs
<1>4. e.host = h /\ e.port = p /\ p # NoPort
  BY <1>3, ValidIs, PortFacts
<1>5. \A i \in 1..Len(h) : h[i] # "[" /\ h[i] # "]" /\ h[i] # " "
  <2>1. DOMAIN h = 1..Len(h)
    OBVIOUS
  <2> QED BY <1>1, <1>4, <2>1 DEF ToSet
<1> DEFINE j == JoinHostPort(h, p)
<1>6. Suffix(p) = <<":", p>> /\ Suffix(p) \in Seq(T) /\ Len(Suffix(p)) = 2 /\ Suffix(p)[2] = p
  BY SuffixIs
<1>7. j = (IF Has(h, ":") THEN Bracket(h) ELSE h) \o Suffix(p)
  BY <1>6 DEF JoinHostPort, Bracket
<1>8. Len(h) \in Nat /\ Len(h) # 0 /\ 1 \in 1..Len(h)
  BY <1>3, EmptySeq
<1>9. Bracket(h) \in Seq(T) /\ Len(Bracket(h)) = Len(h) + 2 /\ Bracket(h)[1] = "["
  BY BracketShape
<1> HIDE DEF j
<1>10. Taken(j, h, p)
  <2>1. CASE Has(h, ":")
    BY <1>3, <1>5, <1>7, <2>1, TakenIs DEF InBrackets
  <2>2. CASE ~Has(h, ":")
    <3>1. \A i \in 1..Len(h) : h[i] # ":"
      BY <2>2, HasIs
    <3>2. Bare(j, h, p)
      BY <1>4, <1>5, <1>7, <1>8, <2>2, <3>1 DEF Bare
    <3> QED BY <1>3, <3>2, TakenIs
  <2> QED BY <2>1, <2>2
<1>11. SchemeEnd(j) = 0
  <2>1. CASE ~Has(h, ":")
    <3>1. \A i \in 1..Len(h) : h[i] # ":"
      BY <2>1, HasIs
    <3> QED BY <1>7, <2>1, <3>1, NoMarkPlain
  <2>2. CASE Has(h, ":") /\ \A i \in 1..Len(h) : h[i] # "/"
    BY <1>7, <2>2, NoMarkBracket
  <2>3. CASE Has(h, ":") /\ Taken(s, h, p) /\ SchemeEnd(s) = 0
    <3>1. ~Bare(s, h, p)
      <4>1. \E i \in 1..Len(h) : h[i] = ":"
        BY <2>3, HasIs
      <4> QED BY <1>4, <4>1 DEF Bare
    <3>2. s = j
      BY <1>7, <2>3, <3>1, TakenIs DEF InBrackets
    <3> QED BY <2>3, <3>2
  <2> QED BY <1>3, <2>1, <2>2, <2>3
<1>12. j \in Seq(T) /\ j # <<>> /\ j[1] # " " /\ j[Len(j)] # " "
  <2> DEFINE a == IF Has(h, ":") THEN Bracket(h) ELSE h
             d == Suffix(p)
             k == Len(a)
  <2>1. a \in Seq(T) /\ k \in Nat /\ k # 0 /\ a[1] # " "
    <3>1. "[" # " "
      OBVIOUS
    <3>2. CASE Has(h, ":")
      <4>1. a = Bracket(h)
        BY <3>2
      <4>2. Len(Bracket(h)) \in Nat /\ Len(Bracket(h)) # 0
        <5>1. Len(h) \in Nat
          BY <1>8
        <5>2. Len(Bracket(h)) = Len(h) + 2
          BY <1>9
        <5> HIDE DEF a, k
        <5> QED BY <5>1, <5>2
      <4>3. Bracket(h) \in Seq(T) /\ Bracket(h)[1] # " "
        BY <1>9, <3>1
      <4> HIDE DEF a
      <4> QED BY <4>1, <4>2, <4>3 DEF k
    <3>3. CASE ~Has(h, ":")
      BY <1>5, <1>8, <3>3
    <3> QED BY <3>2, <3>3
  <2>2. d \in Seq(T) /\ Len(d) = 2 /\ d[2] = p /\ j = a \o d
    BY <1>6, <1>7
  <2> HIDE DEF a, d
  <2>0. a \in Seq(T) /\ d \in Seq(T)
    BY <2>1, <2>2
  <2>3. Len(a \o d) = k + Len(d)
    BY <2>0, JoinIs
  <2>10. a \o d \in Seq(T)
    BY <2>0
  <2>4. \A i \in 1..k : (a \o d)[i] = a[i]
    BY <2>0, JoinIs
  <2>5. \A i \in 1..Len(d) : (a \o d)[k + i] = d[i]
    BY <2>0, JoinIs
  <2> HIDE DEF k
  <2>6. Len(j) = k + 2 /\ j[k + 2] = p /\ j[1] = a[1]
    <3>0. \A n \in Nat : n # 0 => 1 \in 1..n
      OBVIOUS
    <3>1. 1 \in 1..k /\ 2 \in 1..2
      <4>1. 1 \in 1..k
        BY <2>1, <3>0, Zenon
      <4> QED BY <4>1
    <3>2. Len(j) = k + 2
      BY <2>2, <2>3
    <3>3. j[1] = a[1]
      BY <2>2, <2>4, <3>1
    <3>4. j[k + 2] = d[2]
      BY <2>2, <2>5, <3>1
    <3> QED BY <2>2, <3>2, <3>3, <3>4
  <2>7. p # " "
    BY PortFacts
  <2>8. Len(j) # 0
    <3>1. \A n \in Nat : n + 2 # 0
      OBVIOUS
    <3>2. k \in Nat /\ Len(j) = k + 2
      BY <2>1, <2>6
    <3> QED BY <3>1, <3>2, Zenon
  <2>9. j # <<>>
    BY <2>8, EmptySeq
  <2> QED BY <2>1, <2>2, <2>10, <2>6, <2>7, <2>9
<1>13. TrimSpace(j) = j
  BY <1>12, TrimIs
<1>14. SplitHostPort(j) = Valid(h, p)
  BY <1>10, <1>12, HostPort
<1>15. ParseText(j, f) = Valid(h, p)
  BY <1>4, <1>11, <1>14, ValidIs DEF ParseText
<1> QED BY <1>3, <1>4, <1>13, <1>15, ParseIs DEF j

\* Every endpoint is made of the symbols it is built from and begins with.
EndpointTyped == endpoint \in Seq(EndpointSymbols \cup {"app", "APP", "http"} \cup Separators \cup Ports)

LEMMA EndpointIsTyped == Spec => []EndpointTyped
<1> DEFINE T == EndpointSymbols \cup {"app", "APP", "http"} \cup Separators \cup Ports
<1>1. Init => EndpointTyped
  <2>1. \A b \in Beginnings : b \in Seq(T)
    <3>1. {":", "/", "[", "]", "x", "app", "APP", "http"} \subseteq T
      BY DEF EndpointSymbols, Separators
    <3> HIDE DEF T
    <3>2. <<>> \in Seq(T)
      BY EmptySeq
    <3>3. \A w \in {"app", "APP", "http"} : <<w, ":", "/", "/">> \in Seq(T)
      BY <3>1
    <3>4. <<"app", ":", "/", "/", "[", "x">> \in Seq(T)
      BY <3>1
    <3>5. <<"[", "x", ":", "x">> \in Seq(T)
      BY <3>1
    <3> QED BY <3>2, <3>3, <3>4, <3>5 DEF Beginnings
  <2>2. <<>> \in Seq(T)
    BY EmptySeq
  <2> QED BY <2>1, <2>2 DEF Init, EndpointTyped
<1>2. EndpointTyped /\ [Next]_vars => EndpointTyped'
  BY DEF EndpointTyped, Next, MessageGrows, EndpointGrows, vars
<1> QED BY <1>1, <1>2, PTL DEF Spec

LEMMA ConfigsAre == \A f \in AppConfigs : AppConfig(f)
<1>1. \A i \in DOMAIN <<"app">> : <<"app">>[i] # ":"
  OBVIOUS
<1>2. \A i \in DOMAIN <<"APP">> : <<"APP">>[i] # ":"
  OBVIOUS
<1>3. \A i \in DOMAIN <<>> : <<>>[i] # ":"
  OBVIOUS
<1> QED BY <1>1, <1>2, <1>3 DEF AppConfigs, AppConfig, Ports

\* Every endpoint text, of any length, is accepted if and only if it has one of the forms
\* listed on ParseEndpoint, or is an IPv6 literal without brackets behind the scheme, and
\* with the host and port it reads as. Two Configs are apart: with a capital in the scheme
\* no text with a scheme is accepted, and with no scheme "://host[:port]" is, whose port is
\* 0 if it has none (CLT-070, CLT-071).
THEOREM EndpointsAlwaysRight == Spec => []EndpointsRight
<1>1. EndpointTyped => EndpointsRight
  BY ConfigsAre, Parsed DEF EndpointTyped, EndpointsRight
<1> QED BY <1>1, EndpointIsTyped, PTL

\* Every endpoint that is accepted, unless brackets or blanks have got into its host, is
\* dialled under its own host and port.
THEOREM DialsAlwaysRight == Spec => []DialsRight
<1>1. EndpointTyped => DialsRight
  BY ConfigsAre, Dialled DEF EndpointTyped, DialsRight
<1> QED BY <1>1, EndpointIsTyped, PTL
=============================================================================
