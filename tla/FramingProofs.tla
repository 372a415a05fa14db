--------------------------- MODULE FramingProofs ----------------------------
(***************************************************************************)
(* Both receivers of a stream get what was sent, in order, up to the first *)
(* bad body, and stop for its own fault.  Each is either in step with the  *)
(* stream (Follows) or Done; this is inductive, and implies the invariants. *)
(***************************************************************************)
EXTENDS FramingStream

\* Nothing that is still sent changes what a receiver should make of it all.
Settled == FirstRefused # 0 \/ ended

\* A receiver that got all it should and then the fault, or that lost step.
Done(bs, f) ==
  /\ Settled /\ IsPrefix(Expected, bs)
  /\ InStep => bs = Expected /\ f = Fault

\* What the reader has not passed on, with the header it has put aside.
Held == IF need = NoHeader THEN sock ELSE LE(need) \o sock

\* The reader is in step, what it holds and the wire are still to come and the length it
\* waits for is the one announced; or it is done.
ReaderInv ==
  \/ /\ fate = "none" /\ Follows(sent, torn, ended, read, Held \o wire)
     /\ need # NoHeader => need = Announced(sent, torn, Len(read)) /\ need <= Cap
  \/ Done(read, fate)

\* The same of the program's buffer.
BufferInv == \/ bufFate = "none" /\ Follows(sent, torn, ended, split, buf \o wire)
             \/ Done(split, bufFate)

\* frame.go, client.go:431-459: every byte is a byte, the length a reader waits for is one
\* the prefix can say, and a receiver has only bodies of the kind that are sent.
THEOREM TypeCorrect == Spec => []TypeOK
<1>1. Init => TypeOK
  <2>1. <<>> \in Seq(Bodies) /\ <<>> \in Bytes
    BY DEF Bytes
  <2>2. NoHeader \in NoHeader..(Width - 1)
    BY WeightPositive, FramingAssumption DEF Width, NoHeader
  <2> QED BY <2>1, <2>2 DEF Init, TypeOK, Fates
<1>2. TypeOK /\ [Next]_vars => TypeOK'
  <2>1. SUFFICES ASSUME TypeOK, [Next]_vars PROVE TypeOK'
    OBVIOUS
  <2>2. ASSUME NEW b \in Bodies, Send(b) PROVE TypeOK'
    <3>1. b \in Bytes /\ EncodeFrame(b) \in Bytes
      BY BodyIsBytes, FrameIs
    <3>2. wire \o EncodeFrame(b) \in Bytes
      BY <2>1, <3>1, ConcatIs DEF TypeOK
    <3>3. Append(sent, b) \in Seq(Bodies)
      BY <2>1 DEF TypeOK
    <3> QED BY <2>1, <2>2, <3>2, <3>3 DEF TypeOK, Send, readerVars, bufVars
  <2>3. ASSUME NEW b \in Bodies, Tear(b) PROVE TypeOK'
    <3>1. PICK k \in 0..(Len(EncodeFrame(b)) - 1) :
             /\ wire' = wire \o SubSeq(EncodeFrame(b), 1, k)
             /\ torn' = IF k < HeaderLen THEN NoHeader ELSE Len(b)
      BY <2>3 DEF Tear
    <3>2. b \in Bytes /\ EncodeFrame(b) \in Bytes /\ Len(EncodeFrame(b)) \in Nat
      BY BodyIsBytes, FrameIs, BytesAre
    <3>3. SubSeq(EncodeFrame(b), 1, k) \in Bytes
      BY <3>2, TakeIs
    <3>4. wire' \in Bytes
      BY <2>1, <3>1, <3>3, ConcatIs DEF TypeOK
    <3>5. torn' \in {NoHeader} \cup {Len(c) : c \in Bodies}
      BY <3>1
    <3> QED BY <2>1, <2>3, <3>4, <3>5 DEF TypeOK, Tear, readerVars, bufVars
  <2>4. ASSUME NEW k \in 1..Len(wire), Arrive(k) PROVE TypeOK'
    <3>1. wire \in Bytes /\ sock \in Bytes /\ buf \in Bytes /\ Len(wire) \in Nat
      BY <2>1, BytesAre DEF TypeOK
    <3>2. SubSeq(wire, 1, k) \in Bytes /\ Drop(wire, k) \in Bytes
      BY <3>1, TakeIs, DropIs
    <3>3. sock \o SubSeq(wire, 1, k) \in Bytes /\ buf \o SubSeq(wire, 1, k) \in Bytes
      BY <3>1, <3>2, ConcatIs
    <3>4. sock' \in Bytes /\ buf' \in Bytes /\ wire' \in Bytes
      BY <2>4, <3>1, <3>2, <3>3 DEF Arrive
    <3> QED BY <2>1, <2>4, <3>4 DEF TypeOK, Arrive, sendVars, readerVars, bufVars
  <2>5. CASE ReadHeader
    <3>1. sock \in Bytes /\ Len(sock) \in Nat /\ HeaderLen \in Nat /\ Len(sock) >= HeaderLen
      BY <2>1, <2>5, BytesAre, FramingAssumption DEF TypeOK, ReadHeader, Consume
    <3>2. UnLE(sock) \in 0..(Width - 1) /\ UnLE(sock) \in NoHeader..(Width - 1)
      BY <3>1, UnLERange DEF NoHeader
    <3>3. sock' \in Bytes
      BY <2>5, <3>1, DropIs DEF ReadHeader, Consume
    <3>4. need' \in NoHeader..(Width - 1) /\ fate' \in Fates
      BY <2>1, <2>5, <3>2 DEF TypeOK, ReadHeader, Fates
    <3>5. need' # NoHeader => need' <= Cap
      <4>1. UnLE(sock) \in Int /\ Cap \in Int
        BY <3>2, FramingAssumption
      <4> QED BY <2>5, <4>1 DEF ReadHeader
    <3> QED BY <2>1, <2>5, <3>3, <3>4, <3>5 DEF TypeOK, ReadHeader, sendVars, bufVars
  <2>6. CASE ReadBody
    <3>1. /\ sock \in Bytes /\ Len(sock) \in Nat /\ Len(sock) >= need
          /\ need \in NoHeader..(Width - 1) /\ need # NoHeader
      BY <2>1, <2>6, BytesAre DEF TypeOK, ReadBody, Consume
    <3>2. need \in 0..Len(sock)
      BY <3>1, WeightPositive, FramingAssumption DEF NoHeader, Width
    <3>3. sock' \in Bytes
      BY <2>6, <3>1, <3>2, DropIs DEF ReadBody, Consume
    <3>4. NoHeader \in NoHeader..(Width - 1)
      BY WeightPositive, FramingAssumption DEF Width, NoHeader
    <3>5. /\ read' \in Seq(Bodies) /\ need' \in NoHeader..(Width - 1) /\ fate' \in Fates
          /\ need' # NoHeader => need' <= Cap
      <4>1. CASE Decodes(SubSeq(sock, 1, need))
        <5>1. SubSeq(sock, 1, need) \in Bodies
          BY <4>1, DecodesBody
        <5>2. /\ read' = Append(read, SubSeq(sock, 1, need))
              /\ need' = NoHeader /\ fate' = fate
          BY <2>6, <4>1 DEF ReadBody
        <5> QED BY <2>1, <3>4, <5>1, <5>2 DEF TypeOK
      <4>2. CASE ~Decodes(SubSeq(sock, 1, need))
        <5>1. read' = read /\ need' = need /\ fate' = "decode"
          BY <2>6, <4>2 DEF ReadBody
        <5> QED BY <2>1, <5>1 DEF TypeOK, Fates
      <4> QED BY <4>1, <4>2
    <3> QED BY <2>1, <2>6, <3>3, <3>5 DEF TypeOK, ReadBody, sendVars, bufVars
  <2>7. CASE ReadErr
    BY <2>1, <2>7 DEF TypeOK, ReadErr, sendVars, bufVars, Fates
  <2>8. CASE Decode
    <3>1. split' \in Seq(Bodies) /\ buf' \in Bytes /\ bufFate' \in Fates \ {"lost"}
      <4>1. CASE bufFate' \in {"too_large", "decode"} /\ buf' = buf /\ split' = split
        BY <2>1, <4>1 DEF TypeOK, Fates
      <4>2. CASE /\ TrySplitFrame(buf).kind = "ok" /\ Decodes(TrySplitFrame(buf).body)
                 /\ split' = Append(split, TrySplitFrame(buf).body)
                 /\ buf' = Drop(buf, TrySplitFrame(buf).consumed)
                 /\ bufFate' = bufFate
        <5>1. TrySplitFrame(buf).body \in Bodies
          BY <4>2, DecodesBody
        <5>2. /\ buf \in Bytes /\ Len(buf) \in Nat /\ HeaderLen \in Nat
              /\ ~(Len(buf) < HeaderLen) /\ ~(Len(buf) < HeaderLen + UnLE(buf))
              /\ TrySplitFrame(buf).consumed = HeaderLen + UnLE(buf)
          BY <2>1, <4>2, BytesAre, SplitFrameIs, FramingAssumption DEF TypeOK
        <5>3. UnLE(buf) \in Nat
          BY <5>2, UnLERange
        <5>4. TrySplitFrame(buf).consumed \in 0..Len(buf)
          BY <5>2, <5>3
        <5>5. buf' \in Bytes
          BY <4>2, <5>2, <5>4, DropIs
        <5> QED BY <2>1, <4>2, <5>1, <5>5 DEF TypeOK
      <4>3. \/ bufFate' \in {"too_large", "decode"} /\ buf' = buf /\ split' = split
            \/ /\ TrySplitFrame(buf).kind = "ok" /\ Decodes(TrySplitFrame(buf).body)
               /\ split' = Append(split, TrySplitFrame(buf).body)
               /\ buf' = Drop(buf, TrySplitFrame(buf).consumed)
               /\ bufFate' = bufFate
        <5> HIDE DEF TrySplitFrame
        <5> QED BY <2>8 DEF Decode, GiveUp
      <4> QED BY <4>1, <4>2, <4>3
    <3> QED BY <2>1, <2>8, <3>1 DEF TypeOK, Decode, sendVars, readerVars
  <2>9. CASE UNCHANGED vars
    BY <2>1, <2>9 DEF TypeOK, vars, sendVars, readerVars, bufVars
  <2> QED BY <2>1, <2>2, <2>3, <2>4, <2>5, <2>6, <2>7, <2>8, <2>9 DEF Next, Reader
<1> QED BY <1>1, <1>2, PTL DEF Spec

\* Where refused bodies were sent.
RefusedAt == {i \in 1..Len(sent) : Refused(sent[i])}

LEMMA FirstRefusedDef ==
  FirstRefused = IF RefusedAt # {} THEN Min(RefusedAt) ELSE 0
BY DEF FirstRefused, RefusedAt, SelectInSeq

\* SelectInSeq finds the first refused body, if there is one.
LEMMA FirstRefusedIs ==
  sent \in Seq(Bodies) =>
    /\ FirstRefused \in 0..Len(sent)
    /\ FirstRefused = 0 => \A j \in 1..Len(sent) : ~Refused(sent[j])
    /\ FirstRefused # 0 => /\ Refused(sent[FirstRefused])
                           /\ \A j \in 1..(FirstRefused - 1) : ~Refused(sent[j])
<1> SUFFICES ASSUME sent \in Seq(Bodies)
             PROVE  /\ FirstRefused \in 0..Len(sent)
                    /\ FirstRefused = 0 => \A j \in 1..Len(sent) : ~Refused(sent[j])
                    /\ FirstRefused # 0 => /\ Refused(sent[FirstRefused])
                                           /\ \A j \in 1..(FirstRefused - 1) : ~Refused(sent[j])
  OBVIOUS
<1>1. Len(sent) \in Nat
  OBVIOUS
<1>2. CASE RefusedAt = {}
  <2>1. FirstRefused = 0
    BY <1>2, FirstRefusedDef
  <2>2. \A j \in 1..Len(sent) : ~Refused(sent[j])
    BY <1>2 DEF RefusedAt
  <2> QED BY <1>1, <2>1, <2>2
<1>3. CASE RefusedAt # {}
  <2>1. FirstRefused = Min(RefusedAt)
    BY <1>3, FirstRefusedDef
  <2>2. RefusedAt \in SUBSET Nat /\ RefusedAt \subseteq 1..Len(sent)
    BY <1>1 DEF RefusedAt
  <2>3. \E n \in RefusedAt : \A m \in RefusedAt : n <= m
    BY <1>3, <2>2, LeastElement
  <2>4. FirstRefused \in RefusedAt /\ \A m \in RefusedAt : FirstRefused <= m
    BY <2>1, <2>3 DEF Min
  <2>5. FirstRefused \in 1..Len(sent) /\ Refused(sent[FirstRefused])
    BY <2>2, <2>4 DEF RefusedAt
  <2>6. ASSUME NEW j \in 1..(FirstRefused - 1), Refused(sent[j]) PROVE FALSE
    <3>1. j \in 1..Len(sent) /\ ~(FirstRefused <= j)
      BY <1>1, <2>5
    <3>2. j \in RefusedAt
      BY <2>6, <3>1 DEF RefusedAt
    <3> QED BY <2>4, <3>1, <3>2
  <2> QED BY <1>1, <2>5, <2>6
<1> QED BY <1>2, <1>3

LEMMA FirstRefusedAt ==
  ASSUME sent \in Seq(Bodies), NEW n \in 1..Len(sent), Refused(sent[n]),
         \A j \in 1..(n - 1) : ~Refused(sent[j])
  PROVE  FirstRefused = n
<1>1. FirstRefused \in 0..Len(sent) /\ Len(sent) \in Nat /\ n \in Nat
  BY FirstRefusedIs
<1>2. FirstRefused # 0
  BY FirstRefusedIs
<1>3. /\ Refused(sent[FirstRefused])
      /\ \A j \in 1..(FirstRefused - 1) : ~Refused(sent[j])
  BY <1>2, FirstRefusedIs
<1>4. ~(n < FirstRefused)
  BY <1>1, <1>3
<1>5. ~(FirstRefused < n)
  BY <1>1, <1>2, <1>3
<1> QED BY <1>1, <1>4, <1>5

LEMMA NoneRefused ==
  ASSUME sent \in Seq(Bodies), \A j \in 1..Len(sent) : ~Refused(sent[j])
  PROVE  FirstRefused = 0
BY FirstRefusedIs

\* Expected, InStep and Fault, seen by a receiver whose next body is refused ...
LEMMA AtRefused ==
  ASSUME sent \in Seq(Bodies), NEW r \in 0..(Len(sent) - 1),
         \A j \in 1..r : ~Refused(sent[j]), Refused(sent[r + 1])
  PROVE  /\ FirstRefused = r + 1
         /\ Expected = SubSeq(sent, 1, r)
         /\ InStep <=> Len(sent[r + 1]) < Width
         /\ Fault = IF Len(sent[r + 1]) > Cap THEN "too_large" ELSE "decode"
<1>1. /\ r + 1 \in 1..Len(sent) /\ r \in Nat /\ (r + 1) - 1 = r
  OBVIOUS
<1>2. FirstRefused = r + 1
  BY <1>1, FirstRefusedAt
<1>3. FirstRefused # 0
  BY <1>1, <1>2
<1> QED BY <1>1, <1>2, <1>3 DEF Expected, InStep, Fault

\* ... and by one that has every body, none of them refused.
LEMMA AtEnd ==
  ASSUME sent \in Seq(Bodies), \A j \in 1..Len(sent) : ~Refused(sent[j])
  PROVE  /\ FirstRefused = 0
         /\ Expected = sent
         /\ InStep <=> torn < Width
         /\ Fault = IF torn # NoHeader /\ torn > Cap THEN "too_large" ELSE "lost"
<1>1. FirstRefused = 0
  BY NoneRefused
<1> QED BY <1>1 DEF Expected, InStep, Fault

LEMMA PrefixOfItself ==
  ASSUME NEW s \in Seq(Bodies)
  PROVE  IsPrefix(s, s)
BY DEF IsPrefix

LEMMA PrefixGrows ==
  ASSUME NEW s \in Seq(Bodies), NEW t \in Seq(Bodies), NEW b \in Bodies, IsPrefix(s, t)
  PROVE  IsPrefix(s, Append(t, b))
<1>1. Len(s) \in Nat /\ Len(t) \in Nat /\ Len(s) <= Len(t)
  BY DEF IsPrefix
<1>2. Append(t, b) \in Seq(Bodies) /\ Len(Append(t, b)) = Len(t) + 1
      /\ \A i \in 1..Len(t) : Append(t, b)[i] = t[i]
  OBVIOUS
<1>3. SubSeq(t, 1, Len(s)) = SubSeq(Append(t, b), 1, Len(s))
  BY <1>1, <1>2
<1> QED BY <1>1, <1>2, <1>3 DEF IsPrefix

\* Expected is what was sent, up to the first refused body.
LEMMA ExpectedIs ==
  ASSUME sent \in Seq(Bodies)
  PROVE  /\ Expected \in Seq(Bodies)
         /\ Len(Expected) <= Len(sent)
         /\ Expected = SubSeq(sent, 1, Len(Expected))
         /\ FirstRefused = 0 => Len(Expected) = Len(sent)
         /\ FirstRefused # 0 => Len(Expected) = FirstRefused - 1
<1>1. FirstRefused \in 0..Len(sent) /\ Len(sent) \in Nat
  BY FirstRefusedIs
<1>2. CASE FirstRefused = 0
  BY <1>2, SubSeqFull DEF Expected
<1>3. CASE FirstRefused # 0
  <2>1. Expected = SubSeq(sent, 1, FirstRefused - 1)
    BY <1>3 DEF Expected
  <2>2. FirstRefused - 1 \in 0..Len(sent)
    BY <1>1, <1>3
  <2>3. Len(Expected) = FirstRefused - 1 /\ Expected \in Seq(Bodies)
    BY <2>1, <2>2
  <2> QED BY <1>1, <1>3, <2>1, <2>2, <2>3
<1> QED BY <1>2, <1>3

\* Whoever is in step has a part of what it should get.
LEMMA FollowingIsExpected ==
  ASSUME sent \in Seq(Bodies), NEW bs \in Seq(Bodies), Len(bs) <= Len(sent),
         bs = SubSeq(sent, 1, Len(bs)), \A j \in 1..Len(bs) : ~Refused(sent[j])
  PROVE  IsPrefix(bs, Expected)
<1>1. FirstRefused \in 0..Len(sent) /\ Len(sent) \in Nat /\ Len(bs) \in Nat
  BY FirstRefusedIs
<1>2. FirstRefused # 0 => Len(bs) < FirstRefused
  BY <1>1, FirstRefusedIs
<1>3. Len(bs) <= Len(Expected)
  BY <1>1, <1>2, ExpectedIs
<1> DEFINE n == Len(Expected)
           E == Expected
<1>4. E = SubSeq(sent, 1, n) /\ n \in Nat /\ n <= Len(sent) /\ Len(bs) <= n /\ n = Len(E)
  BY <1>1, <1>3, ExpectedIs
<1> HIDE DEF n, E
<1>5. SubSeq(SubSeq(sent, 1, n), 1, Len(bs)) = SubSeq(sent, 1, Len(bs))
  BY <1>1, <1>4
<1>6. SubSeq(bs, 1, Len(bs)) = bs
  BY SubSeqFull
<1>7. SubSeq(bs, 1, Len(bs)) = SubSeq(E, 1, Len(bs))
  BY <1>4, <1>5, <1>6
<1> QED BY <1>3, <1>7 DEF IsPrefix, E

\* The invariant of a receiver says it received right.
LEMMA InvIsRight ==
  ASSUME NEW bs \in Seq(Bodies), NEW f, NEW R, sent \in Seq(Bodies),
         (f = "none" /\ Follows(sent, torn, ended, bs, R)) \/ Done(bs, f)
  PROVE  ReceivedRight(bs, f)
<1>1. CASE f = "none" /\ Follows(sent, torn, ended, bs, R)
  <2>1. IsPrefix(bs, Expected)
    BY <1>1, FollowingIsExpected DEF Follows
  <2> QED BY <1>1, <2>1 DEF ReceivedRight
<1>2. CASE Done(bs, f)
  <2>1. IsPrefix(bs, bs)
    BY PrefixOfItself
  <2>2. /\ IsPrefix(Expected, bs)
        /\ InStep => bs = Expected /\ f = Fault
    BY <1>2 DEF Done
  <2> QED BY <2>1, <2>2 DEF ReceivedRight
<1> QED BY <1>1, <1>2

\* FirstRefused is determined by what was sent; stated so, it can be primed.
FirstRefusedIsFirst ==
  /\ \A n \in 1..Len(sent) :
        Refused(sent[n]) /\ (\A j \in 1..(n - 1) : ~Refused(sent[j])) => FirstRefused = n
  /\ (\A j \in 1..Len(sent) : ~Refused(sent[j])) => FirstRefused = 0

LEMMA FirstRefusedUnique == TypeOK => FirstRefusedIsFirst
BY FirstRefusedAt, NoneRefused DEF TypeOK, FirstRefusedIsFirst

\* What was sent only grows, and not after the end.
LEMMA SentGrows ==
  ASSUME TypeOK, [Next]_vars
  PROVE  /\ sent' = sent \/ (~ended /\ \E b \in Bodies : sent' = Append(sent, b))
         /\ ended => ended' /\ torn' = torn /\ sent' = sent
<1>1. ASSUME NEW b \in Bodies, Send(b)
      PROVE  ~ended /\ sent' = Append(sent, b) /\ ended' = ended
  BY <1>1 DEF Send
<1>2. ASSUME NEW b \in Bodies, Tear(b)
      PROVE  ~ended /\ sent' = sent
  BY <1>2 DEF Tear
<1>3. CASE (\E k \in 1..Len(wire) : Arrive(k)) \/ Reader \/ Decode \/ UNCHANGED vars
  BY <1>3 DEF Arrive, Reader, ReadHeader, ReadBody, ReadErr, Decode, vars, sendVars
<1> QED BY <1>1, <1>2, <1>3 DEF Next

\* Once settled, what a receiver should make of the stream does not change.
LEMMA SettledStays ==
  ASSUME TypeOK, TypeOK', [Next]_vars, Settled
  PROVE  /\ Settled' /\ Expected' = Expected /\ Fault' = Fault
         /\ InStep' <=> InStep
<1>1. sent \in Seq(Bodies) /\ sent' \in Seq(Bodies) /\ Len(sent) \in Nat
  BY DEF TypeOK
<1>2. CASE FirstRefused # 0
  <2> DEFINE n == FirstRefused
  <2>1. /\ n \in 1..Len(sent) /\ Refused(sent[n])
        /\ \A j \in 1..(n - 1) : ~Refused(sent[j])
    BY <1>1, <1>2, FirstRefusedIs
  <2> HIDE DEF n
  <2>2. /\ n \in 1..Len(sent')
        /\ \A j \in 1..n : sent'[j] = sent[j]
        /\ SubSeq(sent', 1, n - 1) = SubSeq(sent, 1, n - 1)
    <3>1. CASE sent' = sent
      BY <1>1, <2>1, <3>1
    <3>2. ASSUME NEW b \in Bodies, sent' = Append(sent, b)
          PROVE  /\ n \in 1..Len(sent')
                 /\ \A j \in 1..n : sent'[j] = sent[j]
                 /\ SubSeq(sent', 1, n - 1) = SubSeq(sent, 1, n - 1)
      BY <1>1, <2>1, <3>2
    <3> QED BY <3>1, <3>2, SentGrows
  <2>3. Refused(sent'[n]) /\ \A j \in 1..(n - 1) : ~Refused(sent'[j])
    BY <2>1, <2>2
  <2>4. FirstRefused' = n
    <3>1. FirstRefusedIsFirst'
      BY FirstRefusedUnique, PTL
    <3> QED BY <2>2, <2>3, <3>1 DEF Refused, FirstRefusedIsFirst
  <2>5. FirstRefused' # 0 /\ FirstRefused = n /\ sent'[n] = sent[n]
    BY <1>2, <2>1, <2>2, <2>4 DEF n
  <2>6. Settled'
    BY <2>5 DEF Settled
  <2>7. Expected' = Expected
    BY <2>2, <2>4, <2>5 DEF Expected
  <2>8. Fault' = Fault
    BY <2>4, <2>5 DEF Fault
  <2>9. InStep' <=> InStep
    BY <2>4, <2>5 DEF InStep
  <2> QED BY <2>6, <2>7, <2>8, <2>9
<1>3. CASE FirstRefused = 0
  <2>1. ended
    BY <1>3 DEF Settled
  <2>2. sent' = sent /\ torn' = torn /\ ended'
    BY <2>1, SentGrows
  <2>3. \A j \in 1..Len(sent') : ~Refused(sent'[j])
    BY <1>1, <1>3, <2>2, FirstRefusedIs
  <2>4. FirstRefused' = 0
    <3>1. FirstRefusedIsFirst'
      BY FirstRefusedUnique, PTL
    <3> QED BY <2>3, <3>1 DEF Refused, FirstRefusedIsFirst
  <2>5. Settled'
    BY <2>2 DEF Settled
  <2>6. Expected' = Expected
    BY <1>3, <2>2, <2>4 DEF Expected
  <2>7. Fault' = Fault
    BY <1>3, <2>2, <2>4 DEF Fault
  <2>8. InStep' <=> InStep
    BY <1>3, <2>2, <2>4 DEF InStep
  <2> QED BY <2>5, <2>6, <2>7, <2>8
<1> QED BY <1>2, <1>3

LEMMA TornIs ==
  ASSUME TypeOK
  PROVE  /\ torn \in Int /\ sent \in Seq(Bodies) /\ Len(sent) \in Nat
         /\ torn # NoHeader => torn \in Nat
<1>1. \A b \in Bodies : Len(b) \in Nat
  BY BodyIsBytes, BytesAre
<1> QED BY <1>1 DEF TypeOK, NoHeader

\* A receiver in step stops at a refused body, for that body's fault ...
LEMMA DoneAtRefused ==
  ASSUME TypeOK, NEW bs \in Seq(Bodies), NEW R, Follows(sent, torn, ended, bs, R),
         Len(bs) < Len(sent), NEW x, x = sent[Len(bs) + 1], Refused(x), NEW f,
         Len(x) < Width => f = IF Len(x) > Cap THEN "too_large" ELSE "decode"
  PROVE  Done(bs, f)
<1>1. /\ sent \in Seq(Bodies) /\ Len(bs) \in 0..(Len(sent) - 1) /\ bs = SubSeq(sent, 1, Len(bs))
      /\ \A j \in 1..Len(bs) : ~Refused(sent[j])
  BY TornIs DEF Follows
<1>2. /\ FirstRefused = Len(bs) + 1
      /\ Expected = SubSeq(sent, 1, Len(bs))
      /\ InStep <=> Len(x) < Width
      /\ Fault = IF Len(x) > Cap THEN "too_large" ELSE "decode"
  BY <1>1, AtRefused
<1>3. Settled
  BY <1>1, <1>2 DEF Settled
<1>4. Expected = bs
  BY <1>1, <1>2
<1>5. IsPrefix(Expected, bs)
  BY <1>4, PrefixOfItself
<1> QED BY <1>2, <1>3, <1>4, <1>5 DEF Done

\* ... or at the end of the stream, for the fault of the frame cut off, if any.
LEMMA DoneAtEnd ==
  ASSUME TypeOK, NEW bs \in Seq(Bodies), NEW R, Follows(sent, torn, ended, bs, R),
         Len(bs) = Len(sent), ended, NEW f,
         torn < Width => f = IF torn # NoHeader /\ torn > Cap THEN "too_large" ELSE "lost"
  PROVE  Done(bs, f)
<1>1. /\ sent \in Seq(Bodies) /\ bs = sent
      /\ \A j \in 1..Len(sent) : ~Refused(sent[j])
  BY TornIs, SubSeqFull DEF Follows
<1>2. /\ FirstRefused = 0
      /\ Expected = sent
      /\ InStep <=> torn < Width
      /\ Fault = IF torn # NoHeader /\ torn > Cap THEN "too_large" ELSE "lost"
  BY <1>1, AtEnd
<1>3. IsPrefix(Expected, bs)
  BY <1>1, <1>2, PrefixOfItself
<1> QED BY <1>1, <1>2, <1>3 DEF Done, Settled

\* A header over the cap, or of a length the prefix cannot say, ends it.
LEMMA BadHeader ==
  ASSUME TypeOK, NEW bs \in Seq(Bodies), NEW a \in Bytes, NEW w \in Bytes,
         Follows(sent, torn, ended, bs, a \o w), Len(a) >= HeaderLen,
         NEW n, n = Announced(sent, torn, Len(bs)), NEW f,
         n >= Width \/ (n > Cap /\ f = "too_large")
  PROVE  Done(bs, f)
<1>1. n \in Nat
  <2>1. HeaderFor(a, n)
    BY TornIs, FollowsHeader
  <2> QED BY <2>1 DEF HeaderFor
<1>2. Width \in Nat /\ Len(bs) <= Len(sent) /\ Len(bs) \in Nat /\ Len(sent) \in Nat
  BY TornIs, WeightPositive, FramingAssumption DEF Width, Follows
<1>3. CASE Len(bs) < Len(sent)
  <2> DEFINE x == sent[Len(bs) + 1]
  <2>1. n = Len(x)
    BY <1>3 DEF Announced
  <2>2. Refused(x)
    BY <1>1, <1>2, <2>1, FramingAssumption DEF Refused
  <2>3. Len(x) < Width => f = IF Len(x) > Cap THEN "too_large" ELSE "decode"
    BY <1>1, <1>2, <2>1, FramingAssumption
  <2> HIDE DEF x
  <2> QED BY <1>3, <2>2, <2>3, DoneAtRefused DEF x
<1>4. CASE ~(Len(bs) < Len(sent))
  <2>1. Len(bs) = Len(sent) /\ n = torn
    BY <1>2, <1>4 DEF Announced
  <2>2. StreamOf(sent, torn, ended, a \o w, Len(sent))
    BY <2>1 DEF Follows
  <2>3. torn # NoHeader /\ torn \in Nat
    BY <1>1, <2>1 DEF NoHeader
  <2>4. ended
    BY <1>2, <2>2, <2>3, LayoutEnd, ConcatIs
  <2>5. torn < Width => f = IF torn # NoHeader /\ torn > Cap THEN "too_large" ELSE "lost"
    BY <1>2, <2>1, <2>3, FramingAssumption
  <2> QED BY <2>1, <2>4, <2>5, DoneAtEnd
<1> QED BY <1>3, <1>4

\* So does a body that does not decode: it is the one that was sent, and refused.
LEMMA BadBody ==
  ASSUME TypeOK, NEW bs \in Seq(Bodies), NEW a \in Bytes, NEW w \in Bytes,
         Follows(sent, torn, ended, bs, a \o w),
         NEW n \in Nat, n = Announced(sent, torn, Len(bs)), HeaderLen + n <= Len(a), n <= Cap,
         ~Decodes(SubSeq(a, HeaderLen + 1, HeaderLen + n))
  PROVE  Done(bs, "decode")
<1> DEFINE x == sent[Len(bs) + 1]
<1>1. /\ Len(bs) < Len(sent) /\ n = Len(x)
      /\ SubSeq(a, HeaderLen + 1, HeaderLen + n) = x
  <2>1. sent \in Seq(Bodies) /\ torn \in Int
    BY TornIs
  <2>2. x = sent[Len(bs) + 1]
    OBVIOUS
  <2> HIDE DEF x
  <2>3. HasNext(sent, torn, ended, bs, a, w, n, x)
    BY <2>1, <2>2, FollowsBody
  <2> QED BY <2>3 DEF HasNext
<1>2. x \in Bodies
  BY <1>1, TornIs
<1>3. x \in Undecodable
  BY <1>1, <1>2 DEF Decodes
<1>4. Refused(x)
  BY <1>3 DEF Refused
<1>5. "decode" = IF Len(x) > Cap THEN "too_large" ELSE "decode"
  BY <1>1, FramingAssumption
<1> HIDE DEF x
<1> QED BY <1>1, <1>4, <1>5, DoneAtRefused DEF x

\* A body that decodes is the one that was sent, and the receiver stays in step.
LEMMA GoodBody ==
  ASSUME TypeOK, NEW bs \in Seq(Bodies), NEW a \in Bytes, NEW w \in Bytes,
         Follows(sent, torn, ended, bs, a \o w),
         NEW n \in Nat, n = Announced(sent, torn, Len(bs)), HeaderLen + n <= Len(a), n <= Cap,
         n < Width, NEW x, x = SubSeq(a, HeaderLen + 1, HeaderLen + n), Decodes(x)
  PROVE  Follows(sent, torn, ended, Append(bs, x), Drop(a, HeaderLen + n) \o w)
<1> DEFINE y == sent[Len(bs) + 1]
<1>1. y = sent[Len(bs) + 1]
  OBVIOUS
<1> HIDE DEF y
<1>2. sent \in Seq(Bodies) /\ torn \in Int
  BY TornIs
<1>3. /\ n = Len(y) /\ SubSeq(a, HeaderLen + 1, HeaderLen + n) = y
      /\ ~Refused(y) => Follows(sent, torn, ended, Append(bs, y), Drop(a, HeaderLen + n) \o w)
  <2>1. HasNext(sent, torn, ended, bs, a, w, n, y)
    BY <1>1, <1>2, FollowsBody
  <2> QED BY <2>1 DEF HasNext
<1>4. x = y
  BY <1>3
<1>5. ~Refused(y)
  <2>1. Width \in Nat /\ Cap \in Int
    BY WeightPositive, FramingAssumption DEF Width
  <2>2. ~(Len(y) > Cap) /\ ~(Len(y) >= Width)
    BY <1>3, <2>1
  <2>3. y \notin Undecodable
    BY <1>4, DecodesBody
  <2> QED BY <2>2, <2>3 DEF Refused
<1> QED BY <1>3, <1>4, <1>5

LEMMA HeldIs ==
  ASSUME TypeOK
  PROVE  /\ sock \in Bytes /\ wire \in Bytes /\ buf \in Bytes
         /\ Len(sock) \in Nat /\ Len(wire) \in Nat /\ Len(buf) \in Nat
         /\ Held \in Bytes /\ Len(Held) \in Nat
         /\ need # NoHeader => /\ need \in Nat /\ need < Width
                               /\ Held = LE(need) \o sock
                               /\ Len(LE(need)) = HeaderLen /\ LE(need) \in Bytes
                               /\ Len(Held) = HeaderLen + Len(sock)
<1>1. /\ sock \in Bytes /\ wire \in Bytes /\ buf \in Bytes
      /\ Len(sock) \in Nat /\ Len(wire) \in Nat /\ Len(buf) \in Nat
  BY BytesAre DEF TypeOK
<1>2. CASE need = NoHeader
  BY <1>1, <1>2 DEF Held
<1>3. CASE need # NoHeader
  <2>1. Width \in Nat /\ HeaderLen \in Nat
    BY WeightPositive, FramingAssumption DEF Width
  <2>2. need \in Nat /\ need < Width
    BY <1>3, <2>1 DEF TypeOK, NoHeader
  <2>3. LE(need) \in Bytes /\ Len(LE(need)) = HeaderLen
    BY <2>2, LEIsBytes
  <2>4. Held = LE(need) \o sock
    BY <1>3 DEF Held
  <2>5. Held \in Bytes /\ Len(Held) = HeaderLen + Len(sock)
    BY <1>1, <2>3, <2>4, ConcatIs
  <2> QED BY <1>1, <2>1, <2>2, <2>3, <2>4, <2>5
<1> QED BY <1>2, <1>3

LEMMA DoneStays ==
  ASSUME TypeOK, TypeOK', [Next]_vars, NEW bs, NEW f, Done(bs, f)
  PROVE  /\ Settled' /\ IsPrefix(Expected', bs)
         /\ InStep' => bs = Expected' /\ f = Fault'
BY SettledStays DEF Done

\* The sender's two actions, for either receiver.
LEMMA FollowsStep ==
  ASSUME TypeOK, NEW bs \in Seq(Bodies), NEW R \in Bytes,
         Follows(sent, torn, ended, bs, R), NEW b \in Bodies
  PROVE  /\ Send(b) => /\ Follows(sent', torn', ended', bs, R \o EncodeFrame(b))
                       /\ wire' = wire \o EncodeFrame(b)
         /\ Tear(b) => \E T \in Bytes : /\ Follows(sent', torn', ended', bs, R \o T)
                                        /\ wire' = wire \o T
         /\ Send(b) \/ Tear(b) =>
               /\ torn = NoHeader
               /\ \A n : n = Announced(sent, torn, Len(bs)) /\ n # NoHeader =>
                         n = Announced(sent', torn', Len(bs))
<1>1. sent \in Seq(Bodies) /\ Len(sent) \in Nat /\ Len(bs) \in Nat
  BY TornIs
<1>2. ASSUME ~ended
      PROVE  /\ Follows(sent, torn, FALSE, bs, R) /\ torn = NoHeader
             /\ \A n : n = Announced(sent, torn, Len(bs)) /\ n # NoHeader =>
                         Len(bs) < Len(sent) /\ n = Len(sent[Len(bs) + 1])
  <2>1. ended = FALSE
    BY <1>2 DEF TypeOK
  <2>2. Follows(sent, torn, FALSE, bs, R)
    BY <2>1
  <2>3. torn = NoHeader
    BY <2>2 DEF Follows, StreamOf, Layout
  <2> QED BY <2>2, <2>3 DEF Announced
<1>3. ASSUME Send(b)
      PROVE  /\ Follows(sent', torn', ended', bs, R \o EncodeFrame(b))
             /\ wire' = wire \o EncodeFrame(b) /\ torn = NoHeader
             /\ \A n : n = Announced(sent, torn, Len(bs)) /\ n # NoHeader =>
                         n = Announced(sent', torn', Len(bs))
  <2>1. /\ ~ended /\ ended' = FALSE /\ sent' = Append(sent, b) /\ torn' = torn
        /\ wire' = wire \o EncodeFrame(b)
    BY <1>3 DEF Send, TypeOK
  <2>2. Follows(sent', torn', ended', bs, R \o EncodeFrame(b))
    <3>1. Follows(Append(sent, b), torn, FALSE, bs, R \o EncodeFrame(b))
      BY <1>1, <1>2, <2>1, FollowsSend
    <3> QED BY <2>1, <3>1
  <2>3. ASSUME NEW n, n = Announced(sent, torn, Len(bs)), n # NoHeader
        PROVE  n = Announced(sent', torn', Len(bs))
    <3>1. Len(bs) < Len(sent) /\ n = Len(sent[Len(bs) + 1])
      BY <1>2, <2>1, <2>3
    <3>2. Len(bs) < Len(sent') /\ sent'[Len(bs) + 1] = sent[Len(bs) + 1]
      BY <1>1, <2>1, <3>1
    <3> QED BY <3>1, <3>2 DEF Announced
  <2> QED BY <1>2, <2>1, <2>2, <2>3
<1>4. ASSUME Tear(b)
      PROVE  /\ \E T \in Bytes : /\ Follows(sent', torn', ended', bs, R \o T)
                                 /\ wire' = wire \o T
             /\ torn = NoHeader
             /\ \A n : n = Announced(sent, torn, Len(bs)) /\ n # NoHeader =>
                         n = Announced(sent', torn', Len(bs))
  <2>1. ~ended /\ ended' = TRUE /\ sent' = sent
    BY <1>4 DEF Tear
  <2>2. PICK k \in 0..(Len(EncodeFrame(b)) - 1) :
             /\ wire' = wire \o SubSeq(EncodeFrame(b), 1, k)
             /\ torn' = IF k < HeaderLen THEN NoHeader ELSE Len(b)
    BY <1>4 DEF Tear
  <2>3. SubSeq(EncodeFrame(b), 1, k) \in Bytes
    <3>1. EncodeFrame(b) \in Bytes /\ Len(EncodeFrame(b)) \in Nat
      BY BodyIsBytes, FrameIs, BytesAre
    <3> QED BY <3>1, TakeIs
  <2>4. Follows(sent', torn', ended', bs, R \o SubSeq(EncodeFrame(b), 1, k))
    <3>1. Follows(sent, IF k < HeaderLen THEN NoHeader ELSE Len(b), TRUE,
                  bs, R \o SubSeq(EncodeFrame(b), 1, k))
      BY <1>1, <1>2, <2>1, FollowsTear
    <3> QED BY <2>1, <2>2, <3>1
  <2>5. ASSUME NEW n, n = Announced(sent, torn, Len(bs)), n # NoHeader
        PROVE  n = Announced(sent', torn', Len(bs))
    <3>1. Len(bs) < Len(sent) /\ n = Len(sent[Len(bs) + 1])
      BY <1>2, <2>1, <2>5
    <3> QED BY <2>1, <3>1 DEF Announced
  <2> QED BY <1>2, <2>1, <2>2, <2>3, <2>4, <2>5
<1> QED BY <1>3, <1>4

\* client.go:436-449: the length is read and compared with the cap.
LEMMA ReaderHeaderStep ==
  ASSUME TypeOK, fate = "none", need = NoHeader, ReadHeader,
         Follows(sent, torn, ended, read, Held \o wire)
  PROVE  \/ /\ fate' = "none" /\ Held' \o wire' = Held \o wire
            /\ need' = Announced(sent, torn, Len(read)) /\ need' <= Cap
         \/ Done(read, fate')
<1>1. /\ sock \in Bytes /\ wire \in Bytes /\ Len(sock) >= HeaderLen /\ Held = sock
      /\ read \in Seq(Bodies) /\ Width \in Nat /\ HeaderLen \in Nat /\ Cap \in Int
      /\ sock' = Drop(sock, HeaderLen) /\ wire' = wire
  BY HeldIs, WeightPositive, FramingAssumption DEF TypeOK, Width, Held, ReadHeader, Consume
<1> DEFINE n == Announced(sent, torn, Len(read))
<1>2. n = Announced(sent, torn, Len(read)) /\ Follows(sent, torn, ended, read, sock \o wire)
  BY <1>1
<1> HIDE DEF n
<1>3. HeaderFor(sock, n)
  BY <1>1, <1>2, TornIs, FollowsHeader
<1>4. n \in Nat /\ (n < Width => UnLE(sock) = n)
  BY <1>3 DEF HeaderFor
<1>5. CASE n >= Width
  BY <1>1, <1>5, <1>2, BadHeader
<1>6. CASE n < Width /\ n > Cap
  <2>1. fate' = "too_large"
    BY <1>4, <1>6 DEF ReadHeader
  <2> QED BY <1>1, <1>6, <1>2, <2>1, BadHeader
<1>7. CASE n < Width /\ ~(n > Cap)
  <2>1. need' = n /\ fate' = fate
    BY <1>4, <1>7 DEF ReadHeader
  <2>2. need' # NoHeader /\ need' <= Cap
    BY <1>1, <1>4, <1>7, <2>1 DEF NoHeader
  <2>3. Held' = LE(n) \o Drop(sock, HeaderLen)
    BY <1>1, <2>1, <2>2 DEF Held
  <2>4. LE(n) \o Drop(sock, HeaderLen) = sock
    BY <1>1, <1>3, HeaderPutBack DEF HeaderFor
  <2> QED BY <1>1, <1>2, <2>1, <2>2, <2>3, <2>4
<1>8. n >= Width \/ (n < Width /\ n > Cap) \/ (n < Width /\ ~(n > Cap))
  BY <1>1, <1>4
<1> QED BY <1>5, <1>6, <1>7, <1>8

\* client.go:450-459: the body is read and decoded.
LEMMA ReaderBodyStep ==
  ASSUME TypeOK, fate = "none", need # NoHeader, ReadBody,
         Follows(sent, torn, ended, read, Held \o wire),
         need = Announced(sent, torn, Len(read)), need <= Cap
  PROVE  \/ /\ fate' = "none" /\ need' = NoHeader
            /\ Follows(sent, torn, ended, read', Held' \o wire')
         \/ read' = read /\ Done(read, fate')
<1>1. /\ Held \in Bytes /\ wire \in Bytes /\ Held = LE(need) \o sock
      /\ Len(LE(need)) = HeaderLen /\ LE(need) \in Bytes /\ sock \in Bytes
      /\ need \in Nat /\ need < Width /\ HeaderLen \in Nat
      /\ Len(sock) \in Nat /\ Len(Held) = HeaderLen + Len(sock)
  BY HeldIs, FramingAssumption
<1>2. /\ Len(sock) >= need /\ sock' = Drop(sock, need) /\ wire' = wire
      /\ read \in Seq(Bodies)
  BY DEF TypeOK, ReadBody, Consume
<1>3. HeaderLen + need <= Len(Held) /\ need \in 0..Len(sock)
  BY <1>1, <1>2
<1> DEFINE x == SubSeq(Held, HeaderLen + 1, HeaderLen + need)
<1>4. x = SubSeq(sock, 1, need) /\ Drop(Held, HeaderLen + need) = Drop(sock, need)
  <2> DEFINE h == LE(need)
  <2>1. /\ h \in Bytes /\ sock \in Bytes /\ need \in 0..Len(sock) /\ Len(h) = HeaderLen
        /\ Held = h \o sock
    BY <1>1, <1>3
  <2> HIDE DEF h
  <2>2. /\ Drop(h \o sock, Len(h) + need) = Drop(sock, need)
        /\ SubSeq(h \o sock, Len(h) + 1, Len(h) + need) = SubSeq(sock, 1, need)
    BY <2>1, Beyond
  <2> QED BY <2>1, <2>2
<1>5. x = SubSeq(Held, HeaderLen + 1, HeaderLen + need)
  OBVIOUS
<1> HIDE DEF x
<1>6. CASE Decodes(x)
  <2>1. read' = Append(read, x) /\ need' = NoHeader /\ fate' = fate
    BY <1>4, <1>6 DEF ReadBody
  <2>2. Follows(sent, torn, ended, Append(read, x), Drop(Held, HeaderLen + need) \o wire)
    BY <1>1, <1>2, <1>3, <1>5, <1>6, GoodBody
  <2>3. Held' = Drop(sock, need)
    BY <1>2, <2>1 DEF Held
  <2> QED BY <1>2, <1>4, <2>1, <2>2, <2>3
<1>7. CASE ~Decodes(x)
  <2>1. read' = read /\ fate' = "decode"
    BY <1>4, <1>7 DEF ReadBody
  <2>2. Done(read, "decode")
    BY <1>1, <1>2, <1>3, <1>5, <1>7, BadBody
  <2> QED BY <2>1, <2>2
<1> QED BY <1>6, <1>7

\* client.go:436, :451: ReadFull fails when the stream ends early.
LEMMA ReaderEndStep ==
  ASSUME TypeOK, fate = "none", ReadErr,
         Follows(sent, torn, ended, read, Held \o wire),
         need # NoHeader => need = Announced(sent, torn, Len(read)) /\ need <= Cap
  PROVE  Done(read, "lost")
<1>1. /\ Held \in Bytes /\ Len(Held) \in Nat /\ wire = <<>> /\ ended /\ HeaderLen \in Nat
      /\ read \in Seq(Bodies) /\ Cap \in Int /\ Len(sock) \in Nat
      /\ sent \in Seq(Bodies) /\ Len(sent) \in Nat /\ torn \in Int
  BY HeldIs, TornIs, FramingAssumption DEF TypeOK, ReadErr
<1>2. Held \o wire = Held
  BY <1>1 DEF Bytes
<1>3. Follows(sent, torn, ended, read, Held)
  BY <1>2
<1>4. /\ Len(read) <= Len(sent) /\ Len(read) \in Nat
      /\ StreamOf(sent, torn, ended, Held, Len(read))
  <2>1. Len(read) \in Nat
    BY <1>1
  <2> QED BY <2>1, <1>3 DEF Follows
<1>5. need = NoHeader => Len(Held) < HeaderLen
  BY DEF ReadErr, Held
<1>6. need # NoHeader => /\ Len(Held) < HeaderLen + need /\ HeaderLen <= Len(Held) /\ need \in Nat
                         /\ need = Announced(sent, torn, Len(read)) /\ need <= Cap
  BY <1>1, HeldIs DEF ReadErr
<1>7. Len(read) = Len(sent)
  <2>1. SUFFICES ASSUME Len(read) # Len(sent) PROVE FALSE
    OBVIOUS
  <2> DEFINE x == sent[Len(read) + 1]
  <2>2. Len(read) < Len(sent) /\ Len(read) \in 0..(Len(sent) - 1) /\ Len(read) + 1 \in 1..Len(sent)
    BY <1>1, <1>4, <2>1
  <2>3. Len(x) \in Nat
    BY <1>1, <2>2, SentBody
  <2>4. HeaderLen + Len(x) <= Len(Held)
    BY <1>1, <1>4, <2>2, LayoutHead
  <2>5. need # NoHeader => need = Len(x)
    BY <1>6, <2>2 DEF Announced
  <2> HIDE DEF x
  <2> QED BY <1>1, <1>5, <1>6, <2>3, <2>4, <2>5
<1>8. torn # NoHeader => HeaderLen <= Len(Held)
  <2>1. StreamOf(sent, torn, ended, Held, Len(sent)) /\ Held \in Bytes /\ Len(sent) \in Nat
    BY <1>1, <1>4, <1>7
  <2> QED BY <2>1, LayoutEnd
<1>9. need # NoHeader => need = torn
  <2>1. need # NoHeader => need = Announced(sent, torn, Len(sent))
    BY <1>6, <1>7
  <2> QED BY <1>1, <2>1 DEF Announced
<1>10. "lost" = IF torn # NoHeader /\ torn > Cap THEN "too_large" ELSE "lost"
  BY <1>1, <1>5, <1>6, <1>8, <1>9
<1> QED BY <1>1, <1>3, <1>7, <1>10, DoneAtEnd

\* A receiver that is done and still runs lost step: what it takes next cannot be wrong.
LEMMA DoneGoesOn ==
  ASSUME TypeOK, NEW bs \in Seq(Bodies), Done(bs, "none"), NEW f
  PROVE  /\ Done(bs, f)
         /\ \A x \in Bodies : Done(Append(bs, x), f)
<1>1. Fault # "none"
  BY DEF Fault
<1>2. Settled /\ IsPrefix(Expected, bs) /\ ~InStep
  BY <1>1 DEF Done
<1>3. Expected \in Seq(Bodies)
  BY ExpectedIs DEF TypeOK
<1> QED BY <1>2, <1>3, PrefixGrows DEF Done

\* frame.go:66-113: one call on the buffer.
LEMMA BufferStepDecode ==
  ASSUME TypeOK, bufFate = "none", Decode,
         Follows(sent, torn, ended, split, buf \o wire)
  PROVE  \/ /\ bufFate' = "none"
            /\ Follows(sent, torn, ended, split', buf' \o wire')
         \/ Done(split', bufFate')
<1>1. /\ buf \in Bytes /\ wire \in Bytes /\ split \in Seq(Bodies) /\ Len(buf) \in Nat
      /\ Width \in Nat /\ HeaderLen \in Nat /\ Cap \in Int
      /\ torn \in Int /\ sent \in Seq(Bodies)
  BY HeldIs, TornIs, WeightPositive, FramingAssumption DEF TypeOK, Width
<1> DEFINE n == Announced(sent, torn, Len(split))
           u == UnLE(buf)
           x == SubSeq(buf, HeaderLen + 1, HeaderLen + u)
<1>2. /\ ~(Len(buf) < HeaderLen) /\ wire' = wire
      /\ \/ u > Cap /\ split' = split /\ bufFate' = "too_large"
         \/ /\ ~(u > Cap) /\ ~(Len(buf) < HeaderLen + u)
            /\ \/ Decodes(x) /\ split' = Append(split, x) /\ buf' = Drop(buf, HeaderLen + u)
                             /\ bufFate' = bufFate
               \/ ~Decodes(x) /\ split' = split /\ bufFate' = "decode"
  BY SplitFrameIs DEF Decode, GiveUp
<1>3. n = Announced(sent, torn, Len(split)) /\ u = UnLE(buf)
      /\ x = SubSeq(buf, HeaderLen + 1, HeaderLen + u)
  OBVIOUS
<1> HIDE DEF n, u, x
<1>4. HeaderFor(buf, n)
  BY <1>1, <1>2, <1>3, FollowsHeader
<1>5. n \in Nat /\ (n < Width => u = n)
  BY <1>3, <1>4 DEF HeaderFor
<1>6. CASE n >= Width
  <2>1. Done(split, "none")
    BY <1>1, <1>2, <1>3, <1>6, BadHeader
  <2>2. split' = split \/ (x \in Bodies /\ split' = Append(split, x))
    BY <1>2, DecodesBody
  <2> QED BY <1>1, <2>1, <2>2, DoneGoesOn
<1>7. CASE n < Width /\ n > Cap
  <2>1. u > Cap
    BY <1>1, <1>5, <1>7
  <2>2. split' = split /\ bufFate' = "too_large"
    BY <1>2, <2>1
  <2> QED BY <1>1, <1>2, <1>3, <1>7, <2>2, BadHeader
<1>8. CASE n < Width /\ ~(n > Cap)
  <2>1. u = n /\ ~(u > Cap)
    BY <1>5, <1>8
  <2>2. HeaderLen + n <= Len(buf) /\ n <= Cap /\ x = SubSeq(buf, HeaderLen + 1, HeaderLen + n)
    <3>1. ~(Len(buf) < HeaderLen + n)
      BY <1>2, <2>1
    <3>2. x = SubSeq(buf, HeaderLen + 1, HeaderLen + n)
      BY <1>3, <2>1
    <3> QED BY <1>1, <1>5, <1>8, <3>1, <3>2
  <2>3. CASE Decodes(x)
    <3>1. split' = Append(split, x) /\ buf' = Drop(buf, HeaderLen + n) /\ bufFate' = "none"
      BY <1>2, <2>1, <2>3
    <3>2. Follows(sent, torn, ended, Append(split, x), Drop(buf, HeaderLen + n) \o wire)
      BY <1>1, <1>3, <1>5, <1>8, <2>2, <2>3, GoodBody
    <3> QED BY <1>2, <3>1, <3>2
  <2>4. CASE ~Decodes(x)
    <3>1. split' = split /\ bufFate' = "decode"
      BY <1>2, <2>1, <2>4
    <3>2. Done(split, "decode")
      BY <1>1, <1>3, <1>5, <2>2, <2>4, BadBody
    <3> QED BY <3>1, <3>2
  <2> QED BY <2>3, <2>4
<1>9. n >= Width \/ (n < Width /\ n > Cap) \/ (n < Width /\ ~(n > Cap))
  BY <1>1, <1>5
<1> QED BY <1>6, <1>7, <1>8, <1>9

\* What a step can do to what the reader passed on.
LEMMA ReaderMoves ==
  ASSUME TypeOK, [Next]_vars
  PROVE  \/ read' = read /\ fate' = fate
         \/ fate = "none" /\ (read' = read \/ \E x \in Bodies : read' = Append(read, x))
<1>1. ASSUME NEW b \in Bodies, Send(b) \/ Tear(b) PROVE read' = read /\ fate' = fate
  BY <1>1 DEF Send, Tear, readerVars
<1>2. ASSUME NEW k, Arrive(k) PROVE read' = read /\ fate' = fate
  BY <1>2 DEF Arrive, readerVars
<1>3. CASE Decode
  BY <1>3 DEF Decode, readerVars
<1>4. CASE ReadHeader \/ ReadErr
  BY <1>4 DEF ReadHeader, ReadErr
<1>5. CASE ReadBody
  BY <1>5, DecodesBody DEF ReadBody
<1>6. CASE UNCHANGED vars
  BY <1>6 DEF vars, readerVars
<1> QED BY <1>1, <1>2, <1>3, <1>4, <1>5, <1>6 DEF Next, Reader

\* What a step can do to what the program decoded.
LEMMA BufferMoves ==
  ASSUME TypeOK, [Next]_vars
  PROVE  \/ split' = split /\ bufFate' = bufFate
         \/ bufFate = "none" /\ (split' = split \/ \E x \in Bodies : split' = Append(split, x))
<1>1. ASSUME NEW b \in Bodies, Send(b) \/ Tear(b) PROVE split' = split /\ bufFate' = bufFate
  BY <1>1 DEF Send, Tear, bufVars
<1>2. ASSUME NEW k, Arrive(k) PROVE split' = split /\ bufFate' = bufFate
  BY <1>2 DEF Arrive, bufVars
<1>3. CASE Decode
  BY <1>3, DecodesBody DEF Decode, GiveUp
<1>4. CASE Reader
  BY <1>4 DEF Reader, ReadHeader, ReadBody, ReadErr, bufVars
<1>5. CASE UNCHANGED vars
  BY <1>5 DEF vars, bufVars
<1> QED BY <1>1, <1>2, <1>3, <1>4, <1>5 DEF Next

LEMMA DoneReader ==
  ASSUME TypeOK, TypeOK', [Next]_vars, Done(read', fate')
  PROVE  Done(read, fate)'
BY DoneStays DEF Done

LEMMA DoneBuffer ==
  ASSUME TypeOK, TypeOK', [Next]_vars, Done(split', bufFate')
  PROVE  Done(split, bufFate)'
BY DoneStays DEF Done

\* Every step keeps the reader's invariant.
LEMMA ReaderStep ==
  ASSUME TypeOK, TypeOK', [Next]_vars, ReaderInv
  PROVE  ReaderInv'
<1>1. CASE Done(read, fate)
  <2>1. Done(read', fate')
    BY <1>1, ReaderMoves, DoneGoesOn DEF TypeOK
  <2> QED BY <2>1, DoneReader DEF ReaderInv
<1>2. CASE /\ fate = "none" /\ Follows(sent, torn, ended, read, Held \o wire)
           /\ need # NoHeader => need = Announced(sent, torn, Len(read)) /\ need <= Cap
  <2>1. /\ sock \in Bytes /\ wire \in Bytes /\ Held \in Bytes /\ read \in Seq(Bodies)
    BY HeldIs DEF TypeOK
  <2>2. Held \o wire \in Bytes
    BY <2>1, ConcatIs
  <2>3. ASSUME NEW b \in Bodies, Send(b) \/ Tear(b) PROVE ReaderInv'
    <3>1. PICK T \in Bytes : /\ Follows(sent', torn', ended', read, (Held \o wire) \o T)
                             /\ wire' = wire \o T
      <4>1. EncodeFrame(b) \in Bytes
        BY BodyIsBytes, FrameIs
      <4> QED BY <1>2, <2>1, <2>2, <2>3, <4>1, FollowsStep
    <3>2. need # NoHeader => need = Announced(sent', torn', Len(read))
      BY <1>2, <2>1, <2>2, <2>3, FollowsStep
    <3>3. /\ sock' = sock /\ need' = need /\ read' = read /\ fate' = fate
      BY <2>3 DEF Send, Tear, readerVars
    <3>4. Held' = Held
      BY <3>3 DEF Held
    <3>5. Held \o (wire \o T) = (Held \o wire) \o T
      <4> DEFINE h == Held
      <4>1. h \in Bytes /\ wire \in Bytes /\ T \in Bytes
        BY <2>1
      <4> HIDE DEF h
      <4>2. h \o (wire \o T) = (h \o wire) \o T
        BY <4>1, Joined
      <4> QED BY <4>2 DEF h
    <3> QED BY <1>2, <3>1, <3>2, <3>3, <3>4, <3>5 DEF ReaderInv
  <2>4. ASSUME NEW k \in 1..Len(wire), Arrive(k) PROVE ReaderInv'
    <3>1. /\ sock' = sock \o SubSeq(wire, 1, k) /\ wire' = Drop(wire, k)
          /\ need' = need /\ read' = read /\ fate' = fate
          /\ sent' = sent /\ torn' = torn /\ ended' = ended
      BY <1>2, <2>4 DEF Arrive, readerVars, sendVars
    <3>2. Held' = Held \o SubSeq(wire, 1, k)
      <4>1. CASE need = NoHeader
        BY <3>1, <4>1 DEF Held
      <4>2. CASE need # NoHeader
        <5>1. SubSeq(wire, 1, k) \in Bytes
          BY <2>1, BytesAre, TakeIs
        <5>2. LE(need) \in Bytes
          BY <4>2, HeldIs
        <5>3. LE(need) \o (sock \o SubSeq(wire, 1, k)) = (LE(need) \o sock) \o SubSeq(wire, 1, k)
          <6> DEFINE h == LE(need)
                     c == SubSeq(wire, 1, k)
          <6>1. h \in Bytes /\ sock \in Bytes /\ c \in Bytes
            BY <2>1, <5>1, <5>2
          <6> HIDE DEF h, c
          <6>2. h \o (sock \o c) = (h \o sock) \o c
            BY <6>1, Joined
          <6> QED BY <6>2 DEF h, c
        <5> QED BY <3>1, <4>2, <5>3 DEF Held
      <4> QED BY <4>1, <4>2
    <3>3. Held' \o wire' = Held \o wire
      BY <2>1, <3>1, <3>2, Arrives
    <3> QED BY <1>2, <3>1, <3>3 DEF ReaderInv
  <2>5. ASSUME ReadHeader PROVE ReaderInv'
    <3>1. need = NoHeader /\ read' = read /\ sent' = sent /\ torn' = torn /\ ended' = ended
      BY <2>5 DEF ReadHeader, sendVars
    <3>2. CASE Done(read, fate')
      BY <3>1, <3>2, DoneReader DEF ReaderInv
    <3>3. CASE /\ fate' = "none" /\ Held' \o wire' = Held \o wire
               /\ need' = Announced(sent, torn, Len(read)) /\ need' <= Cap
      BY <1>2, <3>1, <3>3 DEF ReaderInv
    <3> QED BY <1>2, <2>5, <3>1, <3>2, <3>3, ReaderHeaderStep
  <2>6. ASSUME ReadBody PROVE ReaderInv'
    <3>1. need # NoHeader /\ sent' = sent /\ torn' = torn /\ ended' = ended
      BY <2>6 DEF ReadBody, sendVars
    <3>2. CASE read' = read /\ Done(read, fate')
      BY <3>2, DoneReader DEF ReaderInv
    <3>3. CASE /\ fate' = "none" /\ need' = NoHeader
               /\ Follows(sent, torn, ended, read', Held' \o wire')
      BY <3>1, <3>3 DEF ReaderInv
    <3> QED BY <1>2, <2>6, <3>1, <3>2, <3>3, ReaderBodyStep
  <2>7. ASSUME ReadErr PROVE ReaderInv'
    <3>1. read' = read /\ fate' = "lost"
      BY <2>7 DEF ReadErr
    <3>2. Done(read, "lost")
      BY <1>2, <2>7, ReaderEndStep
    <3> QED BY <3>1, <3>2, DoneReader DEF ReaderInv
  <2>8. ASSUME Decode \/ UNCHANGED vars PROVE ReaderInv'
    <3>1. /\ sock' = sock /\ wire' = wire /\ need' = need /\ read' = read /\ fate' = fate
          /\ sent' = sent /\ torn' = torn /\ ended' = ended
      BY <2>8 DEF Decode, vars, readerVars, sendVars
    <3>2. Held' = Held
      BY <3>1 DEF Held
    <3> QED BY <1>2, <3>1, <3>2 DEF ReaderInv
  <2> QED BY <2>3, <2>4, <2>5, <2>6, <2>7, <2>8 DEF Next, Reader
<1> QED BY <1>1, <1>2 DEF ReaderInv

\* Every step keeps the buffer's invariant.
LEMMA BufferStep ==
  ASSUME TypeOK, TypeOK', [Next]_vars, BufferInv
  PROVE  BufferInv'
<1>1. CASE Done(split, bufFate)
  <2>1. Done(split', bufFate')
    BY <1>1, BufferMoves, DoneGoesOn DEF TypeOK
  <2> QED BY <2>1, DoneBuffer DEF BufferInv
<1>2. CASE bufFate = "none" /\ Follows(sent, torn, ended, split, buf \o wire)
  <2>1. /\ buf \in Bytes /\ wire \in Bytes /\ split \in Seq(Bodies)
    BY HeldIs DEF TypeOK
  <2>2. buf \o wire \in Bytes
    BY <2>1, ConcatIs
  <2>3. ASSUME NEW b \in Bodies, Send(b) \/ Tear(b) PROVE BufferInv'
    <3>1. PICK T \in Bytes : /\ Follows(sent', torn', ended', split, (buf \o wire) \o T)
                             /\ wire' = wire \o T
      <4>1. EncodeFrame(b) \in Bytes
        BY BodyIsBytes, FrameIs
      <4> QED BY <1>2, <2>1, <2>2, <2>3, <4>1, FollowsStep
    <3>2. buf' = buf /\ split' = split /\ bufFate' = bufFate
      BY <2>3 DEF Send, Tear, bufVars
    <3>3. buf \o (wire \o T) = (buf \o wire) \o T
      BY <2>1, Joined
    <3> QED BY <1>2, <3>1, <3>2, <3>3 DEF BufferInv
  <2>4. ASSUME NEW k \in 1..Len(wire), Arrive(k) PROVE BufferInv'
    <3>1. /\ buf' = buf \o SubSeq(wire, 1, k) /\ wire' = Drop(wire, k)
          /\ split' = split /\ bufFate' = bufFate
          /\ sent' = sent /\ torn' = torn /\ ended' = ended
      BY <1>2, <2>4 DEF Arrive, bufVars, sendVars
    <3>2. buf' \o wire' = buf \o wire
      BY <2>1, <3>1, Arrives
    <3> QED BY <1>2, <3>1, <3>2 DEF BufferInv
  <2>5. ASSUME Decode PROVE BufferInv'
    <3>1. sent' = sent /\ torn' = torn /\ ended' = ended
      BY <2>5 DEF Decode, sendVars
    <3>2. CASE Done(split', bufFate')
      BY <3>2, DoneBuffer DEF BufferInv
    <3>3. CASE bufFate' = "none" /\ Follows(sent, torn, ended, split', buf' \o wire')
      BY <3>1, <3>3 DEF BufferInv
    <3> QED BY <1>2, <2>5, <3>2, <3>3, BufferStepDecode
  <2>6. ASSUME Reader \/ UNCHANGED vars PROVE BufferInv'
    <3>1. /\ buf' = buf /\ wire' = wire /\ split' = split /\ bufFate' = bufFate
          /\ sent' = sent /\ torn' = torn /\ ended' = ended
      BY <2>6 DEF Reader, ReadHeader, ReadBody, ReadErr, vars, bufVars, sendVars
    <3> QED BY <1>2, <3>1 DEF BufferInv
  <2> QED BY <2>3, <2>4, <2>5, <2>6 DEF Next
<1> QED BY <1>1, <1>2 DEF BufferInv

\* The inductive invariant: a receiver is in step with the stream or done with it.
IInv == TypeOK /\ ReaderInv /\ BufferInv

LEMMA InitFollows ==
  ASSUME Init
  PROVE  ReaderInv /\ BufferInv
<1>1. Follows(<<>>, NoHeader, FALSE, <<>>, <<>>)
  <2> DEFINE p == [j \in 0..0 |-> 0]
  <2>1. Layout(<<>>, NoHeader, FALSE, <<>>, 0, p)
    BY FramingAssumption DEF Layout
  <2>2. p \in [0..Len(<<>>) -> 0..Len(<<>>)]
    OBVIOUS
  <2>3. StreamOf(<<>>, NoHeader, FALSE, <<>>, 0)
    BY <2>1, <2>2 DEF StreamOf
  <2> DEFINE z == <<>>
  <2>4. Len(z) = 0 /\ z = SubSeq(z, 1, 0) /\ StreamOf(z, NoHeader, FALSE, z, 0)
    <3>1. Len(z) = 0
      OBVIOUS
    <3>2. SubSeq(z, 1, 0) = <<>>
      BY SubSeqEmpty
    <3> QED BY <2>3, <3>1, <3>2
  <2> HIDE DEF z
  <2>5. Len(z) <= Len(z) /\ z = SubSeq(z, 1, Len(z)) /\ \A j \in 1..Len(z) : ~Refused(z[j])
    BY <2>4
  <2>6. Follows(z, NoHeader, FALSE, z, z)
    BY <2>4, <2>5 DEF Follows
  <2> QED BY <2>6 DEF z
<1>2. Held \o wire = <<>> /\ buf \o wire = <<>>
  BY DEF Init, Held
<1> QED BY <1>1, <1>2 DEF Init, ReaderInv, BufferInv

LEMMA IInvHolds == Spec => []IInv
<1>1. Init => ReaderInv /\ BufferInv
  BY InitFollows
<1>2. TypeOK /\ TypeOK' /\ [Next]_vars /\ ReaderInv /\ BufferInv => ReaderInv' /\ BufferInv'
  BY ReaderStep, BufferStep
<1> QED BY <1>1, <1>2, TypeCorrect, PTL DEF Spec, IInv

LEMMA IInvIsRight == IInv => FramesSurvive /\ SplitsAlike
<1> SUFFICES ASSUME IInv PROVE FramesSurvive /\ SplitsAlike
  OBVIOUS
<1>1. sent \in Seq(Bodies) /\ read \in Seq(Bodies) /\ split \in Seq(Bodies)
  BY DEF IInv, TypeOK
<1>2. FramesSurvive
  BY <1>1, InvIsRight DEF IInv, ReaderInv, FramesSurvive
<1>3. SplitsAlike
  BY <1>1, InvIsRight DEF IInv, BufferInv, SplitsAlike
<1> QED BY <1>2, <1>3

\* client.go:431-459 (WIRE-020 to 023): for any base and length of the prefix, any cap, any
\* bodies and any way the stream is cut into pieces or breaks off, the reader passes on what
\* was sent, in order and whole, up to the first bad body, and dies of that one's own fault.
THEOREM ReaderInOrder == Spec => []FramesSurvive
BY IInvHolds, IInvIsRight, PTL

\* frame.go:66-113 (WIRE-022): so does a program that tries DecodeRequest or DecodeResponse
\* on a growing buffer whenever it likes; it consumes exactly one frame at a time.
THEOREM BufferInOrder == Spec => []SplitsAlike
BY IInvHolds, IInvIsRight, PTL
=============================================================================
