------------------------------ MODULE Framing ------------------------------
(***************************************************************************)
(* wire/frame.go and the reading half of readerLoop (client/client.go):    *)
(* bodies are framed with a little-endian length, travel as a byte stream  *)
(* that arrives in pieces of any size, and are cut out of it again by two  *)
(* receivers: the blocking reader of the client, and a program that keeps  *)
(* a buffer and tries DecodeRequest or DecodeResponse on it (TrySplitFrame)*)
(* whenever it likes.  Both see the same stream here.                      *)
(*                                                                         *)
(* A byte is a digit below Base (256 in the code) and the length prefix    *)
(* has HeaderLen of them (4), so that the whole range of lengths, the cap  *)
(* and lengths the prefix cannot hold fit into a small instance.           *)
(***************************************************************************)
EXTENDS Integers, Sequences, SequencesExt

CONSTANTS Base,        \* values of a byte
          HeaderLen,   \* bytes of the length prefix
          Cap,         \* Config.MaxFrameBytes, the max of TrySplitFrame
          Bodies,      \* bodies that may be sent
          Undecodable, \* those that are not a request or a response
          MaxSent      \* bound: frames sent

ASSUME FramingAssumption ==
         /\ Base \in Nat /\ Base > 1
         /\ HeaderLen \in Nat \ {0}
         /\ Cap \in Int
         /\ Bodies \subseteq Seq(0..(Base - 1))
         /\ Undecodable \subseteq Bodies
         /\ MaxSent \in Nat

VARIABLES sent,     \* bodies given to EncodeFrame and written, in order
          wire,     \* bytes on their way
          ended,    \* the sender's end of the stream is closed
          torn,     \* length of the body of a frame that was cut off, or NoHeader
          sock,     \* bytes the reader has not consumed
          need,     \* length of the body the reader waits for, or NoHeader
          read,     \* bodies the reader passed on
          fate,     \* why the reader stopped
          buf,      \* bytes in the program's buffer
          split,    \* bodies the program decoded
          bufFate   \* why it gave up

readerVars == <<need, read, fate>>
sendVars   == <<sent, ended, torn>>
bufVars    == <<split, bufFate>>
vars == <<sendVars, wire, sock, readerVars, buf, bufVars>>

\* What a digit is worth after i others, and what the prefix cannot say any more.
Weight[i \in 0..HeaderLen] == IF i = 0 THEN 1 ELSE Base * Weight[i - 1]
Width == Weight[HeaderLen]

NoHeader == -1
Drop(s, n) == SubSeq(s, n + 1, Len(s))

\* binary.LittleEndian: PutUint32 of uint32(n), which is n modulo Width, and Uint32.
LE(n) == [i \in 1..HeaderLen |-> (n \div Weight[i - 1]) % Base]
UnLE(h) == LET value[i \in 0..HeaderLen] ==
                 IF i = 0 THEN 0 ELSE value[i - 1] + h[i] * Weight[i - 1]
           IN  value[HeaderLen]

EncodeFrame(body) == LE(Len(body)) \o body

\* DecodeRequestBody, DecodeResponseBody: any other bytes are an error.
Decodes(body) == body \in Bodies \ Undecodable

More     == [kind |-> "more"]
TooLarge == [kind |-> "too_large"]

\* Fault: the prefix is not counted in what was consumed (SplitsAlike fails).
TrySplitFrameShort(b) ==
  LET length == UnLE(b)
      total  == HeaderLen + length
  IN  IF Len(b) < HeaderLen THEN More
      ELSE IF length > Cap THEN TooLarge
      ELSE IF Len(b) < total THEN More
      ELSE [kind |-> "ok", body |-> SubSeq(b, HeaderLen + 1, total), consumed |-> length]

\* Fault: one byte too many is waited for (AllArrive fails).
TrySplitFrameGreedy(b) ==
  LET length == UnLE(b)
      total  == HeaderLen + length
  IN  IF Len(b) < HeaderLen THEN More
      ELSE IF length > Cap THEN TooLarge
      ELSE IF Len(b) <= total THEN More
      ELSE [kind |-> "ok", body |-> SubSeq(b, HeaderLen + 1, total), consumed |-> total]

\* Too few bytes for the prefix, a length over the cap, too few for the body,
\* or one frame.
TrySplitFrame(b) ==
  LET length == UnLE(b)
      total  == HeaderLen + length
  IN  IF Len(b) < HeaderLen THEN More
      ELSE IF length > Cap THEN TooLarge
      ELSE IF Len(b) < total THEN More
      ELSE [kind |-> "ok", body |-> SubSeq(b, HeaderLen + 1, total), consumed |-> total]

Init == /\ sent = <<>> /\ wire = <<>> /\ ended = FALSE /\ torn = NoHeader
        /\ sock = <<>> /\ need = NoHeader /\ read = <<>> /\ fate = "none"
        /\ buf = <<>> /\ split = <<>> /\ bufFate = "none"
-----------------------------------------------------------------------------
(* The sender and the stream *)

Send(b) == /\ ~ended /\ Len(sent) < MaxSent
           /\ sent' = Append(sent, b)
           /\ wire' = wire \o EncodeFrame(b)
           /\ UNCHANGED <<ended, torn, sock, readerVars, buf, bufVars>>

\* A write that fails half-way cuts its frame off, and the stream ends there.
Tear(b) == /\ ~ended
           /\ \E k \in 0..(Len(EncodeFrame(b)) - 1) :
                /\ wire' = wire \o SubSeq(EncodeFrame(b), 1, k)
                /\ torn' = IF k < HeaderLen THEN NoHeader ELSE Len(b)
           /\ ended' = TRUE
           /\ UNCHANGED <<sent, sock, readerVars, buf, bufVars>>

\* A receiver that has given up takes nothing more.
Arrive(k) == /\ sock' = IF fate = "none" THEN sock \o SubSeq(wire, 1, k) ELSE sock
             /\ buf' = IF bufFate = "none" THEN buf \o SubSeq(wire, 1, k) ELSE buf
             /\ wire' = Drop(wire, k)
             /\ UNCHANGED <<sendVars, readerVars, bufVars>>
-----------------------------------------------------------------------------
(* readerLoop: io.ReadFull returns once it has all it was asked for *)

\* ReadFull of n bytes.
Consume(n) == Len(sock) >= n /\ sock' = Drop(sock, n)

\* Fault: the cap is compared with <, not <= (FramesSurvive fails).
ReadHeaderStrict == /\ fate = "none" /\ need = NoHeader
                    /\ Consume(HeaderLen)
                    /\ IF UnLE(sock) >= Cap
                         THEN fate' = "too_large" /\ UNCHANGED need
                         ELSE need' = UnLE(sock) /\ UNCHANGED fate
                    /\ UNCHANGED <<sendVars, wire, read, buf, bufVars>>

\* Fault: the cap is left to whoever decodes the body (TypeOK fails).
ReadHeaderUncapped == /\ fate = "none" /\ need = NoHeader
                      /\ Consume(HeaderLen)
                      /\ need' = UnLE(sock)
                      /\ UNCHANGED <<sendVars, wire, read, fate, buf, bufVars>>

\* The cap is looked at before the body is read.
ReadHeader == /\ fate = "none" /\ need = NoHeader
              /\ Consume(HeaderLen)
              /\ IF UnLE(sock) > Cap
                   THEN fate' = "too_large" /\ UNCHANGED need
                   ELSE need' = UnLE(sock) /\ UNCHANGED fate
              /\ UNCHANGED <<sendVars, wire, read, buf, bufVars>>

ReadBody == /\ fate = "none" /\ need # NoHeader
            /\ Consume(need)
            /\ LET body == SubSeq(sock, 1, need)
               IN IF Decodes(body)
                    THEN read' = Append(read, body) /\ need' = NoHeader /\ UNCHANGED fate
                    ELSE fate' = "decode" /\ UNCHANGED <<read, need>>
            /\ UNCHANGED <<sendVars, wire, buf, bufVars>>

\* The stream ends before ReadFull has all it was asked for.
ReadErr == /\ fate = "none" /\ ended /\ wire = <<>>
           /\ Len(sock) < IF need = NoHeader THEN HeaderLen ELSE need
           /\ fate' = "lost"
           /\ UNCHANGED <<sendVars, wire, sock, need, read, buf, bufVars>>
-----------------------------------------------------------------------------
(* DecodeRequest, DecodeResponse: an error consumes nothing *)

GiveUp(e) == bufFate' = e /\ UNCHANGED <<buf, split>>

Decode == /\ bufFate = "none"
          /\ LET f == TrySplitFrame(buf)
             IN \/ f = TooLarge /\ GiveUp("too_large")
                \/ /\ f.kind = "ok"
                   /\ IF Decodes(f.body)
                        THEN /\ split' = Append(split, f.body)
                             /\ buf' = Drop(buf, f.consumed)
                             /\ UNCHANGED bufFate
                        ELSE GiveUp("decode")
          /\ UNCHANGED <<sendVars, wire, sock, readerVars>>
-----------------------------------------------------------------------------
Reader == ReadHeader \/ ReadBody \/ ReadErr

Next == \/ \E b \in Bodies : Send(b) \/ Tear(b)
        \/ \E k \in 1..Len(wire) : Arrive(k)
        \/ Reader \/ Decode

Spec == Init /\ [][Next]_vars

\* What is on its way arrives, in whatever pieces, and the receivers run.
Fairness == WF_vars(\E k \in 1..Len(wire) : Arrive(k)) /\ WF_vars(Reader) /\ WF_vars(Decode)

FairSpec == Spec /\ Fairness
-----------------------------------------------------------------------------
Fates == {"none", "too_large", "decode", "lost"}
Bytes == Seq(0..(Base - 1))

\* Every variable stays in its type, and the reader never makes room and waits for a body
\* that the prefix cannot announce or the cap forbids (WIRE-020, client.go:440-450).
TypeOK == /\ sent \in Seq(Bodies) /\ read \in Seq(Bodies) /\ split \in Seq(Bodies)
          /\ wire \in Bytes /\ sock \in Bytes /\ buf \in Bytes
          /\ ended \in BOOLEAN
          /\ torn \in {NoHeader} \cup {Len(b) : b \in Bodies}
          /\ need \in NoHeader..(Width - 1) /\ (need # NoHeader => need <= Cap)
          /\ fate \in Fates /\ bufFate \in Fates \ {"lost"}

\* What a receiver should make of what was sent, had it come in one piece: every
\* body before the first that is too large or does not decode, and its fault.
Refused(b) == Len(b) > Cap \/ Len(b) >= Width \/ b \in Undecodable
FirstRefused == SelectInSeq(sent, Refused)
Expected == IF FirstRefused = 0 THEN sent ELSE SubSeq(sent, 1, FirstRefused - 1)
Fault    == IF FirstRefused # 0
              THEN IF Len(sent[FirstRefused]) > Cap THEN "too_large" ELSE "decode"
              ELSE IF torn # NoHeader /\ torn > Cap THEN "too_large" ELSE "lost"

\* The stream is in step unless what ends the expected bodies is a body whose length
\* the prefix cannot say: its bytes are then taken for frames.
InStep == (IF FirstRefused = 0 THEN torn ELSE Len(sent[FirstRefused])) < Width

\* A receiver got the bodies bs and stopped for the reason f, or goes on.
ReceivedRight(bs, f) == /\ IF InStep THEN IsPrefix(bs, Expected)
                                     ELSE IsPrefix(bs, Expected) \/ IsPrefix(Expected, bs)
                        /\ f # "none" => IsPrefix(Expected, bs)
                        /\ f # "none" /\ InStep => f = Fault

\* WIRE-020 to 023 on the client's side: however the stream is cut into pieces and
\* wherever it breaks off, the reader passes on the bodies that were sent, in
\* order, whole, up to the first bad one, and dies of that one's own fault; an
\* announced length over the cap is refused even if the body never comes.  A body too
\* long for the prefix (frame.go:56) does no harm to those before it.
FramesSurvive == ReceivedRight(read, fate)

\* WIRE-022: trying again on a growing buffer gives the same frames and the same
\* refusals as the blocking reader, and consumes exactly one frame at a time.
SplitsAlike == ReceivedRight(split, bufFate)

\* Every good frame that was written reaches both receivers, the last one too.
AllArrive == \A n \in 1..MaxSent :
               Len(Expected) >= n ~> Len(read) >= n /\ Len(split) >= n
=============================================================================
