------------------------------- MODULE MsgPack -------------------------------
(***************************************************************************)
(* External: vmihailenco/msgpack v5 as wire/codec.go uses it.              *)
(*                                                                         *)
(* A body is a sequence of tokens, one for a header or scalar and what it  *)
(* carries: <<"int", n>> in whichever width, <<"bool", b>>, <<"nil">>,     *)
(* <<"f64", x>>, <<"f32", x>>, <<"str", s>>, <<"bin", s>>, <<"arr", n>>    *)
(* and <<"map", n>> followed by the tokens of their elements, and <<"bad">>*)
(* for 0xc1, a code that means nothing: no reader takes it, nor does Skip. *)
(* (An extension, which Skip would pass over, is left out.)  Text and      *)
(* bytes are sequences of symbols: a symbol is one byte or a word of the   *)
(* protocol.  A float is the name of its bits, that of an integer being    *)
(* its numeral.                                                            *)
(*                                                                         *)
(* A reader stands at a position and gives a value and the position behind *)
(* it, or fails at the position that defeated it, which is behind the body *)
(* if the body ends too soon.                                              *)
(***************************************************************************)
EXTENDS Integers, Sequences, SequencesExt

CONSTANT MaxInt    \* greatest i64

ASSUME MsgPackAssumption == MaxInt \in Nat

Width  == 2 * (MaxInt + 1)     \* integers of a token: -MaxInt-1 .. Width-1
Byte(u) == ToString(u)         \* the symbol of the byte u
Word(w) == <<w>>               \* a word of the protocol, as a text

\* A nil []byte, which is not the empty one.
NoBytes == <<"(no bytes)">>

Ok(v, p) == [ok |-> TRUE, v |-> v, at |-> p]
Fail(p)  == [ok |-> FALSE, at |-> p]

\* "if err != nil return" between two reads.
Then(r, K(_, _)) == IF r.ok THEN K(r.v, r.at) ELSE r
As(r, F(_))      == IF r.ok THEN Ok(F(r.v), r.at) ELSE r

\* PeekCode.
Code(b, p) == IF p > Len(b) THEN "end" ELSE b[p][1]

\* Where the library finds nil it gives the zero value.
Scalar(b, p, codes, F(_), zero) ==
  CASE Code(b, p) \in codes -> Ok(F(b[p][2]), p + 1)
    [] Code(b, p) = "nil"   -> Ok(zero, p + 1)
    [] OTHER                -> Fail(p)

Same(x) == x

\* An unsigned token over the greatest i64 comes out negative, and a negative
\* one read as unsigned comes out large.
DecodeInt64(b, p)  == Scalar(b, p, {"int"},
                             LAMBDA n : IF n > MaxInt THEN n - Width ELSE n, 0)
DecodeUint64(b, p) == Scalar(b, p, {"int"},
                             LAMBDA n : IF n < 0 THEN n + Width ELSE n, 0)
DecodeBool(b, p)   == Scalar(b, p, {"bool"}, Same, FALSE)
DecodeString(b, p) == Scalar(b, p, {"str", "bin"}, Same, <<>>)
DecodeBytes(b, p)  == Scalar(b, p, {"str", "bin"}, Same, NoBytes)

\* float64(i), exact up to 2^53.
Widened(i) == ToString(i)
DecodeFloat64(b, p) == IF Code(b, p) \in {"int", "nil"} THEN As(DecodeInt64(b, p), Widened)
                       ELSE Scalar(b, p, {"f64", "f32"}, Same, "0")

\* DecodeArrayLen, DecodeMapLen, after the code has been looked at.
DecodeLen(b, p) == Ok(b[p][2], p + 1)

\* The next n objects, with all they contain.
RECURSIVE SkipAll(_, _, _)
SkipAll(b, p, n) ==
  IF n = 0 THEN Ok(<<>>, p)
  ELSE CASE Code(b, p) \in {"end", "bad"} -> Fail(p)
         [] Code(b, p) = "arr" -> SkipAll(b, p + 1, n - 1 + b[p][2])
         [] Code(b, p) = "map" -> SkipAll(b, p + 1, n - 1 + 2 * b[p][2])
         [] OTHER              -> SkipAll(b, p + 1, n - 1)

Skip(b, p) == SkipAll(b, p, 1)

EncodeBytes(s) == IF s = NoBytes THEN <<"nil">> ELSE <<"bin", s>>
==============================================================================
