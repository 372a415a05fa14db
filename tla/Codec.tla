-------------------------------- MODULE Codec --------------------------------
(***************************************************************************)
(* wire/codec.go: bodies of requests and responses, to and from tokens,    *)
(* next to a definition of every form in which a message may be written.   *)
(* All errors of the decoders are of one class.                            *)
(***************************************************************************)
EXTENDS Value

CONSTANTS MaxID,    \* greatest u32
          MaxByte   \* greatest byte

ASSUME CodecAssumption == /\ MaxID \in Nat /\ MaxByte \in Nat
                          /\ MaxByte <= MaxID /\ MaxID < MaxInt

Request(id, command, args) == [id |-> id, command |-> command, args |-> args]
ResponseOK(id, v)          == [id |-> id, isErr |-> FALSE, ok |-> v, err |-> <<>>]
ResponseErr(id, message)   == [id |-> id, isErr |-> TRUE, ok |-> Null, err |-> message]

-----------------------------------------------------------------------------
(* Encoding *)

Tag(name) == <<<<"map", 1>>, <<"str", Word(name)>>>>

\* Null is a bare string, every other kind a map of its name to its payload.
RECURSIVE EncodeValue(_)
EncodeValue(v) ==
  CASE v[1] = "Null"  -> <<<<"str", Word("Null")>>>>
    [] v[1] = "Array" -> Tag("Array") \o <<<<"arr", Len(v[2])>>>>
                         \o FlattenSeq([i \in DOMAIN v[2] |-> EncodeValue(v[2][i])])
    [] v[1] = "Map"   -> Tag("Map") \o <<<<"arr", Len(v[2])>>>>
                         \o FlattenSeq([i \in DOMAIN v[2] |->
                              <<<<"arr", 2>>>> \o EncodeValue(v[2][i][1])
                                               \o EncodeValue(v[2][i][2])])
    [] v[1] = "Bytes" -> Tag("Bytes") \o <<EncodeBytes(v[2])>>
    [] v[1] = "Bool"  -> Tag("Bool") \o <<<<"bool", v[2]>>>>
    [] v[1] = "Int"   -> Tag("Int") \o <<<<"int", v[2]>>>>
    [] v[1] = "Float" -> Tag("Float") \o <<<<"f64", v[2]>>>>
    [] v[1] = "Str"   -> Tag("Str") \o <<<<"str", v[2]>>>>

EncodeValues(vs) == FlattenSeq([i \in DOMAIN vs |-> EncodeValue(vs[i])])

EncodeRequest(r) == <<<<"arr", 3>>, <<"int", r.id>>, <<"str", r.command>>,
                      <<"arr", Len(r.args)>>>> \o EncodeValues(r.args)

EncodeResponse(r) == <<<<"arr", 2>>, <<"int", r.id>>, <<"map", 1>>>>
                     \o IF r.isErr THEN <<<<"str", Word("Err")>>, <<"str", r.err>>>>
                                   ELSE <<<<"str", Word("Ok")>>>> \o EncodeValue(r.ok)
-----------------------------------------------------------------------------
(* Decoding *)

RECURSIVE DecodeValue(_, _)

RECURSIVE DecodeItems(_, _, _, _)
DecodeItems(b, p, n, out) ==
  IF n = 0 THEN Ok(out, p)
  ELSE Then(DecodeValue(b, p), LAMBDA v, q : DecodeItems(b, q, n - 1, Append(out, v)))

DecodeValueArray(b, p) ==
  IF Code(b, p) # "arr" THEN Fail(p)
  ELSE Then(DecodeLen(b, p), LAMBDA n, q : DecodeItems(b, q, n, <<>>))

RECURSIVE DecodePairs(_, _, _, _)
DecodePairs(b, p, n, out) ==
  IF n = 0 THEN Ok(out, p)
  ELSE IF Code(b, p) # "arr" THEN Fail(p)
  ELSE Then(DecodeLen(b, p), LAMBDA k, q :
         IF k # 2 THEN Fail(p)
         ELSE Then(DecodeValue(b, q), LAMBDA key, r :
                Then(DecodeValue(b, r), LAMBDA val, s :
                  DecodePairs(b, s, n - 1, Append(out, <<key, val>>)))))

DecodeMapValue(b, p) ==
  IF Code(b, p) # "arr" THEN Fail(p)
  ELSE As(Then(DecodeLen(b, p), LAMBDA n, q : DecodePairs(b, q, n, <<>>)), Map)

\* The legacy form of Bytes, an array of numbers.
RECURSIVE DecodeByteList(_, _, _, _)
DecodeByteList(b, p, n, out) ==
  IF n = 0 THEN Ok(out, p)
  ELSE Then(DecodeUint64(b, p), LAMBDA u, q :
         IF u > MaxByte THEN Fail(p)
         ELSE DecodeByteList(b, q, n - 1, Append(out, Byte(u))))

DecodeBytesTolerant(b, p) ==
  As(IF Code(b, p) = "arr"
       THEN Then(DecodeLen(b, p), LAMBDA n, q : DecodeByteList(b, q, n, <<>>))
       ELSE DecodeBytes(b, p),
     Bytes)

\* An integer payload of Float is widened.
DecodeTagged(b, p, name) ==
  CASE name = Word("Bool")  -> As(DecodeBool(b, p), Bool)
    [] name = Word("Int")   -> As(DecodeInt64(b, p), Int64)
    [] name = Word("Float") -> IF Code(b, p) = "int"
                                 THEN As(DecodeInt64(b, p), LAMBDA i : Float(Widened(i)))
                                 ELSE As(DecodeFloat64(b, p), Float)
    [] name = Word("Str")   -> As(DecodeString(b, p), Str)
    [] name = Word("Bytes") -> DecodeBytesTolerant(b, p)
    [] name = Word("Array") -> As(DecodeValueArray(b, p), Array)
    [] name = Word("Map")   -> DecodeMapValue(b, p)
    [] OTHER                -> Fail(p - 1)

\* Fault: a map of several keys is read up to its first (ResponsesRight fails).
DecodeValueFirstKey(b, p) ==
  CASE Code(b, p) = "str" -> IF b[p][2] = Word("Null") THEN Ok(Null, p + 1) ELSE Fail(p)
    [] Code(b, p) = "map" ->
         Then(DecodeLen(b, p), LAMBDA n, q :
           Then(DecodeString(b, q), LAMBDA name, r : DecodeTagged(b, r, name)))
    [] OTHER -> Fail(p)

DecodeValue(b, p) ==
  CASE Code(b, p) = "str" -> IF b[p][2] = Word("Null") THEN Ok(Null, p + 1) ELSE Fail(p)
    [] Code(b, p) = "map" ->
         Then(DecodeLen(b, p), LAMBDA n, q :
           IF n # 1 THEN Fail(p)
           ELSE Then(DecodeString(b, q), LAMBDA name, r : DecodeTagged(b, r, name)))
    [] OTHER -> Fail(p)

\* A u64 that fits into a u32.
DecodeFrameID(b, p) ==
  Then(DecodeUint64(b, p), LAMBDA u, q : IF u > MaxID THEN Fail(p) ELSE Ok(u, q))

Blank == [req |-> Request(0, <<>>, <<>>), have |-> {}]

\* A field read into what there is so far.
Put(got, f, x) == [req |-> [got.req EXCEPT ![f] = x], have |-> got.have \cup {f}]

\* Fault: the value of a key that is not known is left where it is
\* (RequestsRight fails).
DecodeFieldNoSkip(b, p, key, got) ==
  CASE key = Word("id")      -> As(DecodeFrameID(b, p), LAMBDA x : Put(got, "id", x))
    [] key = Word("command") -> As(DecodeString(b, p), LAMBDA x : Put(got, "command", x))
    [] key = Word("args")    -> As(DecodeValueArray(b, p), LAMBDA x : Put(got, "args", x))
    [] OTHER                 -> Ok(got, p)

\* The value behind a key of a map-shaped request; a later one replaces it.
DecodeField(b, p, key, got) ==
  CASE key = Word("id")      -> As(DecodeFrameID(b, p), LAMBDA x : Put(got, "id", x))
    [] key = Word("command") -> As(DecodeString(b, p), LAMBDA x : Put(got, "command", x))
    [] key = Word("args")    -> As(DecodeValueArray(b, p), LAMBDA x : Put(got, "args", x))
    [] OTHER                 -> As(Skip(b, p), LAMBDA x : got)

RECURSIVE DecodeFields(_, _, _, _)
DecodeFields(b, p, n, got) ==
  IF n = 0 THEN IF got.have = {"id", "command", "args"} THEN Ok(got.req, p) ELSE Fail(1)
  ELSE Then(DecodeString(b, p), LAMBDA key, q :
         Then(DecodeField(b, q, key, got), LAMBDA more, r : DecodeFields(b, r, n - 1, more)))

\* Array-shaped, or map-shaped as before Thunder.
DecodeRequestBody(b) ==
  CASE Code(b, 1) = "arr" ->
         Then(DecodeLen(b, 1), LAMBDA n, p :
           IF n # 3 THEN Fail(1)
           ELSE Then(DecodeFrameID(b, p), LAMBDA id, q :
                  Then(DecodeString(b, q), LAMBDA command, r :
                    As(DecodeValueArray(b, r), LAMBDA args : Request(id, command, args)))))
    [] Code(b, 1) = "map" -> Then(DecodeLen(b, 1), LAMBDA n, p : DecodeFields(b, p, n, Blank))
    [] OTHER -> Fail(1)

\* {"Ok": value} or {"Err": message}.
DecodeResult(b, p, id) ==
  IF Code(b, p) # "map" THEN Fail(p)
  ELSE Then(DecodeLen(b, p), LAMBDA n, q :
         IF n # 1 THEN Fail(p)
         ELSE Then(DecodeString(b, q), LAMBDA arm, r :
                CASE arm = Word("Ok")  -> As(DecodeValue(b, r), LAMBDA v : ResponseOK(id, v))
                  [] arm = Word("Err") -> As(DecodeString(b, r), LAMBDA m : ResponseErr(id, m))
                  [] OTHER             -> Fail(q)))

\* Only array-shaped.
DecodeResponseBody(b) ==
  IF Code(b, 1) # "arr" THEN Fail(1)
  ELSE Then(DecodeLen(b, 1), LAMBDA n, p :
         IF n # 2 THEN Fail(1)
         ELSE Then(DecodeFrameID(b, p), LAMBDA id, q : DecodeResult(b, q, id)))
==============================================================================
