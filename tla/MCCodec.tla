------------------------------- MODULE MCCodec -------------------------------
(* Codec.tla on every body of some tokens, built one by one as long as the       *)
(* decoder asks for more; Hello.tla on every setup and on replies built pair by  *)
(* pair.                                                                         *)
EXTENDS CodecForms, Hello
CONSTANT MaxTokens   \* bound: tokens of a body of each kind

VARIABLES kind, body, setup
vars == <<kind, body, setup>>

Words(ws) == {<<"str", Word(w)>> : w \in ws}
Lens(t, n) == {<<t, i>> : i \in 0..n}
Kinds == {"Null", "Bool", "Int", "Float", "Bytes", "Str", "Array", "Map"}

\* Every kind of scalar; integers at and over the bounds of a byte, an id and an i64.
Scalars == {<<"bool", TRUE>>, <<"nil">>, <<"f64", "-0">>, <<"f32", "nan">>,
            <<"bin", <<"1", "0">>>>, <<"bin", Word("Int")>>, <<"bad">>}
           \cup {<<"int", n>> : n \in {-1, 1, 2, 3, 7}}

Tokens == [value    |-> Scalars \cup Words(Kinds \cup {"x"}) \cup Lens("arr", 2) \cup Lens("map", 2),
           request  |-> Scalars \cup Words({"Null", "Str", "Array"}) \cup Lens("arr", 4) \cup Lens("map", 1),
           legacy   |-> Words({"id", "command", "args", "x"}) \cup {<<"int", 1>>, <<"int", 3>>}
                        \cup Lens("arr", 1),
           response |-> Scalars \cup Words({"Ok", "Err", "Null", "x"}) \cup Lens("arr", 3) \cup Lens("map", 2)]

\* Values are explored in the response that carries them.
Begun == [value    |-> {<<<<"arr", 2>>, <<"int", 1>>, <<"map", 1>>, <<"str", Word("Ok")>>>>},
          request  |-> {<<<<"arr", n>>>> : n \in 2..4},
          legacy   |-> {<<<<"map", n>>>> : n \in 0..4},
          response |-> {<<>>}]

\* A reply to HELLO: a response with a map of some pairs.
Header(n) == <<<<"arr", 2>>, <<"int", 1>>, <<"map", 1>>, <<"str", Word("Ok")>>>>
             \o Tag("Map") \o <<<<"arr", n>>>>
Keys == {Str(Word("authenticated")), Str(Word("capabilities")), Int64(1)}
Said == {Bool(TRUE), Bool(FALSE), Str(Word("true")), Array(<<>>),
         Array(<<Str(Word("a")), Int64(1), Str(Word("b"))>>)}
Pairs == {<<<<"arr", 2>>>> \o EncodeValue(k) \o EncodeValue(v) : k \in Keys, v \in Said}

Setups == [handshake : {"none", "auth_command", "hello_mandatory"},
           hello     : {"not_used", "arg_less", "map_payload"},
           creds     : {NoCredentials, TokenCredentials(Word("s")), APIKeyCredentials(Word("s")),
                        UserPassCredentials(Word("u"), Word("s"))},
           name      : {<<>>, Word("n")}]
NoSetup == "none"

Requests == kind \in {"request", "legacy"}
Decoded  == IF Requests THEN DecodeRequestBody(body) ELSE DecodeResponseBody(body)

Init == \/ kind \in DOMAIN Tokens /\ body \in Begun[kind] /\ setup = NoSetup
        \/ kind = "reply" /\ body \in {Header(n) : n \in 0..3} /\ setup = NoSetup
        \/ kind = "setup" /\ body = <<>> /\ setup \in Setups

Unfinished == ~Decoded.ok /\ Decoded.at > Len(body)

Grow == /\ kind \in DOMAIN Tokens /\ Unfinished
        /\ Len(body) < MaxTokens[kind]
        /\ \E t \in Tokens[kind] : body' = Append(body, t)
        /\ UNCHANGED <<kind, setup>>

GrowReply == /\ kind = "reply" /\ Unfinished
             /\ \E p \in Pairs : body' = body \o p
             /\ UNCHANGED <<kind, setup>>

Next == Grow \/ GrowReply
Spec == Init /\ [][Next]_vars

\* WIRE-012, WIRE-013: a body is read as a request if and only if it is one of the forms
\* of this request, array-shaped or map-shaped with its fields in any order (codec.go:168-263).
RequestsRight == Requests => RequestRight(body)

\* WIRE-003, WIRE-011: the same for responses and the values in them, legacy bytes, widened
\* integers and all (codec.go:175-181, 265-511).
ResponsesRight == kind \in {"value", "response"} => ResponseRight(body)

\* WIRE-002, WIRE-010, WIRE-014: whatever form a message came in, it goes out in the
\* canonical one, which is read as the same message (codec.go:46-164).
RoundTrip ==
  Decoded.ok =>
    LET again == IF Requests THEN EncodeRequest(Decoded.v) ELSE EncodeResponse(Decoded.v)
    IN  /\ Canonical(again)
        /\ (IF Requests THEN DecodeRequestBody(again) ELSE DecodeResponseBody(again))
             = Ok(Decoded.v, Len(again) + 1)

\* Values to compare with.
Others == {Null, Int64(1), Array(<<>>), Array(<<Null>>), Map(<<>>), Map(<<<<Null, Null>>>>),
           Float("0"), Str(<<"1">>), Bytes(NoBytes)}

\* WIRE-014: two values are Equal if and only if they are the same bytes on the wire, so
\* that a NaN equals itself and the two zeros differ (value.go:209-259).
EqualIffSameBytes ==
  (Decoded.ok /\ ~Requests) =>
    \A o \in Others \cup {Decoded.v.ok} :
      LET same == EncodeValue(o) = EncodeValue(Decoded.v.ok)
      IN  (Equal(o, Decoded.v.ok) <=> same) /\ (Equal(Decoded.v.ok, o) <=> same)

\* What the handshake was configured with is what a server finds in its frames.
CredentialsArrive == kind = "setup" => SaysIt(setup)

\* What the reply says is what the client takes it to say, in whichever form it came.
InfoAsReplied == Decoded.ok /\ ~Requests =>
                   UnderstoodAs(Decoded.v.ok, ParseHelloInfo(Decoded.v.ok))

MCMaxTokens == [value |-> 14, request |-> 8, legacy |-> 9, response |-> 7]
==============================================================================
