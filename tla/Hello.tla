-------------------------------- MODULE Hello --------------------------------
(***************************************************************************)
(* client/handshake.go: what the frames of a handshake say and what is     *)
(* taken from the reply.  Which frame comes when, and what becomes of one  *)
(* that fails, is in Client.tla; the commands here are those of its Plan.  *)
(***************************************************************************)
EXTENDS Codec

\* clientconfig.go: the kinds of credentials, and none.
TokenCredentials(t)       == [kind |-> "token", secrets |-> <<t>>]
APIKeyCredentials(k)      == [kind |-> "api_key", secrets |-> <<k>>]
UserPassCredentials(u, p) == [kind |-> "userpass", secrets |-> <<u, p>>]
NoCredentials             == [kind |-> "nil", secrets |-> <<>>]

DefaultClientName == Word("thunder-client")

Texts(ss) == [i \in DOMAIN ss |-> Str(ss[i])]

Pair(key, v) == <<Str(Word(key)), v>>

\* Fault: every credential goes under the same key (CredentialsArrive fails).
HelloPairsOneKey(creds, name) ==
  <<Pair("version", Int64(1))>>
  \o (IF creds = NoCredentials THEN <<>> ELSE <<Pair("token", Str(creds.secrets[1]))>>)
  \o <<Pair("client_name", Str(IF name = <<>> THEN DefaultClientName ELSE name))>>

\* Version, credential, name, in this order.
HelloPairs(creds, name) ==
  <<Pair("version", Int64(1))>>
  \o (IF creds = NoCredentials THEN <<>> ELSE <<Pair(creds.kind, Str(creds.secrets[1]))>>)
  \o <<Pair("client_name", Str(IF name = <<>> THEN DefaultClientName ELSE name))>>

\* Refused before anything is sent.
Unsendable(setup) == setup.handshake = "hello_mandatory" /\ setup.creds.kind = "userpass"

Command(name, args) == [command |-> Word(name), args |-> args]

\* The commands of runHandshake, if none of them fails.
Commands(setup) ==
  CASE setup.handshake = "none" \/ Unsendable(setup) -> <<>>
    [] setup.handshake = "auth_command" ->
         IF setup.creds = NoCredentials THEN <<>>
         ELSE (IF setup.hello = "arg_less" THEN <<Command("HELLO", <<>>)>> ELSE <<>>)
              \o <<Command("AUTH", Texts(setup.creds.secrets))>>
    [] setup.handshake = "hello_mandatory" /\ ~Unsendable(setup) ->
         <<Command("HELLO", <<Map(HelloPairs(setup.creds, setup.name))>>)>>

\* Fault: that there is an answer is taken for the answer (InfoAsReplied fails).
ParseHelloInfoPresence(reply) ==
  LET auth == MapGet(reply, Word("authenticated"))
      caps == MapGet(reply, Word("capabilities"))
  IN  [authenticated |-> auth # <<>> /\ Is(auth[1], "Bool"),
       capabilities  |-> IF caps # <<>> /\ Is(caps[1], "Array")
                           THEN SelectSeq(caps[1][2], LAMBDA v : Is(v, "Str")) ELSE <<>>]

\* Whatever is not there, or not of its kind, is passed over.
ParseHelloInfo(reply) ==
  LET auth == MapGet(reply, Word("authenticated"))
      caps == MapGet(reply, Word("capabilities"))
  IN  [authenticated |-> auth # <<>> /\ auth[1] = Bool(TRUE),
       capabilities  |-> IF caps # <<>> /\ Is(caps[1], "Array")
                           THEN SelectSeq(caps[1][2], LAMBDA v : Is(v, "Str")) ELSE <<>>]
-----------------------------------------------------------------------------
(* The server's side of it *)

\* What a server decodes from the frame of a command.
Received(c) == DecodeRequestBody(EncodeRequest(Request(1, c.command, c.args))).v

\* The texts of a body, in order.
TextsOf(c) == SelectSeq(EncodeRequest(Request(1, c.command, c.args)), LAMBDA t : t[1] = "str")

\* CLT-002: a server that looks a HELLO up by key finds the version, the name and the
\* one credential under its own key and no other; AUTH carries the secrets in order;
\* a secret is said once in all, and no frame is sent that would lack one.
SaysIt(setup) ==
  LET cs     == Commands(setup)
      hello  == {i \in DOMAIN cs : cs[i].command = Word("HELLO")}
      auth   == {i \in DOMAIN cs : cs[i].command = Word("AUTH")}
      said   == FlattenSeq([i \in DOMAIN cs |-> TextsOf(cs[i])])
      arg(i) == Received(cs[i]).args[1]
      under(i, key) == MapGet(arg(i), Word(key))
  IN  /\ \A i \in hello : setup.handshake = "hello_mandatory" =>
           /\ under(i, "version") = <<Int64(1)>>
           /\ \A k \in {"token", "api_key"} :
                under(i, k) = IF k = setup.creds.kind THEN Texts(setup.creds.secrets) ELSE <<>>
           /\ under(i, "client_name") # <<Str(<<>>)>>
           /\ setup.name # <<>> => under(i, "client_name") = <<Str(setup.name)>>
      /\ \A i \in hello : setup.handshake = "auth_command" => Received(cs[i]).args = <<>>
      /\ \A i \in auth : Received(cs[i]).args = Texts(setup.creds.secrets)
      /\ SelectSeq(said, LAMBDA t : t[2] \in Range(setup.creds.secrets))
           = IF cs = <<>> THEN <<>>
                ELSE [i \in DOMAIN setup.creds.secrets |-> <<"str", setup.creds.secrets[i]>>]

First(pairs, i) == \A j \in 1 .. i - 1 : pairs[j][1] # pairs[i][1]

\* CLT-002: the connection is authenticated if and only if the reply is a map whose first
\* pair of that key says true, and the capabilities are the texts its first pair of the
\* other key lists; anything else in a reply is neither an error nor a yes.
UnderstoodAs(reply, info) ==
  LET pairs     == IF Is(reply, "Map") THEN reply[2] ELSE <<>>
      of(key)   == {pairs[i][2] : i \in {j \in DOMAIN pairs :
                                           First(pairs, j) /\ pairs[j][1] = Str(Word(key))}}
      listed    == {v \in of("capabilities") : Is(v, "Array")}
  IN  /\ info.authenticated <=> of("authenticated") = {Bool(TRUE)}
      /\ Range(info.capabilities) = {v \in UNION {Range(l[2]) : l \in listed} : Is(v, "Str")}
=============================================================================
