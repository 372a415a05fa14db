------------------------------ MODULE MCClient ------------------------------
(* Client.tla with a few calls and one configuration per handshake style. *)
EXTENDS Client, TLC
CONSTANTS c1, c2
TwoCalls == {c1, c2}
Symmetry == Permutations(Calls)

NoHandshake   == [handshake |-> "none", hello |-> "not_used", creds |-> "nil",
                 deadline |-> FALSE]
HelloThenAuth == [handshake |-> "auth_command", hello |-> "arg_less",
                  creds |-> "api_key", deadline |-> TRUE]
BadCreds      == [handshake |-> "hello_mandatory", hello |-> "map_payload",
                 creds |-> "userpass", deadline |-> TRUE]

SafetyConfigs == {HelloThenAuth, BadCreds}
LiveConfigs   == {HelloThenAuth}
OneConfig     == {NoHandshake}
=============================================================================
