------------------------------- MODULE MCText -------------------------------
(* ServerError.tla and Endpoint.tla on every short text, built symbol by symbol. *)
EXTENDS ServerError, Endpoint

CONSTANTS MaxMessage,   \* bound: symbols of a server message
          MaxMore       \* bound: symbols of an endpoint after its beginning

VARIABLES message, endpoint, more
vars == <<message, endpoint, more>>

MessageSymbols  == {"[", "]", " ", "tab", "AUTH", "x"}
EndpointSymbols == {":", "/", "[", "]", " ", "80", "65536", "app", "x"}
Digits          == {"80", "65536"}
Beginnings == {<<>>} \cup {<<w, ":", "/", "/">> : w \in {"app", "APP", "http"}}
              \cup {<<"app", ":", "/", "/", "[", "x">>, <<"[", "x", ":", "x">>}

\* An application's config, one with its scheme in capitals, and Standard() with neither
\* scheme nor port of its own.
AppConfigs == {[scheme |-> <<"app">>, port |-> "443"], [scheme |-> <<"APP">>, port |-> "443"],
               [scheme |-> <<>>, port |-> "0"]}

Init == \/ message = <<>> /\ endpoint = <<>> /\ more = 0
        \/ message = <<>> /\ endpoint \in Beginnings /\ more = 1

MessageGrows == /\ more = 0 /\ Len(message) < MaxMessage
                /\ \E s \in MessageSymbols : message' = Append(message, s)
                /\ UNCHANGED <<endpoint, more>>

EndpointGrows == /\ more \in 1..MaxMore
                 /\ \E s \in EndpointSymbols :
                      /\ (endpoint # <<>> /\ s \in Digits) => endpoint[Len(endpoint)] \notin Digits
                      /\ endpoint' = Append(endpoint, s)
                 /\ more' = more + 1
                 /\ UNCHANGED message

Next == MessageGrows \/ EndpointGrows
Spec == Init /\ [][Next]_vars

\* Every message that denies access, at its start or behind its code, becomes an AuthError,
\* and every code is found, as far as the convention asks for either: "none" never gives
\* an AuthError (errors.go:73-77) nor a code (CLT-050, CLT-051).
ErrorsRight == \A c \in Conventions : ClassifiedRight(message, c)

\* Every endpoint text is read as the form it has in ParseEndpoint's list (endpoint.go:20-23),
\* or refused; under a Config with a capital in its scheme all with a scheme are refused
\* (Answers), and beyond the list two forms are taken: an IPv6 literal without brackets
\* behind a scheme, and "://host" where the Config has no scheme (CLT-070, CLT-071).
EndpointsRight == \A f \in AppConfigs : ParsedRight(endpoint, f)

\* Every endpoint that is accepted, with no brackets or blanks in its host, is dialled under
\* its own host and port; of "[[x]:80" the host is "[x", and "[x:80" is dialled.
DialsRight == \A f \in AppConfigs : DialledRight(endpoint, f)
=============================================================================
