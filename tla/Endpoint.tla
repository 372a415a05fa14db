------------------------------ MODULE Endpoint ------------------------------
(***************************************************************************)
(* client/endpoint.go: an endpoint text and a Config make a host and a     *)
(* port, or are refused.                                                   *)
(*                                                                         *)
(* A text is a sequence of symbols: ":", "/", "[", "]" and " " are         *)
(* themselves; "0", "80", "443" and "65536" are runs of digits, the last   *)
(* one out of range for a port (no text has two runs side by side); "http" *)
(* and "app" are lower-case words, "APP" is "app" in capitals; "x" is      *)
(* other text, not digits and not a separator.                             *)
(***************************************************************************)
EXTENDS Integers, SequencesExt

Invalid     == [ok |-> FALSE]
Valid(h, p) == [ok |-> TRUE, host |-> h, port |-> p]
NoPort      == "none"
Ports       == {"0", "80", "443"}

At(s, c)     == SelectInSeq(s, LAMBDA x : x = c)
LastAt(s, c) == SelectLastInSeq(s, LAMBDA x : x = c)
Has(s, c)    == At(s, c) # 0
Upto(s, i)   == SubSeq(s, 1, i - 1)
After(s, i)  == SubSeq(s, i + 1, Len(s))

\* strings.TrimSpace, ToLower and Index of "://".
TrimSpace(s) == LET Ink(x) == x # " "
                IN IF ToSet(s) \subseteq {" "} THEN <<>>
                   ELSE SubSeq(s, SelectInSeq(s, Ink), SelectLastInSeq(s, Ink))
ToLower(s)   == [i \in DOMAIN s |-> IF s[i] = "APP" THEN "app" ELSE s[i]]
SchemeEnd(s) == LET ends == {i \in 1..Len(s) - 2 : SubSeq(s, i, i + 2) = <<":", "/", "/">>}
                IN IF ends = {} THEN 0 ELSE CHOOSE i \in ends : \A j \in ends : i <= j

\* Digits only, and at most 65535.
ParsePort(s, h) == IF Len(s) = 1 /\ s[1] \in Ports THEN Valid(h, s[1]) ELSE Invalid

\* A bracketed literal, and a port or nothing after it.
SplitBracketed(s) ==
  LET end  == At(s, "]")
      h    == SubSeq(s, 2, end - 1)
      tail == After(s, end)
  IN  IF end = 0 \/ h = <<>> THEN Invalid
      ELSE IF tail = <<>> THEN Valid(h, NoPort)
      ELSE IF tail[1] # ":" THEN Invalid
      ELSE ParsePort(Tail(tail), h)

\* Fault: split at the last ':', whatever comes before (ParsedRight fails).
SplitPlainLast(s) ==
  LET idx == LastAt(s, ":")
  IN  IF idx = 0 THEN Valid(s, NoPort)
      ELSE IF idx = 1 THEN Invalid
      ELSE ParsePort(After(s, idx), Upto(s, idx))

\* More than one ':' without brackets is an IPv6 literal, no port.
SplitPlain(s) ==
  LET idx == LastAt(s, ":")
  IN  IF idx = 0 \/ Has(Upto(s, idx), ":") THEN Valid(s, NoPort)
      ELSE IF idx = 1 THEN Invalid
      ELSE ParsePort(After(s, idx), Upto(s, idx))

SplitHostPort(s) == IF s = <<>> THEN Invalid
                    ELSE IF s[1] = "[" THEN SplitBracketed(s) ELSE SplitPlain(s)

\* What follows the scheme: one trailing '/' is allowed, no path.
ParseRest(rest, defaultPort) ==
  LET r == IF rest # <<>> /\ Last(rest) = "/" THEN Front(rest) ELSE rest
      e == SplitHostPort(r)
  IN  IF Has(r, "/") THEN Invalid
      ELSE IF e.ok /\ e.port = NoPort THEN Valid(e.host, defaultPort) ELSE e

ParseEndpoint(given, config) ==
  LET text == TrimSpace(given)
      idx  == SchemeEnd(text)
      scheme == ToLower(Upto(text, idx))
      bare == SplitHostPort(text)
  IN  IF idx # 0
        THEN IF scheme = <<"http">> \/ scheme # config.scheme
               THEN Invalid ELSE ParseRest(SubSeq(text, idx + 3, Len(text)), config.port)
        ELSE IF bare.ok /\ bare.port = NoPort THEN Invalid ELSE bare

\* Fault: host and port joined by hand (DialledRight fails).
JoinHostPortBare(h, p) == h \o <<":", p>>

\* net.JoinHostPort, the address establish dials.
JoinHostPort(h, p) == (IF Has(h, ":") THEN <<"[">> \o h \o <<"]">> ELSE h) \o <<":", p>>
-----------------------------------------------------------------------------
(* What should be accepted: the list on ParseEndpoint (endpoint.go:20-23), and by   *)
(* name the three things in which the code departs from it.  The code looks at no   *)
(* letter of a host but the separators, so a host is any text here too.             *)

Colons(s) == {i \in DOMAIN s : s[i] = ":"}

\* s is host h, in brackets or without a colon, with port p or (NoPort) without one.
Reads(s, h, p) ==
  LET suffix == IF p = NoPort THEN <<>> ELSE <<":", p>>
  IN  /\ h # <<>>
      /\ \/ s = <<"[">> \o h \o <<"]">> \o suffix /\ ~Has(h, "]")
         \/ s = h \o suffix /\ h[1] # "[" /\ ~Has(h, ":")

\* s is an IPv6 literal h without brackets; it has no port.
Unbracketed(s, h, p) == /\ p = NoPort /\ s = h
                        /\ Cardinality(Colons(h)) > 1 /\ h[1] # "["

\* s is the configured scheme, in any case, "://" and a Form of h and p, or of h alone
\* if p is the configured port, with or without a trailing '/'; http is not for Thunder.
WithScheme(s, h, p, config, Form(_, _, _)) ==
  \E n \in {i \in 0..Len(s) - 3 : SubSeq(s, i + 1, i + 3) = <<":", "/", "/">>} :
    \E slash \in {<<>>, <<"/">>} :
      LET word == SubSeq(s, 1, n)
          r    == SubSeq(s, n + 4, Len(s) - Len(slash))
      IN /\ ToLower(word) = ToLower(config.scheme) /\ ToLower(word) # <<"http">>
         /\ s = word \o <<":", "/", "/">> \o r \o slash
         /\ ~Has(word, ":") /\ ~Has(r, "/")
         /\ Form(r, h, p) \/ (p = config.port /\ Form(r, h, NoPort))

\* The list: scheme://host[:port], [v6] in place of the host, under a Config that names
\* a scheme, and host:port without one.
ListedWithScheme(s, h, p, config) == config.scheme # <<>> /\ WithScheme(s, h, p, config, Reads)
ListedBare(s, h, p)               == Reads(s, h, p) /\ SchemeEnd(s) = 0

\* Accepted, not listed.  Behind a scheme an IPv6 literal may do without its brackets, as
\* the comment at endpoint.go:106 has it; and a Config without a scheme takes "://" for
\* one, with port 0 for none, where config.go:181-183 allows it host:port only.
Beyond(s, h, p, config) == \/ WithScheme(s, h, p, config, Unbracketed)
                           \/ config.scheme = <<>> /\ WithScheme(s, h, p, config, Reads)

\* Listed, not accepted: config.Scheme is never lowered (endpoint.go:39), so that one
\* with a capital in it is no text's scheme.
Answers(config) == config.scheme = ToLower(config.scheme)

Meant(s, h, p, config) ==
  \/ ListedBare(s, h, p)
  \/ Answers(config) /\ (ListedWithScheme(s, h, p, config) \/ Beyond(s, h, p, config))

\* CLT-070, CLT-071: a text is accepted if and only if it is in the list, or Beyond it,
\* under a Config that Answers if it has a scheme; and with the host and port it reads as.
ParsedRight(given, config) ==
  LET e == ParseEndpoint(given, config)
      s == TrimSpace(given)
  IN  IF e.ok THEN e.port # NoPort /\ Meant(s, e.host, e.port, config)
      ELSE \A h \in SubSeqs(s), p \in Ports : ~Meant(s, h, p, config)

\* The address that is dialled (client.go:346) names the host and port that were
\* parsed: read as an endpoint again it gives the same.  Nothing is claimed of a host
\* with brackets or blanks in it, which JoinHostPort does not quote: of "[[x]:80" the
\* host is "[x", and "[x:80" is dialled.
DialledRight(given, config) ==
  LET e == ParseEndpoint(given, config)
  IN  e.ok /\ ToSet(e.host) \cap {"[", "]", " "} = {}
        => ParseEndpoint(JoinHostPort(e.host, e.port), config) = e
=============================================================================
