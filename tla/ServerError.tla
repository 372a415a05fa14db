----------------------------- MODULE ServerError -----------------------------
(***************************************************************************)
(* client/errors.go: the class and the code of a server's error message.   *)
(*                                                                         *)
(* A message is a sequence of symbols: "AUTH" is one of the words NOAUTH,  *)
(* WRONGPASS, NOPERM; "[", "]" and " " are themselves; "tab" is any other  *)
(* white space; every other symbol is text that means nothing here.        *)
(***************************************************************************)
EXTENDS Integers, SequencesExt

Conventions == {"none", "resp3_prefixes", "bracket_code", "both"}
White       == {" ", "tab"}

Begins(m, s) == m # <<>> /\ m[1] = s

\* The whole first word is one of the three.
StartsWithAuthPrefix(m) == Begins(m, "AUTH") /\ (Len(m) = 1 \/ m[2] = " ")

NoCode(m) == [code |-> <<>>, rest |-> m]

\* Fault: a bracket with blanks in it is taken for a code (ClassifiedRight fails).
SplitBracketLoose(m) ==
  LET end == SelectInSeq(m, LAMBDA s : s = "]")
      c   == SubSeq(m, 2, end - 1)
      after == SubSeq(m, end + 1, Len(m))
  IN  IF Begins(m, "[") /\ end # 0 /\ c # <<>> /\ Begins(after, " ")
        THEN [code |-> c, rest |-> Tail(after)]
        ELSE NoCode(m)

\* "[code] " with a code that is not empty and has no white space.
SplitBracketCode(m) ==
  LET end == SelectInSeq(m, LAMBDA s : s = "]")
      c   == SubSeq(m, 2, end - 1)
      after == SubSeq(m, end + 1, Len(m))
  IN  IF /\ Begins(m, "[") /\ end # 0
         /\ c # <<>> /\ \A i \in DOMAIN c : c[i] \notin White
         /\ Begins(after, " ")
        THEN [code |-> c, rest |-> Tail(after)]
        ELSE NoCode(m)

Auth(m)      == [class |-> "auth", msg |-> m, code |-> <<>>]
Server(m, c) == [class |-> "server", msg |-> m, code |-> c]

FromServerMessage(m, convention) ==
  LET s == IF convention \in {"bracket_code", "both"} THEN SplitBracketCode(m) ELSE NoCode(m)
  IN  IF convention # "none" /\ StartsWithAuthPrefix(s.rest)
        THEN Auth(m) ELSE Server(m, s.code)
-----------------------------------------------------------------------------
(* The same, said of the message as a whole. *)

\* m is "[c] r" with a machine-readable c.
Coded(m, c, r) == /\ m = <<"[">> \o c \o <<"]", " ">> \o r
                  /\ c # <<>>
                  /\ \A i \in DOMAIN c : c[i] \notin White \cup {"]"}

\* CLT-051: access is denied.
Denies(m) == m = <<"AUTH">> \/ IsPrefix(<<"AUTH", " ">>, m)

\* The class is auth if and only if the convention is not "none", which never gives it
\* (errors.go:73, 76-77), and the message denies access, at its start or after its code
\* where the convention has codes (CLT-051); a server error carries the code if and only
\* if the convention and the message have one (CLT-050); the message is kept as it came.
ClassifiedRight(m, convention) ==
  LET e        == FromServerMessage(m, convention)
      brackets == convention \in {"bracket_code", "both"}
      cuts     == {<<SubSeq(m, 2, i), SubSeq(m, i + 3, Len(m))>> : i \in 2..Len(m)}
      coded    == {p \in cuts : brackets /\ Coded(m, p[1], p[2])}
  IN  /\ e.msg = m
      /\ e.class = "auth" <=> /\ convention # "none"
                              /\ Denies(m) \/ \E p \in coded : Denies(p[2])
      /\ e.code = <<>> <=> e.class = "auth" \/ coded = {}
      /\ e.code # <<>> => \A p \in coded : p[1] = e.code
=============================================================================
