-------------------------------- MODULE Value --------------------------------
(***************************************************************************)
(* wire/value.go: the eight kinds of value, with the constructors, Equal   *)
(* and the accessors the handshake uses.  A value is <<kind, payload>>; the*)
(* payload of a Map is a sequence of <<key, value>> pairs.                 *)
(***************************************************************************)
EXTENDS MsgPack

Null     == <<"Null">>
Bool(x)  == <<"Bool", x>>
Int64(i) == <<"Int", i>>
Float(x) == <<"Float", x>>
Str(s)   == <<"Str", s>>
Array(vs) == <<"Array", vs>>
Map(ps)   == <<"Map", ps>>

\* Fault: the nil slice is kept (RoundTrip fails).
BytesNil(s) == <<"Bytes", s>>

\* A nil slice becomes the empty one.
Bytes(s) == <<"Bytes", IF s = NoBytes THEN <<>> ELSE s>>

\* Fault: a shorter array that agrees as far as it goes is equal
\* (EqualIffSameBytes fails).
RECURSIVE EqualPrefix(_, _)
EqualPrefix(v, o) ==
  /\ v[1] = o[1]
  /\ CASE v[1] = "Null"  -> TRUE
       [] v[1] = "Array" -> \A i \in DOMAIN v[2] \cap DOMAIN o[2] : EqualPrefix(v[2][i], o[2][i])
       [] v[1] = "Map"   -> /\ Len(v[2]) = Len(o[2])
                            /\ \A i \in DOMAIN v[2] : /\ EqualPrefix(v[2][i][1], o[2][i][1])
                                                      /\ EqualPrefix(v[2][i][2], o[2][i][2])
       [] OTHER          -> v[2] = o[2]

\* Structural, floats by their bits.
RECURSIVE Equal(_, _)
Equal(v, o) ==
  /\ v[1] = o[1]
  /\ CASE v[1] = "Null"  -> TRUE
       [] v[1] = "Array" -> /\ Len(v[2]) = Len(o[2])
                            /\ \A i \in DOMAIN v[2] : Equal(v[2][i], o[2][i])
       [] v[1] = "Map"   -> /\ Len(v[2]) = Len(o[2])
                            /\ \A i \in DOMAIN v[2] : /\ Equal(v[2][i][1], o[2][i][1])
                                                      /\ Equal(v[2][i][2], o[2][i][2])
       [] OTHER          -> v[2] = o[2]

\* AsStr, AsBool, AsArray and AsMap fail on every other kind.
Is(v, kind) == v[1] = kind

\* MapGet: the value of the first pair with that key, if there is one, in a
\* sequence of no or one element.
MapGet(v, key) ==
  IF ~Is(v, "Map") THEN <<>>
  ELSE LET i == SelectInSeq(v[2], LAMBDA pair : pair[1] = Str(key))
       IN  IF i = 0 THEN <<>> ELSE <<v[2][i][2]>>
==============================================================================
