----------------------------- MODULE CodecForms -----------------------------
(***************************************************************************)
(* What a body means, said the other way round from Codec.tla: for every   *)
(* message the set of all ways to write it, the canonical one, the legacy  *)
(* ones (WIRE-011, WIRE-013) and those the MessagePack library lets pass.  *)
(***************************************************************************)
EXTENDS Codec

Lone(t)    == {<<t>>}
Nil(cond)  == IF cond THEN Lone(<<"nil">>) ELSE {}
Cat(S, T)  == {s \o t : s \in S, t \in T}

RECURSIVE CatAll(_)
CatAll(sets) == IF sets = <<>> THEN {<<>>} ELSE Cat(Head(sets), CatAll(Tail(sets)))

List(sets) == Cat(Lone(<<"arr", Len(sets)>>), CatAll(sets))

TextForms(s)  == Lone(<<"str", s>>) \cup Lone(<<"bin", s>>) \cup Nil(s = <<>>)
UintForms(u)  == Lone(<<"int", u>>) \cup Nil(u = 0)
IntForms(i)   == UintForms(i) \cup IF i < 0 THEN Lone(<<"int", i + Width>>) ELSE {}
FloatForms(x) == Lone(<<"f64", x>>) \cup Lone(<<"f32", x>>)
                 \cup UNION {IntForms(i) : i \in {j \in -MaxInt-1 .. MaxInt : Widened(j) = x}}

\* As bin, as text, and as a list of numbers.
BytesForms(s) ==
  LET num(sym) == {u \in 0..MaxByte : Byte(u) = sym}
  IN  TextForms(s) \cup List([i \in DOMAIN s |-> UNION {UintForms(u) : u \in num(s[i])}])

RECURSIVE Forms(_)
ListForms(vs) == List([i \in DOMAIN vs |-> Forms(vs[i])])
Payloads(v) ==
  CASE Is(v, "Bool")  -> Lone(<<"bool", v[2]>>) \cup Nil(~v[2])
    [] Is(v, "Int")   -> IntForms(v[2])
    [] Is(v, "Float") -> FloatForms(v[2])
    [] Is(v, "Str")   -> TextForms(v[2])
    [] Is(v, "Bytes") -> BytesForms(v[2])
    [] Is(v, "Array") -> ListForms(v[2])
    [] Is(v, "Map")   -> List([i \in DOMAIN v[2] |-> ListForms(v[2][i])])
Forms(v) ==
  IF v = Null THEN Lone(<<"str", Word("Null")>>)
  ELSE CatAll(<<Lone(<<"map", 1>>), TextForms(Word(v[1])), Payloads(v)>>)

ResponseForms(r) ==
  CatAll(<<Lone(<<"arr", 2>>), UintForms(r.id), Lone(<<"map", 1>>),
           IF r.isErr THEN Cat(TextForms(Word("Err")), TextForms(r.err))
                      ELSE Cat(TextForms(Word("Ok")), Forms(r.ok))>>)

FieldForms(r) == [id |-> UintForms(r.id), command |-> TextForms(r.command),
                  args |-> ListForms(r.args)]

ArrayForms(r) == CatAll(<<Lone(<<"arr", 3>>), FieldForms(r).id, FieldForms(r).command,
                          FieldForms(r).args>>)

Fields == {"id", "command", "args"}

\* w is a map in which the last entry of each field is that of r.
IsMapForm(w, r) ==
  /\ w[1][1] = "map"
  /\ LET n == w[1][2]
         at[i \in 1 .. 2 * n + 1] == IF i = 1 THEN 2 ELSE Skip(w, at[i - 1]).at
         key(i) == w[at[2 * i - 1]]
         val(i) == SubSeq(w, at[2 * i], at[2 * i + 1] - 1)
     IN  /\ at[2 * n + 1] = Len(w) + 1
         /\ \A f \in Fields : \E i \in 1..n :
              /\ <<key(i)>> \in TextForms(Word(f))
              /\ val(i) \in FieldForms(r)[f]
              /\ \A j \in i + 1 .. n : <<key(j)>> \notin TextForms(Word(f))

\* The fields of r in any order; and with one entry more anywhere, which is not a
\* field, or an older one of a field that comes again.
Junk == {<<<<"nil">>>>, <<<<"arr", 1>>, <<"map", 1>>, <<"str", Word("id")>>, <<"bool", TRUE>>>>}
Entry(f, w) == <<<<"str", Word(f)>>>> \o w
Newest(r) == [id |-> <<<<"int", r.id>>>>, command |-> <<<<"str", r.command>>>>,
              args |-> <<<<"arr", Len(r.args)>>>> \o EncodeValues(r.args)]
Oldest    == [id |-> <<<<"int", MaxID>>>>, command |-> <<<<"str", Word("x")>>>>,
              args |-> <<<<"arr", 0>>>>]

MapForms(r) ==
  LET entries(o) == [i \in 1..3 |-> Entry(o[i], Newest(r)[o[i]])]
      longer(o) == {InsertAt(entries(o), i, Entry("x", j)) : i \in 1..4, j \in Junk}
                   \cup {InsertAt(entries(o), i, Entry(o[k], Oldest[o[k]])) :
                           <<i, k>> \in {ik \in (1..3) \X (1..3) : ik[1] <= ik[2]}}
  IN  UNION {{<<<<"map", Len(es)>>>> \o FlattenSeq(es) : es \in {entries(o)} \cup longer(o)} :
               o \in SetToSeqs(Fields)}
-----------------------------------------------------------------------------
\* The body b is read as d.  If that is a message, then what was read is one of the
\* forms of this message; every one of them is read as it, with nothing left over;
\* none is read before it is complete; and what comes behind a body is not looked at.
ReadRight(Decode(_), b, forms(_), IsForm(_, _)) ==
  LET d == Decode(b)
  IN  d.ok => LET w == SubSeq(b, 1, d.at - 1)
              IN  /\ IsForm(w, d.v)
                  /\ \A f \in forms(d.v) : Decode(f) = Ok(d.v, Len(f) + 1)
                  /\ \A k \in 1 .. Len(w) - 1 : ~Decode(SubSeq(w, 1, k)).ok
                  /\ Decode(Append(w, <<"bad">>)) = d

RequestRight(b) ==
  ReadRight(DecodeRequestBody, b, LAMBDA r : ArrayForms(r) \cup MapForms(r),
            LAMBDA w, r : w \in ArrayForms(r) \/ IsMapForm(w, r))

ResponseRight(b) ==
  ReadRight(DecodeResponseBody, b, ResponseForms, LAMBDA w, r : w \in ResponseForms(r))

\* No nil, no short float, and bytes as bin.
Canonical(b) == /\ \A i \in DOMAIN b : b[i][1] \notin {"nil", "f32", "bad"}
                /\ \A i \in 3 .. Len(b) :
                     SubSeq(b, i - 2, i - 1) = Tag("Bytes") <=> b[i][1] = "bin"
=============================================================================
