----------------------------- MODULE MCFraming -----------------------------
(* Framing.tla with two-valued bytes and two of them in the prefix, so that    *)
(* the prefix says up to 3: below the cap, at it, and the only one over it. One *)
(* body is longer; the prefix says 1 of it, and its bytes read as two frames.   *)
EXTENDS Framing
MCBodies == {<<>>, <<1>>, <<0, 1>>, <<1, 0>>, <<1, 0, 1>>, <<1, 1, 0, 1, 0>>}
\* Nothing at all is not a request or a response.
MCUndecodable == {<<>>}
=============================================================================
