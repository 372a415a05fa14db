------------------------------- MODULE MCMux -------------------------------
(* Mux.tla on a handful of calls, with an id space small enough to wrap. *)
EXTENDS Mux, TLC
CONSTANTS c1, c2, c3, c4
TwoCalls   == {c1, c2}
ThreeCalls == {c1, c2, c3}
FourCalls  == {c1, c2, c3, c4}
Symmetry   == Permutations(Calls)
\* The third call finds the counter at PushID.
AtTheWrap  == {2}
\* The runs of FreshSpec, to try invariants of MuxProofs on ids that are used again.
FreshRuns == Init /\ [][Next /\ IdsFresh']_vars
=============================================================================
