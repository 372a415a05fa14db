------------------------------ MODULE InFlight ------------------------------
(***************************************************************************)
(* What the in-flight bound of a Client promises (CLT-012, CLT-004), with  *)
(* no channel in sight: at most Max calls hold a permit; a call that finds *)
(* the bound reached waits and is never turned away for load; once the     *)
(* bound is shut nobody is admitted any more, and only the shutdown or the *)
(* caller's own context ends a wait without a permit.                      *)
(*                                                                         *)
(* Gate.tla is shown to implement this specification and Client.tla uses   *)
(* its actions in place of the channel operations of gate.go.              *)
(***************************************************************************)
EXTENDS Integers, FiniteSets

CONSTANTS Callers,   \* goroutines that issue calls
          Max        \* permits

VARIABLES waiting,   \* callers asking for a permit
          holders,   \* callers that hold one
          done,      \* callers whose context is cancelled or expired
          shut       \* the client was closed

vars == <<waiting, holders, done, shut>>

Init == /\ waiting = {}
        /\ holders = {}
        /\ done \in SUBSET Callers
        /\ shut = FALSE

\* A caller comes with a context of its own, possibly already done.
Arrive(c) == /\ c \notin waiting \cup holders
             /\ waiting' = waiting \cup {c}
             /\ done' \in {done \cup {c}, done \ {c}}
             /\ UNCHANGED <<holders, shut>>

Admit(c) == /\ c \in waiting
            /\ ~shut
            /\ Cardinality(holders) < Max
            /\ waiting' = waiting \ {c}
            /\ holders' = holders \cup {c}
            /\ UNCHANGED <<done, shut>>

Refuse(c) == /\ c \in waiting
             /\ shut \/ c \in done
             /\ waiting' = waiting \ {c}
             /\ UNCHANGED <<holders, done, shut>>

Leave(c) == /\ c \in holders
            /\ holders' = holders \ {c}
            /\ UNCHANGED <<waiting, done, shut>>

Expire(c) == /\ done' = done \cup {c}
             /\ UNCHANGED <<waiting, holders, shut>>

Shut == /\ shut' = TRUE
        /\ UNCHANGED <<waiting, holders, done>>

Next == \/ \E c \in Callers : \/ Arrive(c) \/ Admit(c) \/ Refuse(c)
                              \/ Leave(c)  \/ Expire(c)
        \/ Shut

Spec == Init /\ [][Next]_vars
=============================================================================
