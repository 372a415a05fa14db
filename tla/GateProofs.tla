----------------------------- MODULE GateProofs -----------------------------
(***************************************************************************)
(* For any number of callers and any limit: the channel of gate.go counts  *)
(* its occupants exactly, and the gate implements InFlight.                *)
(***************************************************************************)
EXTENDS Gate, FiniteSetTheorems, TLAPS

LEMMA CapacityType == Capacity \in Nat \ {0}
BY GateAssumption DEF Capacity

\* A caller that changes its pc changes Occupants by itself at most.
LEMMA OccupantsFinite == /\ IsFiniteSet(Occupants)
                         /\ Cardinality(Occupants) \in Nat
<1>1. Occupants \subseteq Callers
  BY DEF Occupants
<1> QED
  BY <1>1, GateAssumption, FS_Subset, FS_CardinalityType

\* gate.go: every variable stays in its type and the buffered channel holds
\* one element per caller between its send and its receive.
IInv == TypeOK /\ PermitAccounting

LEMMA InitIInv == Init => IInv
<1> SUFFICES ASSUME Init PROVE IInv
  OBVIOUS
<1>1. TypeOK
  <2>1. sem \in 0..Capacity
    BY CapacityType DEF Init
  <2>2. pc \in [Callers -> PC] /\ ctx \in [Callers -> CtxState]
    BY DEF Init, CtxState, PC
  <2> QED
    BY <2>1, <2>2 DEF Init, TypeOK
<1>2. Occupants = {}
  BY DEF Init, Occupants
<1>3. PermitAccounting
  BY <1>2, FS_EmptySet DEF Init, PermitAccounting
<1> QED
  BY <1>1, <1>3 DEF IInv

\* A step that leaves every caller on the same side of the channel.
LEMMA SameOccupants ==
  ASSUME NEW c \in Callers, NEW l \in PC, TypeOK, Goto(c, l),
         pc[c] \in {"recheck", "held"} <=> l \in {"recheck", "held"}
  PROVE  Occupants' = Occupants
BY DEF TypeOK, Goto, Occupants

LEMMA OneMore ==
  ASSUME NEW c \in Callers, NEW l \in {"recheck", "held"}, TypeOK, Goto(c, l),
         pc[c] \notin {"recheck", "held"}
  PROVE  Cardinality(Occupants') = Cardinality(Occupants) + 1
<1>1. Occupants' = Occupants \cup {c} /\ c \notin Occupants
  BY DEF TypeOK, Goto, Occupants
<1> QED
  BY <1>1, OccupantsFinite, FS_AddElement

LEMMA OneLess ==
  ASSUME NEW c \in Callers, TypeOK, Goto(c, "idle"),
         pc[c] \in {"recheck", "held"}
  PROVE  Cardinality(Occupants') = Cardinality(Occupants) - 1
<1>1. Occupants' = Occupants \ {c} /\ c \in Occupants
  BY DEF TypeOK, Goto, Occupants
<1> QED
  BY <1>1, OccupantsFinite, FS_RemoveElement

LEMMA NextIInv == IInv /\ [Next]_vars => IInv'
<1> SUFFICES ASSUME IInv, [Next]_vars PROVE IInv'
  OBVIOUS
<1> USE CapacityType, OccupantsFinite
<1>a. TypeOK /\ PermitAccounting
  BY DEF IInv
<1>b. sem \in 0..Capacity /\ sem \in Int
  BY <1>a DEF TypeOK
<1>1. ASSUME NEW c \in Callers, Start(c) PROVE IInv'
  <2>1. Occupants' = Occupants
    BY <1>1, <1>a, SameOccupants DEF Start, PC
  <2>2. TypeOK'
    BY <1>1, <1>a DEF Start, Goto, TypeOK, PC
  <2> QED
    BY <1>1, <1>a, <2>1, <2>2 DEF IInv, PermitAccounting, Start
<1>2. ASSUME NEW c \in Callers, CtxDone(c) PROVE IInv'
  BY <1>2, <1>a DEF IInv, CtxDone, TypeOK, PermitAccounting, Occupants
<1>3. ASSUME NEW c \in Callers, Enter(c) PROVE IInv'
  <2>1. Occupants' = Occupants
    BY <1>3, <1>a, SameOccupants DEF Enter, PC
  <2>2. TypeOK'
    BY <1>3, <1>a DEF Enter, Goto, TypeOK, PC
  <2> QED
    BY <1>3, <1>a, <2>1, <2>2 DEF IInv, PermitAccounting, Enter
<1>4. ASSUME NEW c \in Callers, TakePermit(c) PROVE IInv'
  <2>1. Cardinality(Occupants') = Cardinality(Occupants) + 1
    BY <1>4, <1>a, OneMore DEF TakePermit
  <2>2. TypeOK'
    BY <1>4, <1>a, <1>b DEF TakePermit, Goto, TypeOK, PC
  <2> QED
    BY <1>4, <1>a, <2>1, <2>2 DEF IInv, PermitAccounting, TakePermit
<1>5. ASSUME NEW c \in Callers, SeesClosed(c) \/ SeesCtxDone(c) PROVE IInv'
  <2>1. Occupants' = Occupants
    BY <1>5, <1>a, SameOccupants DEF SeesClosed, SeesCtxDone, PC
  <2>2. TypeOK'
    BY <1>5, <1>a DEF SeesClosed, SeesCtxDone, Goto, TypeOK, PC
  <2> QED
    BY <1>5, <1>a, <2>1, <2>2 DEF IInv, PermitAccounting, SeesClosed, SeesCtxDone
<1>6. ASSUME NEW c \in Callers, Recheck(c) PROVE IInv'
  <2>1. CASE closed
    <3>1. Cardinality(Occupants') = Cardinality(Occupants) - 1
      BY <1>6, <2>1, <1>a, OneLess DEF Recheck
    <3>2. TypeOK'
      BY <1>6, <2>1, <1>a, <1>b DEF Recheck, Goto, TypeOK, PC
    <3> QED
      BY <1>6, <2>1, <1>a, <3>1, <3>2 DEF IInv, PermitAccounting, Recheck
  <2>2. CASE ~closed
    <3>1. Occupants' = Occupants
      BY <1>6, <2>2, <1>a, SameOccupants DEF Recheck, PC
    <3>2. TypeOK'
      BY <1>6, <2>2, <1>a DEF Recheck, Goto, TypeOK, PC
    <3> QED
      BY <1>6, <2>2, <1>a, <3>1, <3>2 DEF IInv, PermitAccounting, Recheck
  <2> QED
    BY <2>1, <2>2
<1>7. ASSUME NEW c \in Callers, Release(c) PROVE IInv'
  <2>1. Cardinality(Occupants') = Cardinality(Occupants) - 1
    BY <1>7, <1>a, OneLess DEF Release
  <2>2. TypeOK'
    BY <1>7, <1>a, <1>b DEF Release, Goto, TypeOK, PC
  <2> QED
    BY <1>7, <1>a, <2>1, <2>2 DEF IInv, PermitAccounting, Release
<1>8. CASE Close
  BY <1>8, <1>a DEF IInv, Close, TypeOK, PermitAccounting, Occupants
<1>9. CASE UNCHANGED vars
  BY <1>9, <1>a DEF IInv, vars, TypeOK, PermitAccounting, Occupants
<1> QED
  BY <1>1, <1>2, <1>3, <1>4, <1>5, <1>6, <1>7, <1>8, <1>9 DEF Next, Acquire

\* Every variable of the gate stays in its type, for any callers and any limit.
THEOREM GateTypeCorrect == Spec => []TypeOK
<1>1. IInv => TypeOK
  BY DEF IInv
<1> QED
  BY InitIInv, NextIInv, <1>1, PTL DEF Spec

\* No permit leaks and none is given back twice, whatever race close and a
\* cancelled context run with acquire (gate.go:38-49, :59).
THEOREM PermitsAccounted == Spec => []PermitAccounting
<1>1. IInv => PermitAccounting
  BY DEF IInv
<1> QED
  BY InitIInv, NextIInv, <1>1, PTL DEF Spec
-----------------------------------------------------------------------------
(***************************************************************************)
(* Every step of the gate is a step of InFlight or leaves it alone.        *)
(***************************************************************************)
Waiting == {c \in Callers : pc[c] \in {"entry", "select", "recheck"}}
Holders == {c \in Callers : pc[c] = "held"}
Done    == {c \in Callers : ctx[c] # "live"}

\* While a caller rechecks, its element is in the channel but not yet a permit.
LEMMA RoomForOne ==
  ASSUME NEW c \in Callers, IInv, pc[c] = "recheck"
  PROVE  Cardinality(Holders) < Capacity
<1>1. Holders \subseteq Occupants \ {c} /\ c \in Occupants
  BY DEF Holders, Occupants
<1>2. /\ IsFiniteSet(Occupants \ {c})
      /\ Cardinality(Occupants \ {c}) = Cardinality(Occupants) - 1
  BY <1>1, OccupantsFinite, FS_RemoveElement
<1>3. Cardinality(Holders) <= Cardinality(Occupants) - 1 /\ Cardinality(Holders) \in Nat
  BY <1>1, <1>2, FS_Subset, FS_CardinalityType
<1>4. Cardinality(Occupants) <= Capacity
  BY CapacityType DEF IInv, TypeOK, PermitAccounting
<1> QED
  BY <1>3, <1>4, CapacityType, OccupantsFinite

\* InFlight extends FiniteSets for itself: its Cardinality is the same operator.
LEMMA SameCardinality ==
  ASSUME NEW S PROVE Promise!Cardinality(S) = Cardinality(S)
BY Zenon DEF Promise!Cardinality, Cardinality

LEMMA InitPromise == Init => Promise!Init
BY DEF Init, Promise!Init

LEMMA NextPromise == IInv /\ [Next]_vars => [Promise!Next]_Promise!vars
<1> SUFFICES ASSUME IInv, [Next]_vars
             PROVE  Promise!Next \/ UNCHANGED <<Waiting, Holders, Done, closed>>
  BY DEF Promise!vars, Waiting, Holders, Done
<1>a. pc \in [Callers -> PC] /\ ctx \in [Callers -> CtxState]
  BY DEF IInv, TypeOK
<1>1. ASSUME NEW c \in Callers, Start(c) PROVE Promise!Next
  <2>1. Waiting' = Waiting \cup {c} /\ Holders' = Holders
        /\ c \notin Waiting \cup Holders
    BY <1>1, <1>a DEF Start, Goto, Waiting, Holders
  <2>2. Done' = Done \cup {c} \/ Done' = Done \ {c}
    BY <1>1, <1>a DEF Start, Done, CtxState
  <2>3. Promise!Arrive(c)
    BY <1>1, <2>1, <2>2 DEF Start, Promise!Arrive, Waiting, Holders, Done
  <2> QED
    BY <2>3 DEF Promise!Next
<1>2. ASSUME NEW c \in Callers, CtxDone(c) PROVE Promise!Next
  <2>1. Waiting' = Waiting /\ Holders' = Holders /\ Done' = Done \cup {c}
    BY <1>2, <1>a DEF CtxDone, Waiting, Holders, Done
  <2>2. Promise!Expire(c)
    BY <1>2, <2>1 DEF CtxDone, Promise!Expire, Waiting, Holders, Done
  <2> QED
    BY <2>2 DEF Promise!Next
<1>3. ASSUME NEW c \in Callers, pc[c] \in {"entry", "select", "recheck"},
             closed \/ ctx[c] # "live", Goto(c, "idle"), UNCHANGED <<closed, ctx>>
      PROVE  Promise!Next
  <2>1. Waiting' = Waiting \ {c} /\ Holders' = Holders /\ Done' = Done
    BY <1>3, <1>a DEF Goto, Waiting, Holders, Done
  <2>2. Promise!Refuse(c)
    BY <1>3, <2>1 DEF Promise!Refuse, Waiting, Holders, Done
  <2> QED
    BY <2>2 DEF Promise!Next
<1>4. ASSUME NEW c \in Callers, NEW l \in {"select", "recheck"}, Goto(c, l),
             pc[c] \in {"entry", "select"}, UNCHANGED <<closed, ctx>>
      PROVE  UNCHANGED <<Waiting, Holders, Done, closed>>
  BY <1>4, <1>a DEF Goto, Waiting, Holders, Done
<1>5. ASSUME NEW c \in Callers, Recheck(c), ~closed PROVE Promise!Next
  <2>1. Waiting' = Waiting \ {c} /\ Holders' = Holders \cup {c} /\ Done' = Done
    BY <1>5, <1>a DEF Recheck, Goto, Waiting, Holders, Done
  <2>2. Cardinality(Holders) < Capacity
    BY <1>5, RoomForOne DEF Recheck
  <2>3. Promise!Admit(c)
    BY <1>5, <2>1, <2>2, SameCardinality DEF Recheck, Promise!Admit, Waiting, Holders, Done
  <2> QED
    BY <2>3 DEF Promise!Next
<1>6. ASSUME NEW c \in Callers, Release(c) PROVE Promise!Next
  <2>1. Waiting' = Waiting /\ Holders' = Holders \ {c} /\ Done' = Done
    BY <1>6, <1>a DEF Release, Goto, Waiting, Holders, Done
  <2>2. Promise!Leave(c)
    BY <1>6, <2>1 DEF Release, Promise!Leave, Waiting, Holders, Done
  <2> QED
    BY <2>2 DEF Promise!Next
<1>7. CASE Close
  <2>1. Waiting' = Waiting /\ Holders' = Holders /\ Done' = Done
    BY <1>7 DEF Close, Waiting, Holders, Done
  <2>2. Promise!Shut
    BY <1>7, <2>1 DEF Close, Promise!Shut, Waiting, Holders, Done
  <2> QED
    BY <2>2 DEF Promise!Next
<1>8. CASE UNCHANGED vars
  BY <1>8 DEF vars, Waiting, Holders, Done
<1>9. ASSUME NEW c \in Callers, Acquire(c)
      PROVE  Promise!Next \/ UNCHANGED <<Waiting, Holders, Done, closed>>
  <2>1. CASE Enter(c)
    BY <2>1, <1>3, <1>4 DEF Enter
  <2>2. CASE TakePermit(c)
    BY <2>2, <1>4 DEF TakePermit
  <2>3. CASE SeesClosed(c) \/ SeesCtxDone(c)
    BY <2>3, <1>3 DEF SeesClosed, SeesCtxDone
  <2>4. CASE Recheck(c)
    BY <2>4, <1>3, <1>5 DEF Recheck
  <2> QED
    BY <1>9, <2>1, <2>2, <2>3, <2>4 DEF Acquire
<1> QED
  BY <1>1, <1>2, <1>6, <1>7, <1>8, <1>9 DEF Next

\* The channels of gate.go keep the promise of the in-flight bound for any
\* number of callers and any limit: never more than the limit past acquire,
\* nobody refused for load, nobody admitted after close (gate.go:8-11).
THEOREM GateImplementsInFlight == Spec => ImplementsInFlight
BY InitPromise, NextPromise, InitIInv, NextIInv, PTL
   DEF Spec, ImplementsInFlight, Promise!Spec
=============================================================================
