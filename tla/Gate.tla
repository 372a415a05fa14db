-------------------------------- MODULE Gate --------------------------------
(***************************************************************************)
(* client/gate.go: the in-flight bound as the code builds it, a buffered   *)
(* channel whose elements are the permits in use and a second channel that *)
(* is closed on shutdown.  One action per channel operation of acquire,    *)
(* release and close; a select with several ready cases takes any of them. *)
(*                                                                         *)
(* A caller runs acquire, holds its permit while its call runs, releases   *)
(* it, and may come back with a new context.                               *)
(***************************************************************************)
EXTENDS Integers, FiniteSets

CONSTANTS Callers,   \* goroutines that issue calls
          Limit      \* the limit given to newGate (config.MaxInFlight)

ASSUME GateAssumption == IsFiniteSet(Callers) /\ Limit \in Int

VARIABLES sem,       \* elements in the channel g.sem
          closed,    \* the channel g.closed is closed
          pc,        \* where each caller is
          ctx        \* state of the context of the caller's current call

vars == <<sem, closed, pc, ctx>>

\* newGate: a limit below one becomes one.
Capacity == IF Limit < 1 THEN 1 ELSE Limit

CtxState == {"live", "cancelled", "expired"}

\* "entry": before the first select; "select": blocked in the second select;
\* "recheck": permit in hand, before the last select; "held": acquire returned nil.
PC == {"idle", "entry", "select", "recheck", "held"}

\* Callers that have put their element into the channel.
Occupants == {c \in Callers : pc[c] \in {"recheck", "held"}}

Init == /\ sem = 0
        /\ closed = FALSE
        /\ pc = [c \in Callers |-> "idle"]
        /\ ctx = [c \in Callers |-> "live"]

Goto(c, l) == pc' = [pc EXCEPT ![c] = l]

\* A goroutine calls acquire with some context.
Start(c) == /\ pc[c] = "idle"
            /\ Goto(c, "entry")
            /\ \E x \in CtxState : ctx' = [ctx EXCEPT ![c] = x]
            /\ UNCHANGED <<sem, closed>>

\* The context ends while the caller is inside acquire.
CtxDone(c) == /\ pc[c] \in {"entry", "select", "recheck"}
              /\ ctx[c] = "live"
              /\ \E x \in CtxState \ {"live"} : ctx' = [ctx EXCEPT ![c] = x]
              /\ UNCHANGED <<sem, closed, pc>>

\* First select: a closed gate refuses at once, otherwise fall through.
Enter(c) == /\ pc[c] = "entry"
            /\ Goto(c, IF closed THEN "idle" ELSE "select")
            /\ UNCHANGED <<sem, closed, ctx>>

\* Fault: a permit channel without a capacity (TypeOK fails).
TakePermitUnbounded(c) == /\ pc[c] = "select"
                          /\ sem' = sem + 1
                          /\ Goto(c, "recheck")
                          /\ UNCHANGED <<closed, ctx>>

\* Second select, case g.sem <- struct{}{}: ready while the buffer has room.
TakePermit(c) == /\ pc[c] = "select"
                 /\ sem < Capacity
                 /\ sem' = sem + 1
                 /\ Goto(c, "recheck")
                 /\ UNCHANGED <<closed, ctx>>

\* Second select, case <-g.closed.
SeesClosed(c) == /\ pc[c] = "select"
                 /\ closed
                 /\ Goto(c, "idle")
                 /\ UNCHANGED <<sem, closed, ctx>>

\* Second select, case <-ctx.Done().
SeesCtxDone(c) == /\ pc[c] = "select"
                  /\ ctx[c] # "live"
                  /\ Goto(c, "idle")
                  /\ UNCHANGED <<sem, closed, ctx>>

\* Fault: the closed error is returned with the permit still in the channel
\* (PermitAccounting fails).
RecheckLeaks(c) == /\ pc[c] = "recheck"
                   /\ Goto(c, IF closed THEN "idle" ELSE "held")
                   /\ UNCHANGED <<sem, closed, ctx>>

\* Fault: no second look at the closed channel (ImplementsInFlight fails).
RecheckSkipped(c) == /\ pc[c] = "recheck"
                     /\ Goto(c, "held")
                     /\ UNCHANGED <<sem, closed, ctx>>

\* Last select: a close that raced with the permit gives the permit back.
Recheck(c) == /\ pc[c] = "recheck"
              /\ IF closed
                   THEN sem > 0 /\ sem' = sem - 1 /\ Goto(c, "idle")
                   ELSE Goto(c, "held") /\ UNCHANGED sem
              /\ UNCHANGED <<closed, ctx>>

\* Fault: a call that ends without its release (AcquireReturns fails).
ReleaseForgotten(c) == /\ pc[c] = "held"
                       /\ Goto(c, "idle")
                       /\ UNCHANGED <<sem, closed, ctx>>

\* release receives from g.sem: it would block on an empty channel.
Release(c) == /\ pc[c] = "held"
              /\ sem > 0
              /\ sem' = sem - 1
              /\ Goto(c, "idle")
              /\ UNCHANGED <<closed, ctx>>

\* close: idempotent (sync.Once).
Close == /\ closed' = TRUE
         /\ UNCHANGED <<sem, pc, ctx>>

Acquire(c) == \/ Enter(c) \/ TakePermit(c) \/ SeesClosed(c)
              \/ SeesCtxDone(c) \/ Recheck(c)

Next == \/ \E c \in Callers : Start(c) \/ CtxDone(c) \/ Acquire(c) \/ Release(c)
        \/ Close

Spec == Init /\ [][Next]_vars

(***************************************************************************)
(* Fairness.  A runnable goroutine runs, so every step of acquire is taken *)
(* weakly fairly, and a held permit is released because CallWithTimeout    *)
(* defers release (that the call itself returns is Client.tla's subject).  *)
(* Senders blocked on a channel are queued in FIFO order by the runtime:   *)
(* a caller is not overtaken for ever, hence strong fairness of            *)
(* TakePermit.                                                             *)
(***************************************************************************)
Fairness == \A c \in Callers :
              /\ WF_vars(Enter(c))
              /\ WF_vars(SeesClosed(c) \/ SeesCtxDone(c))
              /\ WF_vars(Recheck(c))
              /\ WF_vars(Release(c))
              /\ SF_vars(TakePermit(c))

FairSpec == Spec /\ Fairness
-----------------------------------------------------------------------------
\* Every variable stays in its type.
TypeOK == /\ sem \in 0..Capacity
          /\ closed \in BOOLEAN
          /\ pc \in [Callers -> PC]
          /\ ctx \in [Callers -> CtxState]

\* The channel holds exactly one element per caller that took a permit and has
\* not given it back (gate.go:38, :42, :59): no permit leaks on the path where
\* close races with acquire, and neither receive ever blocks on an empty channel.
PermitAccounting == sem = Cardinality(Occupants)

\* The gate implements the promise of InFlight: never more than Capacity callers
\* past acquire, no refusal for load, no admission once closed (gate.go:8-11).
Promise == INSTANCE InFlight WITH
             Max     <- Capacity,
             waiting <- {c \in Callers : pc[c] \in {"entry", "select", "recheck"}},
             holders <- {c \in Callers : pc[c] = "held"},
             done    <- {c \in Callers : ctx[c] # "live"},
             shut    <- closed
ImplementsInFlight == Promise!Spec

\* Whoever asks for a permit gets an answer: a permit, the closed error or the
\* context's error (gate.go:37-54), as long as holders release theirs.
AcquireReturns == \A c \in Callers :
                    pc[c] = "entry" ~> pc[c] \in {"idle", "held"}
=============================================================================
