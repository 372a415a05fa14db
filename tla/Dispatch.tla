------------------------------ MODULE Dispatch ------------------------------
(***************************************************************************)
(* What one connection promises the calls that use it (CLT-010, CLT-014,   *)
(* CLT-020), with no locks, ids or channels in sight.  A call enters while *)
(* the connection is up, and from then on until it is gone it gets one     *)
(* result: its answer, the one error the connection died of, or it gives   *)
(* up because its context ended.  A call that was refused or whose frame   *)
(* could not be written is told to try another connection, and only once   *)
(* this one is down for everybody.                                         *)
(***************************************************************************)
EXTENDS Integers

CONSTANTS Calls,    \* one attempt each
          Errs      \* what a connection can die of

VARIABLES up,       \* the connection accepts calls
          st,       \* progress of each call
          slot,     \* the result waiting for each call
          out       \* what each call returned

vars == <<up, st, slot, out>>

Slots    == {"empty", "answer"} \cup Errs
Outcomes == {"none", "answer", "ctx", "resend"} \cup Errs
Stages   == {"new", "open", "sent", "aborted", "done"}

TypeOK == /\ up \in BOOLEAN
          /\ st \in [Calls -> Stages]
          /\ slot \in [Calls -> Slots]
          /\ out \in [Calls -> Outcomes]

Init == /\ up = TRUE
        /\ st = [c \in Calls |-> "new"]
        /\ slot = [c \in Calls |-> "empty"]
        /\ out = [c \in Calls |-> "none"]

Registered(c) == st[c] \in {"open", "sent"}

Enter(c) == /\ st[c] = "new" /\ up
            /\ st' = [st EXCEPT ![c] = "open"]
            /\ UNCHANGED <<up, slot, out>>

\* The call leaves with result r and whatever waits in its slot is dropped.
Return(c, r) == /\ st' = [st EXCEPT ![c] = "done"]
                /\ out' = [out EXCEPT ![c] = r]
                /\ slot' = [slot EXCEPT ![c] = "empty"]
                /\ UNCHANGED up

Refuse(c) == st[c] = "new" /\ ~up /\ Return(c, "resend")

Send(c) == /\ st[c] = "open"
           /\ st' = [st EXCEPT ![c] = "sent"]
           /\ UNCHANGED <<up, slot, out>>

\* The frame could not be written: first off the books, then, with the
\* connection down, back to the caller.
Abort(c) == /\ st[c] = "open"
            /\ st' = [st EXCEPT ![c] = "aborted"]
            /\ slot' = [slot EXCEPT ![c] = "empty"]
            /\ UNCHANGED <<up, out>>

Resend(c) == st[c] = "aborted" /\ ~up /\ Return(c, "resend")

Answer(c) == /\ st[c] = "sent" /\ up /\ slot[c] = "empty"
             /\ slot' = [slot EXCEPT ![c] = "answer"]
             /\ UNCHANGED <<up, st, out>>

\* The connection dies of e, once: everybody without a result gets e.
Fail(e) == /\ up
           /\ up' = FALSE
           /\ slot' = [c \in Calls |-> IF Registered(c) /\ slot[c] = "empty"
                                         THEN e ELSE slot[c]]
           /\ UNCHANGED <<st, out>>

Take(c) == st[c] = "sent" /\ slot[c] # "empty" /\ Return(c, slot[c])

GiveUp(c) == st[c] = "sent" /\ Return(c, "ctx")

Next == \/ \E c \in Calls : \/ Enter(c) \/ Refuse(c) \/ Send(c) \/ Abort(c)
                            \/ Resend(c) \/ Answer(c) \/ Take(c) \/ GiveUp(c)
        \/ \E e \in Errs : Fail(e)

Spec == Init /\ [][Next]_vars
-----------------------------------------------------------------------------
\* A call that waits on a dead connection has its result in hand.
NoOrphan == \A c \in Calls : st[c] = "sent" /\ ~up => slot[c] # "empty"

\* The errors calls hold or returned.
Deaths == {slot[c] : c \in Calls} \cup {out[c] : c \in Calls}

\* CLT-014: every call a connection fails gets the same error.
OneDeath == \A e, f \in Deaths \cap Errs : e = f
=============================================================================
