--------------------------- MODULE ClientDispatch ---------------------------
(***************************************************************************)
(* The client as one of its connections sees it.  Dispatch.tla says what a *)
(* connection promises calls that each try it once; here calls come back   *)
(* to liveConn and try the next one (client.go:176-191), connections       *)
(* follow one another, and the reader, writers, a failed handshake and     *)
(* Close kill them.  Of each connection the promise is kept all the same.  *)
(***************************************************************************)
EXTENDS Client

VARIABLE tried  \* history: the connections that sent a call back, its frame not written

allVars == <<vars, tried>>

\* dispatchOnce returns writeFailed, which CallWithTimeout takes as leave to resend.
SentBack(c) == pc[c] \in {"register", "failed"} /\ pc'[c] \in {"check", "done"}

TrackInit == Init /\ tried = [c \in Calls |-> {}]
TrackNext == /\ Next
             /\ tried' = [c \in Calls |-> IF SentBack(c) THEN tried[c] \cup {my[c]} ELSE tried[c]]

TrackSpec == TrackInit /\ [][TrackNext]_allVars

\* Not dialled yet, or alive.
Usable(cn) == cn > dialed \/ cn \in up

\* How far a call is with a connection.
Stage(c, cn) == IF my[c] = cn /\ pc[c] = "write" THEN "open"
                ELSE IF my[c] = cn /\ pc[c] \in {"kill", "failed"} THEN "aborted"
                ELSE IF my[c] = cn /\ pc[c] \in {"await", "answered"} THEN "sent"
                ELSE IF cn \in wrote[c] \cup tried[c] THEN "done" ELSE "new"

\* What is on its waiter's channel.
Slot(c, cn) == IF my[c] = cn /\ pc[c] = "answered" THEN "answer"
               ELSE IF my[c] = cn /\ pc[c] \in {"write", "await"} /\ ~Usable(cn) THEN "conn"
               ELSE "empty"

\* What dispatchOnce returned to it.
Gave(c, cn) == IF cn \in tried[c] THEN "resend"
               ELSE IF cn \notin wrote[c] \/ pc[c] # "done" THEN "none"
               ELSE IF outcome[c] = "timeout" THEN "ctx" ELSE outcome[c]

Stages(cn)  == [c \in Calls |-> Stage(c, cn)]
Slots(cn)   == [c \in Calls |-> Slot(c, cn)]
Results(cn) == [c \in Calls |-> Gave(c, cn)]

Of(cn) == INSTANCE Dispatch WITH Errs <- {"conn"},
                                 up   <- Usable(cn),
                                 st   <- Stages(cn),
                                 slot <- Slots(cn),
                                 out  <- Results(cn)

\* CLT-010, CLT-014, CLT-020 of every connection of the client: an answer that came before
\* the death is still taken, everybody else is failed, whoever is sent back finds the
\* connection dead, and no call tries one connection twice (client.go:282-343, 373-426).
\* This is \A cn \in Conns : Of(cn)!Spec, in a form that TLC evaluates.
UsesDispatch == /\ \A cn \in Conns : Of(cn)!Init
                /\ [][\A cn \in Conns : UNCHANGED Of(cn)!vars \/ Of(cn)!Next]_allVars
=============================================================================
