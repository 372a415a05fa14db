---------------------------- MODULE ClientProofs ----------------------------
(***************************************************************************)
(* For any number of calls and connections and any configuration: the      *)
(* safety properties of Client.tla.                                        *)
(*                                                                         *)
(* IInv is their inductive strengthening: who holds reconnectMu where, what*)
(* the connection in a goroutine's hands is known to have gone through,    *)
(* and that whoever renews the connection found it dead and has seen it    *)
(* dead ever since.  The steps of Client.tla are first sorted into eleven  *)
(* kinds (StepKinds); the invariants about connections are then preserved  *)
(* kind by kind.                                                           *)
(***************************************************************************)
EXTENDS Client, TLAPS

Locked   == {"recheck", "repeek", "dial", "shake", "publish"}
Renewing == {"dial", "shake", "publish"}
WithConn == {"shake", "publish", "register", "write", "kill", "failed", "await", "answered"}

LockInv == \A c \in Calls : mu = c <=> pc[c] \in Locked

\* Nothing happens before Connect is through.
OpenInv == /\ pc[Opener] \in {"dial", "shake", "publish", "done"}
           /\ pc[Opener] # "done" => /\ \A c \in Calls : pc[c] = "new"
                                     /\ closer = "idle"
                                     /\ conn = None

Known(cn) == cn \in 1..dialed
KnownInv == /\ \A a \in Actors : pc[a] \in WithConn => Known(my[a])
            /\ conn # None => Known(conn)
            /\ closing # None => Known(closing)

Accepted(cn) == shaken[cn] = Len(Plan) /\ ~Unsendable
ShakeInv == /\ \A cn \in Conns : shaken[cn] <= Len(Plan)
            /\ \A a \in Actors : pc[a] \in WithConn \ {"shake"} => Accepted(my[a])
            /\ conn # None => Accepted(conn)
            /\ \A c \in Calls : \A cn \in wrote[c] : Accepted(cn)

WroteInv == \A c \in Calls : /\ pc[c] \notin {"await", "answered", "done"} => wrote[c] = {}
                             /\ \A cn, dn \in wrote[c] : cn = dn

BudgetInv == \A c \in Calls : dials[c] + budget[c] = ReconnectAttempts

SoleInv == /\ \A a \in Actors : pc[a] \in Renewing => conn \notin up
           /\ \A cn \in up : \/ cn = conn \/ cn = closing
                             \/ \E a \in Actors : pc[a] \in {"shake", "publish"} /\ my[a] = cn
           /\ closing # None => closer = "kill"
           /\ closer # "idle" => closed = TRUE

InfoInv == /\ \A a \in Actors : pc[a] = "publish" => hsFrom = my[a]
           /\ Live => hsFrom = conn

IInv == /\ TypeOK /\ LockInv /\ OpenInv /\ KnownInv /\ ShakeInv
        /\ WroteInv /\ BudgetInv /\ SoleInv /\ InfoInv
-----------------------------------------------------------------------------
(* What the helpers of Client.tla do to their own goroutine and to nobody else. *)

Others(a) == \A b \in Actors \ {a} : /\ pc'[b] = pc[b] /\ my'[b] = my[b]
                                     /\ outcome'[b] = outcome[b]

LEMMA PlanLength == config \in Config => Len(Plan) \in 0..2
<1> SUFFICES ASSUME config \in Config PROVE Len(Plan) \in 0..2
  OBVIOUS
<1>1. Plan \in {<<>>, <<"HELLO", "AUTH">>, <<"AUTH">>, <<"HELLO">>}
  BY DEF Plan, Config, CredKinds
<1>2. /\ Len(<<>>) = 0 /\ Len(<<"HELLO", "AUTH">>) = 2
      /\ Len(<<"AUTH">>) = 1 /\ Len(<<"HELLO">>) = 1
  OBVIOUS
<1> QED
  BY <1>1, <1>2

LEMMA GotoMoves ==
  ASSUME TypeOK, NEW a \in Actors, NEW l, Goto(a, l)
  PROVE  pc'[a] = l /\ \A b \in Actors \ {a} : pc'[b] = pc[b]
BY DEF TypeOK, Goto

LEMMA ReturnMoves ==
  ASSUME TypeOK, NEW a \in Actors, NEW r, Return(a, r)
  PROVE  pc'[a] = "done" /\ my'[a] = None /\ outcome'[a] = r /\ Others(a)
BY DEF TypeOK, Return, Goto, Others

LEMMA UseMoves ==
  ASSUME TypeOK, NEW a \in Actors, NEW cn, Use(a, cn), UNCHANGED outcome
  PROVE  pc'[a] = "register" /\ my'[a] = cn /\ Others(a)
BY DEF TypeOK, Use, Goto, Others

LEMMA WriteFailedMoves ==
  ASSUME TypeOK, NEW c \in Calls, WriteFailed(c)
  PROVE  pc'[c] \in {"done", "check"} /\ Others(c)
<1>1. c \in Actors
  BY DEF Actors
<1>2. CASE budget[c] = 0
  BY <1>1, <1>2, ReturnMoves DEF WriteFailed
<1>3. CASE budget[c] # 0
  BY <1>1, <1>3, GotoMoves DEF WriteFailed, Others
<1> QED
  BY <1>2, <1>3

LEMMA AttemptFailsMoves ==
  ASSUME TypeOK, NEW a \in Actors, NEW e, NEW b, AttemptFails(a, e, b)
  PROVE  pc'[a] \in {"done", "dial"} /\ Others(a)
<1>1. CASE a = Opener \/ e = "auth" \/ b = 0
  BY <1>1, ReturnMoves DEF AttemptFails
<1>2. CASE ~(a = Opener \/ e = "auth" \/ b = 0)
  BY <1>2, GotoMoves DEF AttemptFails, Others, TypeOK
<1> QED
  BY <1>1, <1>2
-----------------------------------------------------------------------------
(* The kinds of steps, as far as connections are concerned. *)

Same == UNCHANGED <<config, conn, hsFrom, dialed, shaken, closing>>

\* a goes, or stays, where it has no connection in its hands.
Drop(a) == /\ Others(a) /\ Same
           /\ UNCHANGED <<wrote, closed, closer>>
           /\ up' \subseteq up
           /\ pc'[a] \notin WithConn \cup {"publish"}
           /\ pc[a] # "publish"
           /\ pc'[a] = "dial" => pc[a] \in {"dial", "shake"} \/ conn \notin up
           /\ pc'[a] # "done" => pc[a] \notin {"await", "answered", "done"}
           /\ pc[a] \in {"shake", "register"} => my[a] \notin up'

\* a takes the client's connection, which is alive.
Adopt(a) == /\ Others(a) /\ Same
            /\ UNCHANGED <<up, wrote, closed, closer>>
            /\ Live
            /\ pc[a] \in {"peek", "repeek"}
            /\ pc'[a] = "register" /\ my'[a] = conn

\* a goes on with its connection, which may be dead by then.
Proceeds(a) == /\ Others(a) /\ Same
               /\ UNCHANGED <<my, wrote, closed, closer>>
               /\ up' \subseteq up
               /\ <<pc[a], pc'[a]>> \in {<<"register", "write">>, <<"write", "kill">>,
                                       <<"kill", "failed">>, <<"await", "answered">>}
               /\ pc'[a] = "failed" => my[a] \notin up'

Writes(a) == /\ Others(a) /\ Same
             /\ UNCHANGED <<up, my, closed, closer>>
             /\ pc[a] = "write" /\ pc'[a] = "await"
             /\ wrote' = [wrote EXCEPT ![a] = @ \cup {my[a]}]

Opens(a) == /\ Others(a)
            /\ UNCHANGED <<config, conn, hsFrom, shaken, closing, wrote, closed, closer>>
            /\ pc[a] = "dial" /\ pc'[a] = "shake"
            /\ dialed < MaxConns /\ dialed' = dialed + 1
            /\ my'[a] = dialed'
            /\ up' = up \cup {dialed'}

Replies(a) == /\ UNCHANGED <<config, conn, hsFrom, dialed, closing, pc, my, up, wrote, closed, closer>>
              /\ pc[a] = "shake" /\ shaken[my[a]] < Len(Plan)
              /\ shaken' = [shaken EXCEPT ![my[a]] = @ + 1]

Accepts(a) == /\ Others(a)
              /\ UNCHANGED <<config, conn, dialed, shaken, closing, up, my, wrote, closed, closer>>
              /\ pc[a] = "shake" /\ pc'[a] = "publish"
              /\ Accepted(my[a])
              /\ hsFrom' = my[a]

Publishes(a) == /\ Others(a)
                /\ UNCHANGED <<config, hsFrom, dialed, shaken, closing, up, wrote, closed, closer>>
                /\ pc[a] = "publish"
                /\ conn' = my[a]
                /\ \/ pc'[a] = "done"
                   \/ pc'[a] = "register" /\ my'[a] = my[a]

Dies == /\ Same /\ UNCHANGED <<pc, my, wrote, closed, closer>>
        /\ up' \subseteq up

Still == Same /\ UNCHANGED <<pc, my, up, wrote, closed, closer>>

Closes == /\ UNCHANGED <<config, hsFrom, dialed, shaken, pc, my, wrote>>
          /\ up' \subseteq up
          /\ closed' = TRUE /\ pc[Opener] = "done"
          /\ \/ conn' = conn /\ closing' = None /\ up' = up /\ closing = None
             \/ conn' = None /\ closing' = conn /\ up' = up /\ closing = None /\ closer' = "kill"
             \/ conn' = conn /\ closing' = None /\ up' = up \ {closing}

Kinds == \/ \E a \in Actors : \/ Drop(a) \/ Adopt(a) \/ Opens(a) \/ Replies(a)
                              \/ Accepts(a) \/ Publishes(a) \/ Proceeds(a)
         \/ \E c \in Calls : Writes(c)
         \/ Dies \/ Still \/ Closes
LEMMA StepKinds == IInv /\ [Next]_vars => Kinds
<1> SUFFICES ASSUME IInv, [Next]_vars PROVE Kinds
  OBVIOUS
<1> USE DEF ctxVars, connVars, histVars, closeVars, Same, WithConn
<1>t. TypeOK
  BY DEF IInv
<1>c. \A c \in Calls : c \in Actors /\ c # Opener
  BY ClientAssumption DEF Actors
<1>1. ASSUME NEW c \in Calls,
             StartCall(c) \/ Admit(c) \/ Lock(c)
      PROVE  Drop(c)
  BY <1>1, <1>t, <1>c, GotoMoves DEF StartCall, Admit, Lock, Drop, Others
<1>2. ASSUME NEW c \in Calls, Refuse(c) PROVE Drop(c)
  BY <1>2, <1>t, <1>c, ReturnMoves DEF Refuse, Drop
<1>3. ASSUME NEW c \in Calls, CtxDone(c) \/ TimerFires(c) PROVE Still
  BY <1>3 DEF CtxDone, TimerFires, Still
<1>4. ASSUME NEW c \in Calls, Check(c) PROVE Drop(c)
  <2>1. CASE closed
    BY <1>4, <2>1, <1>t, <1>c, ReturnMoves DEF Check, Drop
  <2>2. CASE ~closed
    BY <1>4, <2>2, <1>t, <1>c, GotoMoves DEF Check, Drop, Others
  <2> QED
    BY <2>1, <2>2
<1>5. ASSUME NEW c \in Calls, Recheck(c) PROVE Drop(c)
  <2>1. CASE closed
    BY <1>5, <2>1, <1>t, <1>c, ReturnMoves DEF Recheck, Drop
  <2>2. CASE ~closed
    BY <1>5, <2>2, <1>t, <1>c, GotoMoves DEF Recheck, Drop, Others
  <2> QED
    BY <2>1, <2>2
<1>6. ASSUME NEW c \in Calls, Peek(c) PROVE Adopt(c) \/ Drop(c)
  <2>1. CASE Live
    BY <1>6, <2>1, <1>t, <1>c, UseMoves DEF Peek, Adopt
  <2>2. CASE ~Live
    BY <1>6, <2>2, <1>t, <1>c, GotoMoves DEF Peek, Drop, Others
  <2> QED
    BY <2>1, <2>2
<1>7. ASSUME NEW c \in Calls, Repeek(c) PROVE Adopt(c) \/ Drop(c)
  <2>1. CASE Live
    BY <1>7, <2>1, <1>t, <1>c, UseMoves DEF Repeek, Adopt
  <2>2. CASE ~Live
    <3>1. conn \notin up
      BY <2>2, <1>t, ClientAssumption DEF Live, TypeOK, Conns
    <3> QED
      BY <1>7, <2>2, <3>1, <1>t, <1>c, GotoMoves DEF Repeek, Drop, Others
  <2> QED
    BY <2>1, <2>2
<1>8. ASSUME NEW c \in Calls, Register(c) PROVE Proceeds(c) \/ Drop(c)
  <2>1. CASE my[c] \in up
    BY <1>8, <2>1, <1>t, <1>c, GotoMoves DEF Register, Proceeds, Others
  <2>2. CASE my[c] \notin up
    BY <1>8, <2>2, <1>t, <1>c, WriteFailedMoves DEF Register, Drop
  <2> QED
    BY <2>1, <2>2
<1>9. ASSUME NEW c \in Calls, WriteOK(c) PROVE Writes(c)
  BY <1>9, <1>t, <1>c, GotoMoves DEF WriteOK, Writes, Others
<1>10. ASSUME NEW c \in Calls, WriteErr(c) \/ Kill(c) \/ Answered(c) PROVE Proceeds(c)
  BY <1>10, <1>t, <1>c, GotoMoves DEF WriteErr, Kill, Answered, Proceeds, Others
<1>23. ASSUME NEW c \in Calls, Resend(c) PROVE Drop(c)
  BY <1>23, <1>t, <1>c, WriteFailedMoves DEF Resend, Drop
<1>11. ASSUME NEW c \in Calls, NEW r, Await(c, r) PROVE Drop(c)
  BY <1>11, <1>t, <1>c, ReturnMoves DEF Await, Drop
<1>12. ASSUME NEW a \in Actors, DialOK(a) PROVE Opens(a)
  BY <1>12, <1>t, GotoMoves DEF DialOK, Pay, Opens, Others, TypeOK
<1>13. ASSUME NEW a \in Actors, DialFails(a) PROVE Drop(a)
  BY <1>13, <1>t, AttemptFailsMoves DEF DialFails, Drop
<1>14. ASSUME NEW a \in Actors, ShakeOK(a) PROVE Replies(a)
  BY <1>14 DEF ShakeOK, Shaking, Replies
<1>15. ASSUME NEW a \in Actors, ShakeDone(a) PROVE Accepts(a)
  BY <1>15, <1>t, GotoMoves DEF ShakeDone, Accepts, Accepted, Others
<1>16. ASSUME NEW a \in Actors, NEW e, ShakeFails(a, e) PROVE Drop(a)
  <2>1. pc[a] = "shake"
    BY <1>16 DEF ShakeFails, ShakeError, Shaking
  <2>2. pc'[a] \in {"done", "dial"} /\ Others(a)
    BY <1>16, <1>t, AttemptFailsMoves DEF ShakeFails
  <2> QED
    BY <1>16, <2>1, <2>2 DEF ShakeFails, Drop
<1>17. ASSUME NEW a \in Actors, Publish(a) PROVE Publishes(a)
  <2>1. CASE a = Opener
    BY <1>17, <2>1, <1>t, ReturnMoves DEF Publish, Publishes
  <2>2. CASE a # Opener
    BY <1>17, <2>2, <1>t, GotoMoves DEF Publish, Publishes, Others
  <2> QED
    BY <2>1, <2>2
<1>18. ASSUME NEW cn \in Conns, ConnDies(cn) PROVE Dies
  BY <1>18 DEF ConnDies, Dies
<1>19. CASE Close
  <2>1. /\ closing # None => closer = "kill"
        /\ closer # "idle" => closed = TRUE /\ pc[Opener] = "done"
    BY DEF IInv, SoleInv, OpenInv
  <2>3. CASE CloseMark
    BY <2>1, <2>3 DEF CloseMark, Closes, Kinds
  <2>4. CASE CloseGate
    BY <2>1, <2>4 DEF CloseGate, Closes, Kinds
  <2>5. CASE CloseSwap
    BY <2>1, <2>5 DEF CloseSwap, Closes, Kinds
  <2>6. CASE CloseKill
    BY <2>1, <2>6 DEF CloseKill, Closes, Kinds
  <2> QED
    BY <1>19, <2>3, <2>4, <2>5, <2>6 DEF Close, Kinds
<1>20. CASE UNCHANGED vars
  <2>1. /\ UNCHANGED <<config, conn, hsFrom, pc, my>>
        /\ UNCHANGED connVars /\ UNCHANGED histVars /\ UNCHANGED closeVars
    BY <1>20 DEF vars
  <2> QED
    BY <2>1 DEF Still, Kinds
<1>21. ASSUME NEW c \in Calls, LiveConn(c) \/ DispatchOnce(c) PROVE Kinds
  BY <1>21, <1>4, <1>5, <1>6, <1>7, <1>8, <1>9, <1>10, <1>11, <1>23, <1>c
     DEF LiveConn, DispatchOnce, Kinds
<1>22. ASSUME NEW a \in Actors, Establish(a) PROVE Kinds
  BY <1>22, <1>12, <1>13, <1>14, <1>15, <1>16, <1>17 DEF Establish, Kinds
<1> QED
  BY <1>1, <1>2, <1>3, <1>18, <1>19, <1>20, <1>21, <1>22, <1>c DEF Next, Kinds
-----------------------------------------------------------------------------
(* The initial state. *)

LEMMA InitIInv == Init => IInv
<1> SUFFICES ASSUME Init PROVE IInv
  OBVIOUS
<1> USE ClientAssumption DEF Init, Actors, Conns
<1>1. TypeOK
  <2>1. /\ pc \in [Actors -> Places] /\ outcome \in [Actors -> Outcomes]
        /\ my \in [Actors -> Conns \cup {None}]
    BY DEF Places, Outcomes
  <2>2. dialed \in 0..MaxConns /\ up \subseteq 1..dialed /\ shaken \in [Conns -> 0..2]
    OBVIOUS
  <2>3. /\ budget \in [Calls -> 0..ReconnectAttempts] /\ dials \in [Calls -> Nat]
        /\ wrote \in [Calls -> SUBSET Conns]
    BY DEF ReconnectAttempts
  <2> HIDE DEF Actors, Conns
  <2> QED
    BY <2>1, <2>2, <2>3 DEF TypeOK
<1>2. LockInv /\ OpenInv
  BY DEF LockInv, OpenInv, Locked
<1>3. KnownInv
  BY DEF KnownInv, WithConn
<1>4. ShakeInv
  <2>1. Len(Plan) \in 0..2
    BY PlanLength
  <2> QED
    BY <2>1 DEF ShakeInv, WithConn
<1>5. WroteInv /\ BudgetInv
  BY DEF WroteInv, BudgetInv, ReconnectAttempts
<1>6. SoleInv /\ InfoInv
  BY DEF SoleInv, InfoInv, Live, Renewing
<1> QED
  BY <1>1, <1>2, <1>3, <1>4, <1>5, <1>6 DEF IInv
-----------------------------------------------------------------------------
(* The invariants about connections, kind by kind. *)

LEMMA KnownConns ==
  ASSUME TypeOK, NEW cn, Known(cn)
  PROVE  cn \in Conns
<1>1. dialed \in 0..MaxConns
  BY DEF TypeOK
<1> QED
  BY <1>1, ClientAssumption DEF Known, Conns

LEMMA KnownNext == IInv /\ Kinds => KnownInv'
<1> SUFFICES ASSUME IInv, Kinds PROVE KnownInv'
  OBVIOUS
<1> USE DEF KnownInv, Known, WithConn, Same
<1>a. TypeOK /\ KnownInv
  BY DEF IInv
<1>b. dialed \in Nat
  BY <1>a DEF TypeOK
<1>1. ASSUME NEW a \in Actors, Drop(a) \/ Adopt(a) \/ Proceeds(a) PROVE KnownInv'
  BY <1>1, <1>a DEF Drop, Adopt, Proceeds, Others, Live
<1>2. ASSUME NEW c \in Actors, Writes(c) PROVE KnownInv'
  BY <1>2, <1>a DEF Writes, Others
<1>3. ASSUME NEW a \in Actors, Opens(a) PROVE KnownInv'
  BY <1>3, <1>a, <1>b DEF Opens, Others
<1>4. ASSUME NEW a \in Actors, Replies(a) \/ Accepts(a) \/ Publishes(a) PROVE KnownInv'
  BY <1>4, <1>a DEF Replies, Accepts, Publishes, Others
<1>5. CASE Dies \/ Still \/ Closes
  BY <1>5, <1>a DEF Dies, Still, Closes
<1> QED
  BY <1>1, <1>2, <1>3, <1>4, <1>5 DEF Kinds, Actors

LEMMA ShakeNext == IInv /\ Kinds => ShakeInv'
<1> SUFFICES ASSUME IInv, Kinds PROVE ShakeInv'
  OBVIOUS
<1>a. TypeOK /\ KnownInv /\ ShakeInv
  BY DEF IInv
<1>b. config' = config
  BY DEF Kinds, Drop, Adopt, Proceeds, Writes, Opens, Replies, Accepts, Publishes,
         Dies, Still, Closes, Same
<1>c. Len(Plan)' = Len(Plan) /\ Unsendable' = Unsendable /\ Len(Plan) \in Nat
  BY <1>a, <1>b, PlanLength, ClientAssumption DEF Plan, Unsendable, TypeOK
<1>1. ASSUME shaken' = shaken PROVE \A cn : Accepted(cn) => Accepted(cn)'
  BY <1>1, <1>c DEF Accepted
<1>2. ASSUME NEW a \in Actors, Drop(a) \/ Adopt(a) \/ Proceeds(a) PROVE ShakeInv'
  BY <1>2, <1>a, <1>c, <1>1
     DEF ShakeInv, Drop, Adopt, Proceeds, Others, Same, Live, WithConn
<1>3. ASSUME NEW c \in Calls, Writes(c) PROVE ShakeInv'
  <2>1. c \in Actors /\ Accepted(my[c])
    BY <1>3, <1>a DEF Writes, ShakeInv, WithConn, Actors
  <2>2. \A d \in Calls : \A cn \in wrote'[d] : cn \in wrote[d] \/ cn = my[c]
    BY <1>3, <1>a DEF Writes, TypeOK
  <2> QED
    BY <1>3, <2>1, <2>2, <1>a, <1>c, <1>1 DEF ShakeInv, Writes, Others, Same, WithConn
<1>4. ASSUME NEW a \in Actors, Opens(a) PROVE ShakeInv'
  BY <1>4, <1>a, <1>c, <1>1 DEF ShakeInv, Opens, Others, WithConn
<1>5. ASSUME NEW a \in Actors, Replies(a) PROVE ShakeInv'
  <2>1. my[a] \in Conns
    BY <1>5, <1>a, KnownConns DEF Replies, KnownInv, WithConn
  <2>2. \A cn \in Conns : /\ shaken'[cn] <= Len(Plan)
                          /\ Accepted(cn) => Accepted(cn)'
    <3>1. shaken \in [Conns -> 0..2]
      BY <1>a DEF TypeOK
    <3>2. /\ shaken'[my[a]] = shaken[my[a]] + 1
          /\ \A cn \in Conns \ {my[a]} : shaken'[cn] = shaken[cn]
      BY <1>5, <2>1, <3>1 DEF Replies
    <3>3. shaken[my[a]] < Len(Plan) /\ shaken[my[a]] \in Nat
      BY <1>5, <2>1, <3>1 DEF Replies
    <3>4. \A cn \in Conns : shaken'[cn] <= Len(Plan)
      BY <3>2, <3>3, <1>a, <1>c DEF ShakeInv
    <3>5. \A cn \in Conns : Accepted(cn) => cn # my[a]
      BY <3>3, <1>c DEF Accepted
    <3> QED
      BY <3>2, <3>4, <3>5, <1>c DEF Accepted
  <2>3. \A b \in Actors : pc[b] \in WithConn => my[b] \in Conns
    BY <1>a, KnownConns DEF KnownInv
  <2>4. conn # None => conn \in Conns
    BY <1>a DEF TypeOK
  <2>5. \A c \in Calls : wrote[c] \subseteq Conns
    BY <1>a DEF TypeOK
  <2> QED
    BY <1>5, <2>2, <2>3, <2>4, <2>5, <1>a, <1>c DEF ShakeInv, Replies
<1>6. ASSUME NEW a \in Actors, Accepts(a) \/ Publishes(a) PROVE ShakeInv'
  BY <1>6, <1>a, <1>c, <1>1 DEF ShakeInv, Accepts, Publishes, Others, WithConn
<1>7. CASE Dies \/ Still \/ Closes
  BY <1>7, <1>a, <1>c, <1>1 DEF ShakeInv, Dies, Still, Closes, Same
<1> QED
  BY <1>2, <1>3, <1>4, <1>5, <1>6, <1>7 DEF Kinds

LEMMA WroteNext == IInv /\ Kinds => WroteInv'
<1> SUFFICES ASSUME IInv, Kinds PROVE WroteInv'
  OBVIOUS
<1>a. TypeOK /\ WroteInv /\ Calls \subseteq Actors
  BY DEF IInv, Actors
<1>1. ASSUME NEW a \in Actors,
             Drop(a) \/ Adopt(a) \/ Proceeds(a) \/ Opens(a) \/ Accepts(a) \/ Publishes(a)
      PROVE  WroteInv'
  <2>1. wrote' = wrote /\ Others(a)
    BY <1>1 DEF Drop, Adopt, Proceeds, Opens, Accepts, Publishes
  <2>2. pc'[a] \notin {"await", "answered", "done"} => pc[a] \notin {"await", "answered", "done"}
    BY <1>1 DEF Drop, Adopt, Proceeds, Opens, Accepts, Publishes
  <2> QED
    BY <2>1, <2>2, <1>a DEF WroteInv, Others
<1>2. ASSUME NEW c \in Calls, Writes(c) PROVE WroteInv'
  <2>1. wrote[c] = {} /\ wrote'[c] = {my[c]}
    BY <1>2, <1>a DEF Writes, WroteInv, TypeOK
  <2>2. \A d \in Calls \ {c} : wrote'[d] = wrote[d] /\ pc'[d] = pc[d]
    BY <1>2, <1>a DEF Writes, Others, TypeOK
  <2>3. pc'[c] = "await"
    BY <1>2 DEF Writes
  <2> QED
    BY <2>1, <2>2, <2>3, <1>a DEF WroteInv
<1>3. ASSUME NEW a \in Actors, Replies(a) PROVE WroteInv'
  BY <1>3, <1>a DEF Replies, WroteInv
<1>4. CASE Dies \/ Still \/ Closes
  BY <1>4, <1>a DEF Dies, Still, Closes, WroteInv
<1> QED
  BY <1>1, <1>2, <1>3, <1>4 DEF Kinds

\* reconnectMu, and Connect before any call, let one goroutine renew at a time.
LEMMA OneRenewer ==
  ASSUME IInv, NEW a \in Actors, NEW b \in Actors, pc[a] \in Renewing, pc[b] \in Renewing
  PROVE  a = b
BY DEF IInv, LockInv, OpenInv, Renewing, Locked, Actors

\* The next connection to be dialled is not the current one.
LEMMA Fresh == IInv => (dialed < MaxConns => conn # dialed + 1) /\ None \notin up
<1> SUFFICES ASSUME IInv
             PROVE  (dialed < MaxConns => conn # dialed + 1) /\ None \notin up
  OBVIOUS
<1>1. TypeOK /\ (conn # None => Known(conn))
  BY DEF IInv, KnownInv
<1>2. dialed \in 0..MaxConns /\ MaxConns \in Nat
  BY <1>1, ClientAssumption DEF TypeOK
<1>3. \A cn \in up : Known(cn)
  BY <1>1 DEF TypeOK, Known
<1>4. None \notin Conns
  BY ClientAssumption
<1>5. None \notin up
  BY <1>1, <1>3, <1>4, KnownConns
<1>6. ASSUME dialed < MaxConns, conn = dialed + 1 PROVE FALSE
  <2>1. dialed + 1 \in Conns /\ ~Known(dialed + 1)
    BY <1>2, <1>6 DEF Conns, Known
  <2> QED
    BY <1>1, <1>4, <1>6, <2>1
<1> QED
  BY <1>5, <1>6

LEMMA SoleNext == IInv /\ Kinds => SoleInv'
<1> SUFFICES ASSUME IInv, Kinds PROVE SoleInv'
  OBVIOUS
<1>a. TypeOK /\ SoleInv /\ Calls \subseteq Actors
  BY DEF IInv, Actors
<1>1. ASSUME NEW a \in Actors, Drop(a) PROVE SoleInv'
  BY <1>1, <1>a DEF Drop, Others, Same, SoleInv, Renewing, WithConn
<1>2. ASSUME NEW a \in Actors, Adopt(a) \/ Proceeds(a) PROVE SoleInv'
  BY <1>2, <1>a DEF Adopt, Proceeds, Others, Same, SoleInv, Renewing
<1>3. ASSUME NEW c \in Actors, Writes(c) PROVE SoleInv'
  BY <1>3, <1>a DEF Writes, Others, Same, SoleInv, Renewing
<1>4. ASSUME NEW a \in Actors, Opens(a) PROVE SoleInv'
  <2>1. conn \notin up'
    BY <1>4, <1>a, Fresh DEF Opens, SoleInv, Renewing
  <2>2. ASSUME NEW cn \in up'
        PROVE  \/ cn = conn \/ cn = closing
               \/ \E b \in Actors : pc'[b] \in {"shake", "publish"} /\ my'[b] = cn
    BY <1>4, <1>a, <2>2 DEF Opens, SoleInv, Others
  <2> QED
    BY <1>4, <1>a, <2>1, <2>2 DEF Opens, SoleInv
<1>5. ASSUME NEW a \in Actors, Replies(a) PROVE SoleInv'
  BY <1>5, <1>a DEF Replies, SoleInv
<1>6. ASSUME NEW a \in Actors, Accepts(a) PROVE SoleInv'
  BY <1>6, <1>a DEF Accepts, Others, SoleInv, Renewing
<1>7. ASSUME NEW a \in Actors, Publishes(a) PROVE SoleInv'
  <2>1. pc[a] \in Renewing /\ conn \notin up
    BY <1>7, <1>a DEF Publishes, SoleInv, Renewing
  <2>2. \A b \in Actors : pc'[b] \notin Renewing
    BY <1>7, <2>1, OneRenewer DEF Publishes, Others, Renewing
  <2>3. \A cn \in up : cn = my[a] \/ cn = closing
    BY <1>a, <2>1, OneRenewer DEF SoleInv, Renewing
  <2> QED
    BY <1>7, <1>a, <2>2, <2>3 DEF Publishes, SoleInv
<1>8. CASE Dies \/ Still
  BY <1>8, <1>a DEF Dies, Still, Same, SoleInv
<1>9. CASE Closes
  BY <1>9, <1>a, Fresh DEF Closes, SoleInv
<1> QED
  BY <1>a, <1>1, <1>2, <1>3, <1>4, <1>5, <1>6, <1>7, <1>8, <1>9 DEF Kinds

LEMMA InfoNext == IInv /\ Kinds => InfoInv'
<1> SUFFICES ASSUME IInv, Kinds PROVE InfoInv'
  OBVIOUS
<1>a. /\ TypeOK /\ InfoInv /\ Calls \subseteq Actors
      /\ \A a \in Actors : pc[a] \in Renewing => conn \notin up
  BY DEF IInv, Actors, SoleInv
<1>1. ASSUME NEW a \in Actors, Drop(a) \/ Adopt(a) \/ Proceeds(a) PROVE InfoInv'
  BY <1>1, <1>a DEF Drop, Adopt, Proceeds, Others, Same, InfoInv, Live
<1>2. ASSUME NEW c \in Actors, Writes(c) PROVE InfoInv'
  BY <1>2, <1>a DEF Writes, Others, Same, InfoInv, Live
<1>3. ASSUME NEW a \in Actors, Opens(a) PROVE InfoInv'
  BY <1>3, <1>a, Fresh DEF Opens, Others, InfoInv, Live, Renewing
<1>4. ASSUME NEW a \in Actors, Replies(a) PROVE InfoInv'
  BY <1>4, <1>a DEF Replies, InfoInv, Live
<1>5. ASSUME NEW a \in Actors, Accepts(a) PROVE InfoInv'
  <2>1. pc[a] \in Renewing /\ conn \notin up
    BY <1>5, <1>a DEF Accepts, Renewing
  <2>2. \A b \in Actors : pc'[b] = "publish" => b = a
    BY <1>5, <2>1, OneRenewer DEF Accepts, Others, Renewing
  <2> QED
    BY <1>5, <2>1, <2>2 DEF Accepts, InfoInv, Live
<1>6. ASSUME NEW a \in Actors, Publishes(a) PROVE InfoInv'
  <2>1. pc[a] \in Renewing /\ hsFrom = my[a]
    BY <1>6, <1>a DEF Publishes, InfoInv, Renewing
  <2>2. \A b \in Actors : pc'[b] # "publish"
    BY <1>6, <2>1, OneRenewer DEF Publishes, Others, Renewing
  <2> QED
    BY <1>6, <2>1, <2>2 DEF Publishes, InfoInv, Live
<1>7. CASE Dies \/ Still \/ Closes
  BY <1>7, <1>a DEF Dies, Still, Closes, Same, InfoInv, Live
<1> QED
  BY <1>a, <1>1, <1>2, <1>3, <1>4, <1>5, <1>6, <1>7 DEF Kinds

-----------------------------------------------------------------------------
(* Types, locks, Connect and budgets, action by action. *)

\* The variables Return and its users assign.
MoveTypes == /\ pc' \in [Actors -> Places] /\ my' \in [Actors -> Conns \cup {None}]
             /\ outcome' \in [Actors -> Outcomes] /\ mu' \in Calls \cup {None}
             /\ ended' \subseteq Calls /\ expired' \subseteq Calls

LEMMA ReturnTypes ==
  ASSUME TypeOK, NEW a \in Actors, NEW r \in Outcomes, Return(a, r)
  PROVE  MoveTypes
BY DEF TypeOK, Return, Goto, MoveTypes, Places

LEMMA GotoTypes ==
  ASSUME TypeOK, NEW a \in Actors, NEW l \in Places, Goto(a, l),
         my' = my \/ (\E cn \in Conns \cup {None} : my' = [my EXCEPT ![a] = cn]),
         mu' = mu \/ mu' = None,
         UNCHANGED <<outcome, ended, expired>>
  PROVE  MoveTypes
BY DEF TypeOK, Goto, MoveTypes

LEMMA AttemptFailsTypes ==
  ASSUME TypeOK, NEW a \in Actors, NEW e \in Outcomes, NEW b, AttemptFails(a, e, b)
  PROVE  MoveTypes
<1>1. CASE a = Opener \/ e = "auth" \/ b = 0
  BY <1>1, ReturnTypes DEF AttemptFails
<1>2. CASE ~(a = Opener \/ e = "auth" \/ b = 0)
  BY <1>2, GotoTypes DEF AttemptFails, Places, ctxVars
<1> QED
  BY <1>1, <1>2

\* One goroutine moves and the lock, if it changes hands, is taken or left by it.
LEMMA LockKept ==
  ASSUME LockInv, NEW c \in Calls,
         \A b \in Calls \ {c} : pc'[b] = pc[b] /\ (mu' = b <=> mu = b),
         mu' = c <=> pc'[c] \in Locked
  PROVE  LockInv'
BY DEF LockInv

LEMMA NobodyIsNoCall == None \notin Calls /\ Opener \notin Calls
BY ClientAssumption DEF Actors

LEMMA ReturnUnlocks ==
  ASSUME TypeOK, LockInv, NEW c \in Calls, NEW r, Return(c, r)
  PROVE  LockInv'
<1>1. pc'[c] = "done" /\ \A b \in Calls \ {c} : pc'[b] = pc[b]
  BY ReturnMoves DEF Others, Actors
<1>2. mu' # c /\ \A b \in Calls \ {c} : mu' = b <=> mu = b
  BY NobodyIsNoCall DEF Return
<1> QED
  BY <1>1, <1>2, LockKept DEF Locked

LEMMA GotoKeepsLock ==
  ASSUME TypeOK, LockInv, NEW c \in Calls, NEW l, Goto(c, l), UNCHANGED mu,
         l \in Locked <=> pc[c] \in Locked
  PROVE  LockInv'
<1>1. pc'[c] = l /\ \A b \in Calls \ {c} : pc'[b] = pc[b]
  BY GotoMoves DEF Actors
<1>2. mu' = c <=> pc'[c] \in Locked
  BY <1>1 DEF LockInv
<1> QED
  BY <1>1, <1>2, LockKept

LEMMA RepeekKeepsLock ==
  ASSUME TypeOK, LockInv, NEW c \in Calls, Repeek(c)
  PROVE  LockInv'
<1>1. CASE Live
  <2>1. pc'[c] = "register" /\ \A b \in Calls \ {c} : pc'[b] = pc[b]
    BY <1>1, UseMoves DEF Repeek, Others, Actors
  <2>2. mu = c /\ mu' = None
    BY <1>1 DEF Repeek, LockInv, Locked
  <2> QED
    BY <2>1, <2>2, NobodyIsNoCall, LockKept DEF Locked
<1>2. CASE ~Live
  BY <1>2, GotoKeepsLock DEF Repeek, Locked
<1> QED
  BY <1>1, <1>2

LEMMA PayKeepsBudget ==
  ASSUME TypeOK, BudgetInv, NEW a \in Actors, Pay(a)
  PROVE  BudgetInv'
<1>1. CASE a = Opener
  BY <1>1 DEF Pay, BudgetInv
<1>2. CASE a # Opener
  <2>1. a \in Calls
    BY <1>2 DEF Actors
  <2>2. /\ budget'[a] = budget[a] - 1 /\ dials'[a] = dials[a] + 1
        /\ \A c \in Calls \ {a} : budget'[c] = budget[c] /\ dials'[c] = dials[c]
    BY <1>2, <2>1 DEF Pay, Left, TypeOK
  <2>3. budget[a] \in Int /\ dials[a] \in Int
    BY <2>1 DEF TypeOK, ReconnectAttempts
  <2> QED
    BY <2>1, <2>2, <2>3 DEF BudgetInv
<1> QED
  BY <1>1, <1>2

LEMMA LockNext == IInv /\ [Next]_vars => LockInv'
<1> SUFFICES ASSUME IInv, [Next]_vars PROVE LockInv'
  OBVIOUS
<1> USE ClientAssumption DEF IInv, LockInv, Locked, TypeOK, OpenInv, ctxVars, connVars, histVars, closeVars, Actors, Conns
<1>1. ASSUME NEW c \in Calls, StartCall(c) PROVE LockInv'
  BY <1>1 DEF StartCall, Goto
<1>2. ASSUME NEW c \in Calls, Admit(c) PROVE LockInv'
  BY <1>2 DEF Admit, Goto
<1>3. ASSUME NEW c \in Calls, Refuse(c) PROVE LockInv'
  BY <1>3 DEF Refuse, Return, Goto
<1>4. ASSUME NEW c \in Calls, Lock(c) PROVE LockInv'
  BY <1>4 DEF Lock, Goto
<1>5. ASSUME NEW c \in Calls, CtxDone(c) PROVE LockInv'
  BY <1>5 DEF CtxDone
<1>6. ASSUME NEW c \in Calls, TimerFires(c) PROVE LockInv'
  BY <1>6 DEF TimerFires
<1>7. ASSUME NEW c \in Calls, Check(c) PROVE LockInv'
  BY <1>7, ReturnUnlocks, GotoKeepsLock DEF Check
<1>8. ASSUME NEW c \in Calls, Peek(c) PROVE LockInv'
  BY <1>8 DEF Peek, Use, Goto
<1>9. ASSUME NEW c \in Calls, Recheck(c) PROVE LockInv'
  BY <1>9, ReturnUnlocks, GotoKeepsLock DEF Recheck
<1>10. ASSUME NEW c \in Calls, Repeek(c) PROVE LockInv'
  BY <1>10, RepeekKeepsLock
<1>11. ASSUME NEW c \in Calls, Register(c) PROVE LockInv'
  BY <1>11 DEF Register, WriteFailed, Return, Goto
<1>12. ASSUME NEW c \in Calls, WriteOK(c) PROVE LockInv'
  BY <1>12 DEF WriteOK, Goto
<1>13. ASSUME NEW c \in Calls, WriteErr(c) \/ Kill(c) \/ Answered(c) PROVE LockInv'
  BY <1>13 DEF WriteErr, Kill, Answered, Goto
<1>24. ASSUME NEW c \in Calls, Resend(c) PROVE LockInv'
  BY <1>24, ReturnUnlocks, GotoKeepsLock DEF Resend, WriteFailed
<1>14. ASSUME NEW c \in Calls, NEW r \in {"answer", "conn", "ctx", "timeout"}, Await(c, r) PROVE LockInv'
  BY <1>14 DEF Await, Return, Goto
<1>15. ASSUME NEW a \in Actors, DialOK(a) PROVE LockInv'
  BY <1>15 DEF DialOK, Pay, Left, Goto
<1>16. ASSUME NEW a \in Actors, DialFails(a) PROVE LockInv'
  BY <1>16 DEF DialFails, Pay, Left, AttemptFails, Return, Goto
<1>17. ASSUME NEW a \in Actors, ShakeOK(a) PROVE LockInv'
  BY <1>17 DEF ShakeOK, Shaking
<1>18. ASSUME NEW a \in Actors, ShakeDone(a) PROVE LockInv'
  BY <1>18 DEF ShakeDone, Goto
<1>19. ASSUME NEW a \in Actors, Publish(a) PROVE LockInv'
  BY <1>19 DEF Publish, Return, Goto
<1>20. ASSUME NEW a \in Actors, NEW e \in {"auth", "conn", "timeout"}, ShakeFails(a, e) PROVE LockInv'
  BY <1>20 DEF ShakeFails, ShakeError, Shaking, AttemptFails, Return, Goto
<1>21. ASSUME NEW cn \in Conns, ConnDies(cn) PROVE LockInv'
  BY <1>21 DEF ConnDies
<1>22. CASE Close
  BY <1>22 DEF Close, CloseMark, CloseGate, CloseSwap, CloseKill
<1>23. CASE UNCHANGED vars
  BY <1>23 DEF vars
<1> HIDE DEF IInv, LockInv, Locked, TypeOK, OpenInv, ctxVars, connVars, histVars, closeVars, Actors, Conns
<1> QED
  BY <1>1, <1>2, <1>3, <1>4, <1>5, <1>6, <1>7, <1>8, <1>9, <1>10, <1>11, <1>12, <1>13, <1>14, <1>15, <1>16, <1>17, <1>18, <1>19, <1>20, <1>21, <1>22, <1>23, <1>24
     DEF Next, LiveConn, DispatchOnce, Establish

LEMMA BudgetNext == IInv /\ [Next]_vars => BudgetInv'
<1> SUFFICES ASSUME IInv, [Next]_vars PROVE BudgetInv'
  OBVIOUS
<1> USE ClientAssumption DEF IInv, BudgetInv, TypeOK, ReconnectAttempts, ctxVars, connVars, histVars, closeVars, Actors, Conns
<1>1. ASSUME NEW c \in Calls, StartCall(c) PROVE BudgetInv'
  BY <1>1 DEF StartCall, Goto
<1>2. ASSUME NEW c \in Calls, Admit(c) PROVE BudgetInv'
  BY <1>2 DEF Admit, Goto
<1>3. ASSUME NEW c \in Calls, Refuse(c) PROVE BudgetInv'
  BY <1>3 DEF Refuse, Return, Goto
<1>4. ASSUME NEW c \in Calls, Lock(c) PROVE BudgetInv'
  BY <1>4 DEF Lock, Goto
<1>5. ASSUME NEW c \in Calls, CtxDone(c) PROVE BudgetInv'
  BY <1>5 DEF CtxDone
<1>6. ASSUME NEW c \in Calls, TimerFires(c) PROVE BudgetInv'
  BY <1>6 DEF TimerFires
<1>7. ASSUME NEW c \in Calls, Check(c) PROVE BudgetInv'
  BY <1>7 DEF Check, Return, Goto
<1>8. ASSUME NEW c \in Calls, Peek(c) PROVE BudgetInv'
  BY <1>8 DEF Peek, Use, Goto
<1>9. ASSUME NEW c \in Calls, Recheck(c) PROVE BudgetInv'
  BY <1>9 DEF Recheck, Return, Goto
<1>10. ASSUME NEW c \in Calls, Repeek(c) PROVE BudgetInv'
  BY <1>10 DEF Repeek, Use, Goto
<1>11. ASSUME NEW c \in Calls, Register(c) PROVE BudgetInv'
  BY <1>11 DEF Register, WriteFailed, Return, Goto
<1>12. ASSUME NEW c \in Calls, WriteOK(c) PROVE BudgetInv'
  BY <1>12 DEF WriteOK, Goto
<1>13. ASSUME NEW c \in Calls, WriteErr(c) \/ Kill(c) \/ Answered(c) PROVE BudgetInv'
  BY <1>13 DEF WriteErr, Kill, Answered, Goto
<1>24. ASSUME NEW c \in Calls, Resend(c) PROVE BudgetInv'
  BY <1>24 DEF Resend, WriteFailed, Return, Goto
<1>14. ASSUME NEW c \in Calls, NEW r \in {"answer", "conn", "ctx", "timeout"}, Await(c, r) PROVE BudgetInv'
  BY <1>14 DEF Await, Return, Goto
<1>15. ASSUME NEW a \in Actors, DialOK(a) PROVE BudgetInv'
  BY <1>15, PayKeepsBudget DEF DialOK
<1>16. ASSUME NEW a \in Actors, DialFails(a) PROVE BudgetInv'
  BY <1>16, PayKeepsBudget DEF DialFails
<1>17. ASSUME NEW a \in Actors, ShakeOK(a) PROVE BudgetInv'
  BY <1>17 DEF ShakeOK, Shaking
<1>18. ASSUME NEW a \in Actors, ShakeDone(a) PROVE BudgetInv'
  BY <1>18 DEF ShakeDone, Goto
<1>19. ASSUME NEW a \in Actors, Publish(a) PROVE BudgetInv'
  BY <1>19 DEF Publish, Return, Goto
<1>20. ASSUME NEW a \in Actors, NEW e \in {"auth", "conn", "timeout"}, ShakeFails(a, e) PROVE BudgetInv'
  BY <1>20 DEF ShakeFails, ShakeError, Shaking, AttemptFails, Return, Goto
<1>21. ASSUME NEW cn \in Conns, ConnDies(cn) PROVE BudgetInv'
  BY <1>21 DEF ConnDies
<1>22. CASE Close
  BY <1>22 DEF Close, CloseMark, CloseGate, CloseSwap, CloseKill
<1>23. CASE UNCHANGED vars
  BY <1>23 DEF vars
<1> HIDE DEF IInv, BudgetInv, TypeOK, ReconnectAttempts, ctxVars, connVars, histVars, closeVars, Actors, Conns
<1> QED
  BY <1>1, <1>2, <1>3, <1>4, <1>5, <1>6, <1>7, <1>8, <1>9, <1>10, <1>11, <1>12, <1>13, <1>14, <1>15, <1>16, <1>17, <1>18, <1>19, <1>20, <1>21, <1>22, <1>23, <1>24
     DEF Next, LiveConn, DispatchOnce, Establish

LEMMA OpenNext == IInv /\ [Next]_vars => OpenInv'
<1> SUFFICES ASSUME IInv, [Next]_vars PROVE OpenInv'
  OBVIOUS
<1> USE ClientAssumption DEF IInv, OpenInv, TypeOK, ctxVars, connVars, histVars, closeVars, Actors, Conns
<1>1. ASSUME NEW c \in Calls, StartCall(c) PROVE OpenInv'
  BY <1>1 DEF StartCall, Goto
<1>2. ASSUME NEW c \in Calls, Admit(c) PROVE OpenInv'
  BY <1>2 DEF Admit, Goto
<1>3. ASSUME NEW c \in Calls, Refuse(c) PROVE OpenInv'
  BY <1>3 DEF Refuse, Return, Goto
<1>4. ASSUME NEW c \in Calls, Lock(c) PROVE OpenInv'
  BY <1>4 DEF Lock, Goto
<1>5. ASSUME NEW c \in Calls, CtxDone(c) PROVE OpenInv'
  BY <1>5 DEF CtxDone
<1>6. ASSUME NEW c \in Calls, TimerFires(c) PROVE OpenInv'
  BY <1>6 DEF TimerFires
<1>7. ASSUME NEW c \in Calls, Check(c) PROVE OpenInv'
  BY <1>7 DEF Check, Return, Goto
<1>8. ASSUME NEW c \in Calls, Peek(c) PROVE OpenInv'
  BY <1>8 DEF Peek, Use, Goto
<1>9. ASSUME NEW c \in Calls, Recheck(c) PROVE OpenInv'
  BY <1>9 DEF Recheck, Return, Goto
<1>10. ASSUME NEW c \in Calls, Repeek(c) PROVE OpenInv'
  BY <1>10 DEF Repeek, Use, Goto
<1>11. ASSUME NEW c \in Calls, Register(c) PROVE OpenInv'
  BY <1>11 DEF Register, WriteFailed, Return, Goto
<1>12. ASSUME NEW c \in Calls, WriteOK(c) PROVE OpenInv'
  BY <1>12 DEF WriteOK, Goto
<1>13. ASSUME NEW c \in Calls, WriteErr(c) \/ Kill(c) \/ Answered(c) PROVE OpenInv'
  BY <1>13 DEF WriteErr, Kill, Answered, Goto
<1>24. ASSUME NEW c \in Calls, Resend(c) PROVE OpenInv'
  BY <1>24 DEF Resend, WriteFailed, Return, Goto
<1>14. ASSUME NEW c \in Calls, NEW r \in {"answer", "conn", "ctx", "timeout"}, Await(c, r) PROVE OpenInv'
  BY <1>14 DEF Await, Return, Goto
<1>15. ASSUME NEW a \in Actors, DialOK(a) PROVE OpenInv'
  BY <1>15 DEF DialOK, Pay, Left, Goto
<1>16. ASSUME NEW a \in Actors, DialFails(a) PROVE OpenInv'
  BY <1>16 DEF DialFails, Pay, Left, AttemptFails, Return, Goto
<1>17. ASSUME NEW a \in Actors, ShakeOK(a) PROVE OpenInv'
  BY <1>17 DEF ShakeOK, Shaking
<1>18. ASSUME NEW a \in Actors, ShakeDone(a) PROVE OpenInv'
  BY <1>18 DEF ShakeDone, Goto
<1>19. ASSUME NEW a \in Actors, Publish(a) PROVE OpenInv'
  BY <1>19 DEF Publish, Return, Goto
<1>20. ASSUME NEW a \in Actors, NEW e \in {"auth", "conn", "timeout"}, ShakeFails(a, e) PROVE OpenInv'
  BY <1>20 DEF ShakeFails, ShakeError, Shaking, AttemptFails, Return, Goto
<1>21. ASSUME NEW cn \in Conns, ConnDies(cn) PROVE OpenInv'
  BY <1>21 DEF ConnDies
<1>22. CASE Close
  BY <1>22 DEF Close, CloseMark, CloseGate, CloseSwap, CloseKill
<1>23. CASE UNCHANGED vars
  BY <1>23 DEF vars
<1> HIDE DEF IInv, OpenInv, TypeOK, ctxVars, connVars, histVars, closeVars, Actors, Conns
<1> QED
  BY <1>1, <1>2, <1>3, <1>4, <1>5, <1>6, <1>7, <1>8, <1>9, <1>10, <1>11, <1>12, <1>13, <1>14, <1>15, <1>16, <1>17, <1>18, <1>19, <1>20, <1>21, <1>22, <1>23, <1>24
     DEF Next, LiveConn, DispatchOnce, Establish

LEMMA TypeNext == IInv /\ [Next]_vars => TypeOK'
<1> SUFFICES ASSUME IInv, [Next]_vars PROVE TypeOK'
  OBVIOUS
<1> USE DEF ctxVars, connVars, histVars, closeVars
<1>t. TypeOK /\ KnownInv
  BY DEF IInv
<1>c. \A c \in Calls : c \in Actors /\ c # Opener
  BY ClientAssumption DEF Actors
<1>o. {"answer", "closed", "ctx", "auth", "conn", "timeout"} \subseteq Outcomes
  BY DEF Outcomes
<1>d. dialed \in Nat /\ MaxConns \in Nat /\ up \subseteq 1..dialed
  BY <1>t, ClientAssumption DEF TypeOK
<1>1. ASSUME NEW c \in Calls,
             StartCall(c) \/ Admit(c) \/ Lock(c)
      PROVE  TypeOK'
  BY <1>1, <1>t, <1>c DEF StartCall, Admit, Lock, Goto, TypeOK, Places
<1>2. ASSUME NEW c \in Calls, CtxDone(c) \/ TimerFires(c) PROVE TypeOK'
  BY <1>2, <1>t DEF CtxDone, TimerFires, TypeOK
<1>m. ASSUME MoveTypes,
             UNCHANGED <<config, closed, shut, conn, hsFrom, dialed, shaken, wrote, closer, closing>>,
             budget' \in [Calls -> 0..ReconnectAttempts], dials' \in [Calls -> Nat],
             up' \subseteq up
      PROVE  TypeOK'
  BY <1>m, <1>t DEF MoveTypes, TypeOK
<1>3. ASSUME NEW c \in Calls, Refuse(c) PROVE TypeOK'
  <2>1. MoveTypes
    BY <1>3, <1>t, <1>c, <1>o, ReturnTypes DEF Refuse
  <2> QED
    BY <1>3, <1>t, <1>m, <2>1 DEF Refuse, TypeOK
<1>4. ASSUME NEW c \in Calls, Check(c) \/ Recheck(c) PROVE TypeOK'
  <2>1. CASE Return(c, "closed")
    BY <1>4, <1>t, <1>c, <1>o, <1>m, <2>1, ReturnTypes DEF Check, Recheck, TypeOK
  <2>2. CASE \E l \in {"peek", "repeek"} : Goto(c, l) /\ UNCHANGED <<my, mu, outcome, ctxVars>>
    BY <1>4, <1>t, <1>c, <1>m, <2>2, GotoTypes DEF Check, Recheck, TypeOK, Places
  <2> QED
    BY <1>4, <2>1, <2>2 DEF Check, Recheck
<1>5. ASSUME NEW c \in Calls, Peek(c) \/ Repeek(c) PROVE TypeOK'
  <2>1. Live => conn \in Conns
    BY <1>t DEF Live, TypeOK
  <2>2. MoveTypes
    BY <1>5, <1>t, <1>c, <2>1, GotoTypes DEF Peek, Repeek, Use, Places
  <2> QED
    BY <1>5, <1>t, <1>m, <2>2 DEF Peek, Repeek, TypeOK
<1>6. ASSUME NEW c \in Calls, Register(c) \/ Resend(c) PROVE TypeOK'
  <2>1. CASE WriteFailed(c)
    <3>1. MoveTypes
      BY <1>t, <1>c, <1>o, <2>1, ReturnTypes, GotoTypes DEF WriteFailed, Places
    <3> QED
      BY <1>6, <1>t, <1>m, <2>1, <3>1 DEF Register, Resend, WriteFailed, TypeOK
  <2>2. CASE ~WriteFailed(c)
    BY <1>6, <1>t, <1>c, <2>2 DEF Register, Resend, Goto, TypeOK, Places
  <2> QED
    BY <2>1, <2>2
<1>7. ASSUME NEW c \in Calls, WriteOK(c) PROVE TypeOK'
  <2>1. my[c] \in Conns
    BY <1>7, <1>t, <1>c, KnownConns DEF WriteOK, KnownInv, WithConn
  <2> QED
    BY <1>7, <1>t, <1>c, <2>1 DEF WriteOK, Goto, TypeOK, Places
<1>20. ASSUME NEW c \in Calls, WriteErr(c) \/ Kill(c) \/ Answered(c) PROVE TypeOK'
  BY <1>20, <1>t, <1>c DEF WriteErr, Kill, Answered, Goto, TypeOK, Places
<1>8. ASSUME NEW c \in Calls, NEW r \in {"answer", "conn", "ctx", "timeout"}, Await(c, r)
      PROVE  TypeOK'
  <2>1. MoveTypes
    BY <1>8, <1>t, <1>c, <1>o, ReturnTypes DEF Await
  <2> QED
    BY <1>8, <1>t, <1>m, <2>1 DEF Await, TypeOK
<1>p. ASSUME NEW a \in Actors, Pay(a)
      PROVE  budget' \in [Calls -> 0..ReconnectAttempts] /\ dials' \in [Calls -> Nat]
  <2>1. CASE a = Opener
    BY <1>p, <1>t, <2>1 DEF Pay, TypeOK
  <2>2. CASE a # Opener
    <3>1. a \in Calls /\ budget[a] \in 1..ReconnectAttempts /\ budget[a] - 1 \in 0..ReconnectAttempts
      BY <1>p, <1>t, <2>2 DEF Pay, TypeOK, Actors, ReconnectAttempts
    <3> QED
      BY <1>p, <1>t, <2>2, <3>1 DEF Pay, Left, TypeOK
  <2> QED
    BY <2>1, <2>2
<1>9. ASSUME NEW a \in Actors, DialOK(a) PROVE TypeOK'
  <2>1. dialed' \in 0..MaxConns /\ dialed' \in Conns /\ up' \subseteq 1..dialed'
    BY <1>9, <1>d DEF DialOK, Conns
  <2>2. my' \in [Actors -> Conns \cup {None}] /\ pc' \in [Actors -> Places]
    BY <1>9, <1>t, <2>1 DEF DialOK, Goto, TypeOK, Places
  <2>3. budget' \in [Calls -> 0..ReconnectAttempts] /\ dials' \in [Calls -> Nat]
    BY <1>9, <1>p DEF DialOK
  <2> QED
    BY <1>9, <1>t, <2>1, <2>2, <2>3 DEF DialOK, TypeOK
<1>10. ASSUME NEW a \in Actors, DialFails(a) PROVE TypeOK'
  <2>1. MoveTypes
    BY <1>10, <1>t, <1>o, AttemptFailsTypes DEF DialFails
  <2>2. budget' \in [Calls -> 0..ReconnectAttempts] /\ dials' \in [Calls -> Nat]
    BY <1>10, <1>p DEF DialFails
  <2> QED
    BY <1>10, <1>m, <2>1, <2>2 DEF DialFails
<1>11. ASSUME NEW a \in Actors, ShakeOK(a) PROVE TypeOK'
  <2>1. my[a] \in Conns
    BY <1>11, <1>t, KnownConns DEF ShakeOK, Shaking, KnownInv, WithConn
  <2>2. shaken[my[a]] \in 0..2 /\ shaken[my[a]] < Len(Plan) /\ Len(Plan) \in 0..2
    BY <1>11, <1>t, <2>1, PlanLength, ClientAssumption DEF ShakeOK, Shaking, TypeOK
  <2>3. shaken[my[a]] + 1 \in 0..2 /\ shaken \in [Conns -> 0..2]
    <3>1. \A m, n \in 0..2 : m < n => m + 1 \in 0..2
      OBVIOUS
    <3> QED
      BY <1>t, <2>2, <3>1 DEF TypeOK
  <2>4. shaken' \in [Conns -> 0..2]
    BY <1>11, <2>1, <2>3 DEF ShakeOK
  <2> QED
    BY <1>11, <1>t, <2>4 DEF ShakeOK, TypeOK
<1>12. ASSUME NEW a \in Actors, ShakeDone(a) PROVE TypeOK'
  <2>1. my[a] \in Conns
    BY <1>12, <1>t, KnownConns DEF ShakeDone, KnownInv, WithConn
  <2> QED
    BY <1>12, <1>t, <2>1 DEF ShakeDone, Goto, TypeOK, Places
<1>13. ASSUME NEW a \in Actors, NEW e \in {"auth", "conn", "timeout"}, ShakeFails(a, e)
       PROVE  TypeOK'
  <2>1. MoveTypes
    BY <1>13, <1>t, <1>o, AttemptFailsTypes DEF ShakeFails
  <2> QED
    BY <1>13, <1>t, <1>m, <2>1 DEF ShakeFails, TypeOK
<1>14. ASSUME NEW a \in Actors, Publish(a) PROVE TypeOK'
  <2>1. my[a] \in Conns
    BY <1>14, <1>t, KnownConns DEF Publish, KnownInv, WithConn
  <2>2. MoveTypes
    BY <1>14, <1>t, <1>o, ReturnTypes, GotoTypes DEF Publish, Places
  <2> QED
    BY <1>14, <1>t, <2>1, <2>2 DEF Publish, MoveTypes, TypeOK
<1>15. ASSUME NEW cn \in Conns, ConnDies(cn) PROVE TypeOK'
  BY <1>15, <1>t DEF ConnDies, TypeOK
<1>16. CASE Close
  BY <1>16, <1>t DEF Close, CloseMark, CloseGate, CloseSwap, CloseKill, TypeOK
<1>17. CASE UNCHANGED vars
  BY <1>17, <1>t DEF vars, TypeOK
<1>18. ASSUME NEW c \in Calls, LiveConn(c) \/ DispatchOnce(c) PROVE TypeOK'
  BY <1>18, <1>4, <1>5, <1>6, <1>7, <1>8, <1>20 DEF LiveConn, DispatchOnce
<1>19. ASSUME NEW a \in Actors, Establish(a) PROVE TypeOK'
  BY <1>19, <1>9, <1>10, <1>11, <1>12, <1>13, <1>14 DEF Establish
<1> QED
  BY <1>1, <1>2, <1>3, <1>15, <1>16, <1>17, <1>18, <1>19 DEF Next
-----------------------------------------------------------------------------
(* The theorems. *)

LEMMA NextIInv == IInv /\ [Next]_vars => IInv'
BY StepKinds, TypeNext, LockNext, OpenNext, KnownNext, ShakeNext, WroteNext, BudgetNext,
   SoleNext, InfoNext DEF IInv

LEMMA Invariance == Spec => []IInv
BY InitIInv, NextIInv, PTL DEF Spec

\* Every variable of the client stays in its type.
THEOREM ClientTypeCorrect == Spec => []TypeOK
<1>1. IInv => TypeOK
  BY DEF IInv
<1> QED
  BY Invariance, <1>1, PTL

\* CLT-031, for any number of calls and deaths: the frame of a call is written on
\* one connection at most, so the resend loop never replays (client.go:176-191).
THEOREM NeverReplays == Spec => []NoReplay
<1>1. IInv => NoReplay
  BY DEF IInv, WroteInv, NoReplay
<1> QED
  BY Invariance, <1>1, PTL

\* CLT-002, for any configuration: no user call travels before the handshake of
\* its connection is complete, on a reconnection either (client.go:345-368).
THEOREM HandshakeComesFirst == Spec => []HandshakeFirst
<1>1. IInv => HandshakeFirst
  BY DEF IInv, ShakeInv, Accepted, HandshakeFirst
<1> QED
  BY Invariance, <1>1, PTL

\* However many calls race to renew the connection, one is alive at a time
\* (client.go:302-313).
THEOREM AtMostOneLiveConn == Spec => []OneLiveConn
<1>1. ASSUME IInv PROVE OneLiveConn
  <2>1. SUFFICES ASSUME ~closed, NEW cn \in up, NEW dn \in up PROVE cn = dn
    BY DEF OneLiveConn
  <2>2. closing = None /\ None \notin up
    BY <1>1, <2>1, Fresh DEF IInv, SoleInv
  <2>3. \A kn \in up : \/ kn = conn
                       \/ \E a \in Actors : pc[a] \in {"shake", "publish"} /\ my[a] = kn
    BY <1>1, <2>2 DEF IInv, SoleInv
  <2>4. \A a \in Actors : pc[a] \in {"shake", "publish"} => pc[a] \in Renewing /\ conn \notin up
    BY <1>1 DEF IInv, SoleInv, Renewing
  <2> QED
    BY <1>1, <2>3, <2>4, OneRenewer
<1> QED
  BY Invariance, <1>1, PTL

\* CLT-003: what IsAuthenticated reports is about the living connection, though
\* it is written apart from it (client.go:335-337, :366).
THEOREM InfoIsOfLiveConn == Spec => []InfoOfLiveConn
<1>1. IInv => InfoOfLiveConn
  BY DEF IInv, InfoInv, InfoOfLiveConn
<1> QED
  BY Invariance, <1>1, PTL

\* CLT-030: the budget bounds the dials of a call over its whole resend loop.
THEOREM RedialsAreBounded == Spec => []RedialBudget
<1>1. ASSUME IInv PROVE RedialBudget
  BY <1>1 DEF IInv, TypeOK, BudgetInv, RedialBudget, ReconnectAttempts
<1> QED
  BY Invariance, <1>1, PTL
=============================================================================
