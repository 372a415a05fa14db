------------------------------- MODULE Client -------------------------------
(***************************************************************************)
(* client/client.go and client/handshake.go, the client as a whole:        *)
(* Connect, CallWithTimeout with its resend loop, liveConn, establish,     *)
(* runHandshake and Close, over connections that may die at any moment.    *)
(*                                                                         *)
(* The gate behaves as InFlight.tla says and a connection as Dispatch.tla  *)
(* says (see ClientDispatch.tla).                                          *)
(*                                                                         *)
(* Each member of Calls is one CallWithTimeout; Opener is the goroutine    *)
(* that runs Connect.  Both run establish.                                 *)
(***************************************************************************)
EXTENDS Integers, Sequences, FiniteSets

CONSTANTS Calls,        \* runs of CallWithTimeout
          Opener,       \* the goroutine that runs Connect
          None,         \* nobody, no connection
          MaxConns,     \* bound: connections dialled over the client's life
          MaxInFlight,  \* Config.MaxInFlight
          Configs,      \* configurations Connect may be given
          Timed,        \* calls with a timeout
          Cancellable   \* calls whose own context may end

Actors == Calls \cup {Opener}
Conns  == 1..MaxConns

\* ClientConfig, as far as the handshake looks at it: the kind of Credentials, and a
\* deadline if CallTimeout > 0.
CredKinds == {"nil", "token", "api_key", "userpass"}
Deadlines == BOOLEAN

\* What Connect is given: Config, as far as the handshake looks at it, and ClientConfig.
Config == [handshake : {"none", "auth_command", "hello_mandatory"},
           hello     : {"not_used", "arg_less", "map_payload"},
           creds     : CredKinds,
           deadline  : Deadlines]

ASSUME ClientAssumption ==
         /\ IsFiniteSet(Calls) /\ Opener \notin Calls
         /\ None \notin Actors \cup Conns
         /\ MaxConns \in Nat
         /\ MaxInFlight \in Int
         /\ Configs \subseteq Config
         /\ Timed \subseteq Calls /\ Cancellable \subseteq Calls

ReconnectAttempts == 2

VARIABLES
  config,   \* what Connect was given
  closed,   \* Client.closed
  shut,     \* the gate is closed
  conn,     \* Client.conn
  hsFrom,   \* the connection handshakeInfo comes from
  mu,       \* holder of reconnectMu
  dialed,   \* connections dialled so far
  up,       \* connections that are alive
  shaken,   \* handshake replies received on each connection
  pc,       \* where each goroutine is
  my,       \* the connection it works with
  budget,   \* what is left of reconnectAttempts
  outcome,  \* how its call ended
  ended,    \* calls whose own context is done
  expired,  \* calls whose timeout has elapsed
  wrote,    \* connections on which a call's frame was written
  dials,    \* dials made on behalf of each call
  closer,   \* where the goroutine that runs Close is
  closing   \* the connection it took

ctxVars  == <<ended, expired>>
connVars == <<dialed, up, shaken>>
histVars == <<wrote, dials>>
closeVars == <<closed, shut, closer, closing>>
vars == <<config, conn, hsFrom, mu, pc, my, budget, outcome,
          ctxVars, connVars, histVars, closeVars>>

Init == /\ config \in Configs
        /\ closed = FALSE /\ shut = FALSE
        /\ conn = None
        /\ hsFrom = None
        /\ mu = None
        /\ dialed = 0
        /\ up = {}
        /\ shaken = [cn \in Conns |-> 0]
        /\ pc = [a \in Actors |-> IF a = Opener THEN "dial" ELSE "new"]
        /\ my = [a \in Actors |-> None]
        /\ budget = [c \in Calls |-> ReconnectAttempts]
        /\ outcome = [a \in Actors |-> "none"]
        /\ ended = {} /\ expired = {}
        /\ wrote = [c \in Calls |-> {}]
        /\ dials = [c \in Calls |-> 0]
        /\ closer = "idle"
        /\ closing = None

Goto(a, l) == pc' = [pc EXCEPT ![a] = l]

\* A call's deferred release and cancel, and its locks, go with it.
Return(a, r) == /\ Goto(a, "done")
                /\ outcome' = [outcome EXCEPT ![a] = r]
                /\ ended' = ended \ {a}
                /\ expired' = expired \ {a}
                /\ my' = [my EXCEPT ![a] = None]
                /\ mu' = IF mu = a THEN None ELSE mu

\* Calls that hold a permit of the gate.
InFlight == {c \in Calls : pc[c] \notin {"new", "gate", "done"}}

Live == conn # None /\ conn \in up
-----------------------------------------------------------------------------
(* CallWithTimeout *)

StartCall(c) == /\ pc[Opener] = "done" /\ outcome[Opener] = "answer"
                /\ pc[c] = "new"
                /\ Goto(c, "gate")
                /\ UNCHANGED <<config, conn, hsFrom, mu, my, budget, outcome,
                               ctxVars, connVars, histVars, closeVars>>

\* gate.acquire: see Admit and Refuse of InFlight.tla.  A limit below 1 is 1.
Admit(c) == /\ pc[c] = "gate"
            /\ ~shut
            /\ Cardinality(InFlight) < IF MaxInFlight < 1 THEN 1 ELSE MaxInFlight
            /\ Goto(c, "check")
            /\ UNCHANGED <<config, conn, hsFrom, mu, my, budget, outcome,
                           ctxVars, connVars, histVars, closeVars>>

Refuse(c) == /\ pc[c] = "gate"
             /\ \/ shut /\ Return(c, "closed")
                \/ c \in ended /\ Return(c, "ctx")
             /\ UNCHANGED <<config, conn, hsFrom, budget, connVars, histVars, closeVars>>

\* Fault: every resend starts with a fresh budget (RedialBudget fails).
WriteFailedRefills(c) == /\ budget' = [budget EXCEPT ![c] = ReconnectAttempts]
                         /\ Goto(c, "check")
                         /\ UNCHANGED <<my, mu, outcome, ctxVars>>

\* Fault: a resend is charged too, with no look at what is left (TypeOK fails).
WriteFailedUnchecked(c) == /\ budget' = [budget EXCEPT ![c] = @ - 1]
                           /\ Goto(c, "check")
                           /\ UNCHANGED <<my, mu, outcome, ctxVars>>

\* dispatchOnce gave writeFailed: out of budget, or once more through liveConn.
WriteFailed(c) == /\ IF budget[c] = 0
                       THEN Return(c, "conn")
                       ELSE Goto(c, "check") /\ UNCHANGED <<my, mu, outcome, ctxVars>>
                  /\ UNCHANGED budget

\* The call's own context ends, at the gate or later.
CtxDone(c) == /\ c \in Cancellable \ ended
              /\ pc[c] \notin {"new", "done"}
              /\ ended' = ended \cup {c}
              /\ UNCHANGED <<config, conn, hsFrom, mu, pc, my, budget, outcome, expired,
                             connVars, histVars, closeVars>>

\* The timeout's context is made after the permit is in hand.
TimerFires(c) == /\ c \in (Timed \cap InFlight) \ expired
                 /\ expired' = expired \cup {c}
                 /\ UNCHANGED <<config, conn, hsFrom, mu, pc, my, budget, outcome, ended,
                                connVars, histVars, closeVars>>
-----------------------------------------------------------------------------
(* liveConn *)

Check(c) == /\ pc[c] = "check"
            /\ IF closed THEN Return(c, "closed")
                         ELSE Goto(c, "peek") /\ UNCHANGED <<my, mu, outcome, ctxVars>>
            /\ UNCHANGED <<config, conn, hsFrom, budget, connVars, histVars, closeVars>>

Use(c, cn) == /\ my' = [my EXCEPT ![c] = cn]
              /\ Goto(c, "register")

\* Reading c.conn and asking it isAlive: a connection never comes back to life.
Peek(c) == /\ pc[c] = "peek"
           /\ IF Live THEN Use(c, conn) ELSE Goto(c, "lock") /\ UNCHANGED my
           /\ UNCHANGED <<config, conn, hsFrom, mu, budget, outcome,
                          ctxVars, connVars, histVars, closeVars>>

Lock(c) == /\ pc[c] = "lock"
           /\ mu = None
           /\ mu' = c
           /\ Goto(c, "recheck")
           /\ UNCHANGED <<config, conn, hsFrom, my, budget, outcome,
                          ctxVars, connVars, histVars, closeVars>>

Recheck(c) == /\ pc[c] = "recheck"
              /\ IF closed THEN Return(c, "closed")
                           ELSE Goto(c, "repeek") /\ UNCHANGED <<my, mu, outcome, ctxVars>>
              /\ UNCHANGED <<config, conn, hsFrom, budget, connVars, histVars, closeVars>>

\* Fault: no second look at the connection under the lock (OneLiveConn fails).
RepeekBlind(c) == /\ pc[c] = "repeek"
                  /\ Goto(c, "dial")
                  /\ UNCHANGED <<config, conn, hsFrom, mu, my, budget, outcome,
                                 ctxVars, connVars, histVars, closeVars>>

\* Another caller may have reconnected while this one waited for the lock.
Repeek(c) == /\ pc[c] = "repeek"
             /\ IF Live THEN Use(c, conn) /\ mu' = None
                        ELSE Goto(c, "dial") /\ UNCHANGED <<my, mu>>
             /\ UNCHANGED <<config, conn, hsFrom, budget, outcome,
                            ctxVars, connVars, histVars, closeVars>>

\* One attempt failed: an auth rejection is final, anything else is retried
\* after a backoff while the budget lasts (b: what is left).  Connect does not
\* retry.
AttemptFails(a, e, b) == IF a = Opener \/ e = "auth" \/ b = 0
                           THEN Return(a, e)
                           ELSE /\ Goto(a, "dial")
                                /\ my' = [my EXCEPT ![a] = None]
                                /\ UNCHANGED <<mu, outcome, ctxVars>>

\* c.conn = newCn, whatever has happened to the client meanwhile.
Publish(a) == /\ pc[a] = "publish"
              /\ conn' = my[a]
              /\ IF a = Opener
                   THEN Return(a, "answer")
                   ELSE /\ Goto(a, "register")
                        /\ mu' = None
                        /\ UNCHANGED <<my, outcome, ctxVars>>
              /\ UNCHANGED <<config, hsFrom, budget, connVars, histVars, closeVars>>
-----------------------------------------------------------------------------
(* establish and runHandshake *)

\* The commands the handshake sends, in order.
Plan == CASE config.handshake = "none" -> <<>>
          [] config.handshake = "auth_command" ->
               IF config.creds = "nil" THEN <<>>
               ELSE IF config.hello = "arg_less" THEN <<"HELLO", "AUTH">> ELSE <<"AUTH">>
          [] config.handshake = "hello_mandatory" -> <<"HELLO">>

\* User and password cannot travel in a HELLO map: refused before any frame.
Unsendable == config.handshake = "hello_mandatory" /\ config.creds = "userpass"

\* A call pays for the attempt before it is made.
Left(a) == IF a = Opener THEN 0 ELSE budget[a] - 1
Pay(a)  == IF a = Opener THEN UNCHANGED <<budget, dials>>
           ELSE /\ budget[a] > 0
                /\ budget' = [budget EXCEPT ![a] = Left(a)]
                /\ dials' = [dials EXCEPT ![a] = @ + 1]

DialOK(a) == /\ pc[a] = "dial"
             /\ dialed < MaxConns
             /\ Pay(a)
             /\ dialed' = dialed + 1
             /\ up' = up \cup {dialed + 1}
             /\ my' = [my EXCEPT ![a] = dialed + 1]
             /\ Goto(a, "shake")
             /\ UNCHANGED <<config, conn, hsFrom, mu, outcome, ctxVars, shaken, wrote, closeVars>>

DialFails(a) == /\ pc[a] = "dial"
                /\ Pay(a)
                /\ \E e \in {"conn", "timeout"} : AttemptFails(a, e, Left(a))
                /\ UNCHANGED <<config, conn, hsFrom, connVars, wrote, closeVars>>

Shaking(a) == pc[a] = "shake" /\ ~Unsendable /\ shaken[my[a]] < Len(Plan)

\* The server accepts the next command of the plan.
ShakeOK(a) == /\ Shaking(a)
              /\ my[a] \in up
              /\ shaken' = [shaken EXCEPT ![my[a]] = @ + 1]
              /\ UNCHANGED <<config, conn, hsFrom, mu, pc, my, budget, outcome,
                             ctxVars, dialed, up, histVars, closeVars>>

\* Fault: the handshake is taken for done after any reply (HandshakeFirst fails).
ShakeDoneEarly(a) == /\ pc[a] = "shake" /\ ~Unsendable
                     /\ hsFrom' = my[a]
                     /\ Goto(a, "publish")
                     /\ UNCHANGED <<config, conn, mu, my, budget, outcome,
                                    ctxVars, connVars, histVars, closeVars>>

\* Fault: a reconnection does not renew the handshake info (InfoOfLiveConn fails).
ShakeDoneSilent(a) == /\ pc[a] = "shake" /\ ~Unsendable
                      /\ shaken[my[a]] = Len(Plan)
                      /\ hsFrom' = IF a = Opener THEN my[a] ELSE hsFrom
                      /\ Goto(a, "publish")
                      /\ UNCHANGED <<config, conn, mu, my, budget, outcome,
                                     ctxVars, connVars, histVars, closeVars>>

\* setHandshakeInfo; nobody looks whether the connection is still alive.
ShakeDone(a) == /\ pc[a] = "shake" /\ ~Unsendable
                /\ shaken[my[a]] = Len(Plan)
                /\ hsFrom' = my[a]
                /\ Goto(a, "publish")
                /\ UNCHANGED <<config, conn, mu, my, budget, outcome,
                               ctxVars, connVars, histVars, closeVars>>

\* Fault: handshake round-trips without their deadline (AdmittedReturns fails).
ShakeErrorNoDeadline(a, e) == \/ e = "auth" /\ pc[a] = "shake" /\ Unsendable
                              \/ e = "auth" /\ Shaking(a) /\ my[a] \in up
                              \/ e = "conn" /\ Shaking(a) /\ my[a] \notin up

\* Refused locally or by the server, broken off, or timed out: the connection
\* is killed, then the attempt has failed.
ShakeError(a, e) == \/ e = "auth"    /\ pc[a] = "shake" /\ Unsendable
                    \/ e = "auth"    /\ Shaking(a) /\ my[a] \in up
                    \/ e = "conn"    /\ Shaking(a) /\ my[a] \notin up
                    \/ e = "timeout" /\ Shaking(a) /\ config.deadline

ShakeFails(a, e) == /\ ShakeError(a, e)
                    /\ up' = up \ {my[a]}
                    /\ AttemptFails(a, e, IF a = Opener THEN 0 ELSE budget[a])
                    /\ UNCHANGED <<config, conn, hsFrom, budget, dialed, shaken,
                                   histVars, closeVars>>
-----------------------------------------------------------------------------
(* dispatchOnce: see Dispatch.tla *)

\* Fault: registered without a look at alive (UsesDispatch fails).
RegisterBlind(c) == /\ pc[c] = "register"
                    /\ Goto(c, "write")
                    /\ UNCHANGED <<config, conn, hsFrom, mu, my, budget, outcome,
                                   ctxVars, connVars, histVars, closeVars>>

Register(c) == /\ pc[c] = "register"
               /\ IF my[c] \in up
                    THEN Goto(c, "write") /\ UNCHANGED <<my, mu, budget, outcome, ctxVars>>
                    ELSE WriteFailed(c)
               /\ UNCHANGED <<config, conn, hsFrom, connVars, histVars, closeVars>>

\* The write may still succeed on a connection that has just died.
WriteOK(c) == /\ pc[c] = "write"
              /\ wrote' = [wrote EXCEPT ![c] = @ \cup {my[c]}]
              /\ Goto(c, "await")
              /\ UNCHANGED <<config, conn, hsFrom, mu, my, budget, outcome,
                             ctxVars, connVars, dials, closeVars>>

\* The entry is deleted, the connection killed, and the loop hears of it.
WriteErr(c) == /\ pc[c] = "write"
               /\ Goto(c, "kill")
               /\ UNCHANGED <<config, conn, hsFrom, mu, my, budget, outcome,
                              ctxVars, connVars, histVars, closeVars>>

Kill(c) == /\ pc[c] = "kill"
           /\ up' = up \ {my[c]}
           /\ Goto(c, "failed")
           /\ UNCHANGED <<config, conn, hsFrom, mu, my, budget, outcome,
                          ctxVars, dialed, shaken, histVars, closeVars>>

Resend(c) == /\ pc[c] = "failed"
             /\ WriteFailed(c)
             /\ UNCHANGED <<config, conn, hsFrom, connVars, histVars, closeVars>>

\* The reader puts the answer on the waiter's channel; it stays there if the
\* connection dies before the call has taken it.
Answered(c) == /\ pc[c] = "await"
               /\ my[c] \in up
               /\ Goto(c, "answered")
               /\ UNCHANGED <<config, conn, hsFrom, mu, my, budget, outcome,
                              ctxVars, connVars, histVars, closeVars>>

\* What the select may find: a result on the channel, or the end of the context.
Result(c, r) == \/ r = "answer"  /\ pc[c] = "answered"
                \/ r = "conn"    /\ pc[c] = "await" /\ my[c] \notin up
                \/ r = "ctx"     /\ c \in ended
                \/ r = "timeout" /\ c \in expired

\* Fault: a call that lost its connection is sent again (NoReplay fails).
AwaitResends(c, r) == /\ pc[c] \in {"await", "answered"}
                      /\ Result(c, r)
                      /\ IF r = "conn" THEN WriteFailed(c) ELSE Return(c, r) /\ UNCHANGED budget
                      /\ UNCHANGED <<config, conn, hsFrom, connVars, histVars, closeVars>>

Await(c, r) == /\ pc[c] \in {"await", "answered"}
               /\ Result(c, r)
               /\ Return(c, r)
               /\ UNCHANGED <<config, conn, hsFrom, budget, connVars, histVars, closeVars>>

\* The reader of a connection finds it dead.
ConnDies(cn) == /\ cn \in up
                /\ up' = up \ {cn}
                /\ UNCHANGED <<config, conn, hsFrom, mu, pc, my, budget, outcome,
                               ctxVars, dialed, shaken, histVars, closeVars>>
-----------------------------------------------------------------------------
(* Close *)

CloseMark == /\ closer = "idle" /\ pc[Opener] = "done" /\ outcome[Opener] = "answer"
             /\ closed' = TRUE
             /\ closer' = "gate"
             /\ UNCHANGED <<config, conn, hsFrom, mu, pc, my, budget, outcome,
                            ctxVars, connVars, histVars, shut, closing>>

CloseGate == /\ closer = "gate"
             /\ shut' = TRUE
             /\ closer' = "swap"
             /\ UNCHANGED <<config, conn, hsFrom, mu, pc, my, budget, outcome,
                            ctxVars, connVars, histVars, closed, closing>>

CloseSwap == /\ closer = "swap"
             /\ closing' = conn
             /\ conn' = None
             /\ closer' = "kill"
             /\ UNCHANGED <<config, hsFrom, mu, pc, my, budget, outcome,
                            ctxVars, connVars, histVars, closed, shut>>

CloseKill == /\ closer = "kill"
             /\ up' = up \ {closing}
             /\ closing' = None
             /\ closer' = "done"
             /\ UNCHANGED <<config, conn, hsFrom, mu, pc, my, budget, outcome,
                            ctxVars, dialed, shaken, histVars, closed, shut>>

Close == CloseMark \/ CloseGate \/ CloseSwap \/ CloseKill
-----------------------------------------------------------------------------
Establish(a) == \/ DialOK(a) \/ DialFails(a) \/ ShakeDone(a)
                \/ ShakeOK(a) \/ Publish(a)
                \/ \E e \in {"auth", "conn", "timeout"} : ShakeFails(a, e)

LiveConn(c) == Check(c) \/ Peek(c) \/ Recheck(c) \/ Repeek(c)

DispatchOnce(c) == \/ Register(c) \/ WriteOK(c) \/ WriteErr(c)
                   \/ Kill(c) \/ Resend(c) \/ Answered(c)
                   \/ \E r \in {"answer", "conn", "ctx", "timeout"} : Await(c, r)

Next == \/ \E c \in Calls : \/ StartCall(c) \/ Admit(c) \/ Refuse(c) \/ Lock(c)
                            \/ LiveConn(c) \/ DispatchOnce(c)
                            \/ CtxDone(c) \/ TimerFires(c)
        \/ \E a \in Actors : Establish(a)
        \/ \E cn \in Conns : ConnDies(cn)
        \/ Close

Spec == Init /\ [][Next]_vars

(***************************************************************************)
(* Fairness.  Runnable goroutines run and a mutex is not withheld for ever *)
(* from one of them; timers fire; a dial returns (DialTimeout); a call     *)
(* hears that its connection died (Dispatch); a handshake command whose    *)
(* deadline is set does not outlive it.  The server need not answer or     *)
(* accept anything, but it reads: writes return (Mux.tla shows what        *)
(* happens otherwise).  Close is not assumed to be called.                 *)
(***************************************************************************)
Fairness == /\ \A c \in Calls :
                 /\ WF_vars(Admit(c) \/ Refuse(c))
                 /\ SF_vars(Lock(c))
                 /\ WF_vars(LiveConn(c))
                 /\ WF_vars(Register(c) \/ WriteOK(c) \/ WriteErr(c) \/ Kill(c) \/ Resend(c))
                 /\ WF_vars(\E r \in {"answer", "conn", "ctx", "timeout"} : Await(c, r))
                 /\ WF_vars(TimerFires(c))
            /\ \A a \in Actors :
                 /\ WF_vars(DialOK(a) \/ DialFails(a))
                 /\ WF_vars(ShakeDone(a) \/ Publish(a))
                 /\ WF_vars(\E e \in {"conn", "timeout"} : ShakeFails(a, e))
                 /\ WF_vars(Unsendable /\ ShakeFails(a, "auth"))

FairSpec == Spec /\ Fairness
-----------------------------------------------------------------------------
Places   == {"new", "gate", "check", "peek", "lock", "recheck", "repeek", "dial",
             "shake", "publish", "register", "write", "kill", "failed", "await",
             "answered", "done"}
Outcomes == {"none", "answer", "closed", "ctx", "auth", "conn", "timeout"}

\* Every variable stays in its type.
TypeOK == /\ config \in Configs
          /\ closed \in BOOLEAN /\ shut \in BOOLEAN
          /\ conn \in Conns \cup {None}
          /\ hsFrom \in Conns \cup {None}
          /\ mu \in Calls \cup {None}
          /\ dialed \in 0..MaxConns
          /\ up \subseteq 1..dialed
          /\ shaken \in [Conns -> 0..2]
          /\ pc \in [Actors -> Places]
          /\ my \in [Actors -> Conns \cup {None}]
          /\ budget \in [Calls -> 0..ReconnectAttempts]
          /\ outcome \in [Actors -> Outcomes]
          /\ ended \subseteq Calls /\ expired \subseteq Calls
          /\ wrote \in [Calls -> SUBSET Conns]
          /\ dials \in [Calls -> Nat]
          /\ closer \in {"idle", "gate", "swap", "kill", "done"}
          /\ closing \in Conns \cup {None}

\* CLT-031: the frame of a call reaches the wire of one connection at most; the
\* resend of client.go:183-188 is never a replay.
NoReplay == \A c \in Calls : \A cn, dn \in wrote[c] : cn = dn

\* CLT-002: a user call only travels on a connection whose whole handshake has
\* been accepted, on the first connection as on any later one.
HandshakeFirst == \A c \in Calls : \A cn \in wrote[c] :
                    shaken[cn] = Len(Plan) /\ ~Unsendable

\* However many calls find the connection dead at once, a client that is not
\* being closed has one living connection at most (client.go:302-313).
OneLiveConn == ~closed => \A cn, dn \in up : cn = dn

\* CLT-003: IsAuthenticated and HandshakeInfo speak of the connection in use,
\* though they are written under a lock of their own (client.go:366, :335).
InfoOfLiveConn == Live => hsFrom = conn

\* CLT-030: a call dials twice at most, over all its trips through liveConn.
RedialBudget == \A c \in Calls : dials[c] <= ReconnectAttempts

\* A call with a timeout that has its permit returns, whoever else is
\* reconnecting and whatever the server withholds, if the handshake has a
\* deadline (client.go:170-191, handshake.go:25).
AdmittedReturns == \A c \in Timed :
                     (c \in InFlight /\ config.deadline) ~> pc[c] = "done"

\* client.go:156, "one call bounded by timeout": does not hold while the call
\* waits for its permit, which only the caller's own context bounds.
TimeoutBoundsCall == \A c \in Timed : pc[c] = "gate" ~> pc[c] = "done"

\* client.go:203-204, Close "shuts the socket down": does not hold when a call
\* is reconnecting, which publishes its connection after Close took the old one.
CloseShutsSocket == closer = "done" /\ InFlight = {} => up = {}
=============================================================================
