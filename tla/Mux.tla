-------------------------------- MODULE Mux --------------------------------
(***************************************************************************)
(* client/client.go, one connection: the conn struct, allocID,             *)
(* dispatchOnce, readerLoop, poison and kill, at the grain of their        *)
(* critical sections and channel operations.                               *)
(*                                                                         *)
(* Each member of Calls is one run of dispatchOnce on this connection.     *)
(* The reader goroutine, every call whose write failed and one more        *)
(* goroutine (Client.Close, or establish after a failed handshake) may     *)
(* run kill, all at the same time.  The server answers what it received,   *)
(* in any order, or not at all; it may repeat an answer, push, send frames *)
(* that do not decode, stop reading, or go away.                           *)
(***************************************************************************)
EXTENDS Integers, FiniteSets

CONSTANTS Calls,       \* runs of dispatchOnce
          Reader,      \* the goroutine of readerLoop
          Closer,      \* the goroutine of Close (or of establish)
          None,        \* no call
          IdSpace,     \* number of request ids: 2^32 in the code
          FirstIDs,    \* values of Client.nextID when the connection opens
          PushPolicies,\* subset of {"enabled", "reserved"}: Config.Push
          BadFrames,   \* subset of {"too_large", "decode"}: malformed frames it may send
          MaxDup,      \* bound: repeated answers
          MayStall,    \* the peer may stop reading
          Timed,       \* calls whose context can end; the others have Background and no timeout
          Hooked       \* calls the push hook may make

Killers == Calls \cup {Reader, Closer}
Ids     == 0..(IdSpace - 1)
PushID  == IdSpace - 1

\* The errors given to kill, by where they are made.
Errs == {"lost", "write_failed", "decode", "too_large", "reserved_push", "closed"}

ASSUME MuxAssumption ==
         /\ IdSpace \in Nat /\ IdSpace > 1
         /\ FirstIDs \subseteq Ids
         /\ PushPolicies \subseteq {"enabled", "reserved"}
         /\ BadFrames \subseteq {"too_large", "decode"}
         /\ MaxDup \in Nat
         /\ MayStall \in BOOLEAN
         /\ Timed \subseteq Calls /\ Hooked \subseteq Calls
         /\ IsFiniteSet(Calls)
         /\ Reader # Closer /\ Reader \notin Calls /\ Closer \notin Calls
         /\ None \notin Killers

VARIABLES
  nextID,    \* Client.nextID
  push,      \* Config.Push
  alive,     \* conn.alive
  pending,   \* conn.pending: id -> waiting call
  writeMu,   \* holder of conn.writeMu
  sock,      \* our end: "open", "broken" (an operation failed), "closed"
  peer,      \* the server: "up", "stalled" (does not read), "gone"
  pc,        \* where each call is in dispatchOnce
  id,        \* its request id
  ch,        \* its waiter's channel, of capacity one
  outcome,   \* what it returned
  ctxDone,   \* calls whose context is done
  rpc,       \* where the reader is
  frame,     \* the frame it has read: id and the call it answers
  hand,      \* the waiter it took out of pending
  hook,      \* the call the push hook made last, while it runs
  kpc,       \* where each goroutine is in kill
  kerr,      \* the error it kills with
  drained,   \* the waiters its poison took
  got,       \* calls whose request reached the server
  answered,  \* calls whose answer the reader has read
  dups,      \* repeated answers so far
  lost       \* calls whose answer was thrown away

callVars == <<pc, id, outcome>>
ioVars   == <<writeMu, sock, peer, got>>
routeVars == <<rpc, frame, hand, answered, dups, lost>>
readVars == <<routeVars, hook>>
killVars == <<kpc, kerr, drained>>
vars == <<nextID, push, alive, pending, ch, ctxDone,
          callVars, ioVars, readVars, killVars>>

Empty    == [of |-> None, err |-> "none"]
Reply(c) == [of |-> c, err |-> "none"]
Error(e) == [of |-> None, err |-> e]
Results  == {Reply(c) : c \in Calls} \cup {Error(e) : e \in Errs}
Gone     == {Error("ctx"), Error("resend")}
NoFrame  == [id |-> 0, of |-> None]

Init == /\ nextID \in FirstIDs
        /\ push \in PushPolicies
        /\ alive = TRUE
        /\ pending = [i \in Ids |-> None]
        /\ writeMu = None
        /\ sock = "open"
        /\ peer = "up"
        /\ pc = [c \in Calls |-> "new"]
        /\ id = [c \in Calls |-> 0]
        /\ ch = [c \in Calls |-> Empty]
        /\ outcome = [c \in Calls |-> Empty]
        /\ ctxDone = {}
        /\ rpc = "read"
        /\ frame = NoFrame
        /\ hand = None
        /\ hook = None
        /\ kpc = [k \in Killers |-> "idle"]
        /\ kerr = [k \in Killers |-> "none"]
        /\ drained = [k \in Killers |-> {}]
        /\ got = {}
        /\ answered = {}
        /\ dups = 0
        /\ lost = {}

Goto(c, l) == pc' = [pc EXCEPT ![c] = l]

\* The deferred cancel drops the call's context.
Return(c, r) == /\ Goto(c, "done")
                /\ outcome' = [outcome EXCEPT ![c] = r]
                /\ ctxDone' = ctxDone \ {c}

\* kill(e) called by k: poison comes first.
StartKill(k, e) == /\ kpc' = [kpc EXCEPT ![k] = "poison"]
                   /\ kerr' = [kerr EXCEPT ![k] = e]
                   /\ UNCHANGED drained
-----------------------------------------------------------------------------
(* dispatchOnce *)

\* Fault: PushID is handed out like any other id (TypeOK, LostOnlyIfGone fail).
AllocIDNoSkip == nextID

\* allocID: the counter wraps, and PushID is never handed out.  It is the Client's, for
\* all its connections and their handshakes: a call that takes its id for another one is
\* here a member of Calls that begins and goes no further.
AllocID == IF nextID = PushID THEN (nextID + 1) % IdSpace ELSE nextID

\* Fault: the counter is read but not advanced (RightAnswer fails).
BeginSameID(c) == /\ pc[c] = "new"
                  /\ id' = [id EXCEPT ![c] = AllocID]
                  /\ Goto(c, "register")
                  /\ UNCHANGED <<nextID, push, alive, pending, ch, ctxDone, outcome,
                                 ioVars, killVars>>

Begin(c) == /\ pc[c] = "new"
            /\ id' = [id EXCEPT ![c] = AllocID]
            /\ nextID' = (AllocID + 1) % IdSpace
            /\ Goto(c, "register")
            /\ UNCHANGED <<push, alive, pending, ch, ctxDone, outcome,
                           ioVars, killVars>>

StartCall(c) == Begin(c) /\ UNCHANGED readVars

\* Fault: inserted without asking whether the connection is alive
\* (NoLostWaiter, SameTypedError fail).
RegisterUnchecked(c) == /\ pc[c] = "register"
                        /\ pending' = [pending EXCEPT ![id[c]] = c]
                        /\ Goto(c, "lock")
                        /\ UNCHANGED <<nextID, push, alive, ch, ctxDone, id, outcome,
                                       ioVars, readVars, killVars>>

\* Liveness check and insertion in one critical section of conn.mu.
Register(c) == /\ pc[c] = "register"
               /\ IF alive
                    THEN /\ pending' = [pending EXCEPT ![id[c]] = c]
                         /\ Goto(c, "lock")
                         /\ UNCHANGED <<outcome, ctxDone>>
                    ELSE Return(c, Error("resend")) /\ UNCHANGED pending
               /\ UNCHANGED <<nextID, push, alive, ch, id,
                              ioVars, readVars, killVars>>

LockWrite(c) == /\ pc[c] = "lock"
                /\ writeMu = None
                /\ writeMu' = c
                /\ Goto(c, "write")
                /\ UNCHANGED <<nextID, push, alive, pending, ch, ctxDone, id, outcome,
                               sock, peer, got, readVars, killVars>>

\* The whole frame is handed to the kernel; a peer that is gone never sees it.
WriteOK(c) == /\ pc[c] = "write"
              /\ sock = "open" /\ peer # "stalled"
              /\ got' = IF peer = "up" THEN got \cup {c} ELSE got
              /\ writeMu' = None
              /\ Goto(c, "await")
              /\ UNCHANGED <<nextID, push, alive, pending, ch, ctxDone, id, outcome,
                             sock, peer, readVars, killVars>>

\* The write fails; the connection stays unusable for every later write.
WriteErr(c) == /\ pc[c] = "write"
               /\ sock # "open" \/ peer = "gone"
               /\ sock' = IF sock = "open" THEN "broken" ELSE sock
               /\ writeMu' = None
               /\ Goto(c, "unregister")
               /\ UNCHANGED <<nextID, push, alive, pending, ch, ctxDone, id, outcome,
                              peer, got, readVars, killVars>>

\* delete(cn.pending, id), whatever is there.
Unregister(c) == /\ pc[c] = "unregister"
                 /\ pending' = [pending EXCEPT ![id[c]] = None]
                 /\ Goto(c, "kill")
                 /\ StartKill(c, "write_failed")
                 /\ UNCHANGED <<nextID, push, alive, ch, ctxDone, id, outcome,
                                ioVars, readVars>>

\* The select of dispatchOnce: either ready case may be chosen.
Receive(c) == /\ pc[c] = "await"
              /\ ch[c] # Empty
              /\ ch' = [ch EXCEPT ![c] = Empty]
              /\ Return(c, ch[c])
              /\ UNCHANGED <<nextID, push, alive, pending, id,
                             ioVars, readVars, killVars>>

\* Fault: the select has lost its ctx.Done() case (AwaitIsBounded fails).
ExpireUnheard(c) == /\ pc[c] = "await" /\ c \notin Timed
                    /\ c \in ctxDone
                    /\ Goto(c, "forget")
                    /\ UNCHANGED <<nextID, push, alive, pending, ch, ctxDone, id, outcome,
                                   ioVars, readVars, killVars>>

Expire(c) == /\ pc[c] = "await"
             /\ c \in ctxDone
             /\ Goto(c, "forget")
             /\ UNCHANGED <<nextID, push, alive, pending, ch, ctxDone, id, outcome,
                            ioVars, readVars, killVars>>

\* Fault: the entry stays in the table after a timeout (NoPendingLeak fails).
ForgetKeeps(c) == /\ pc[c] = "forget"
                  /\ Return(c, Error("ctx"))
                  /\ UNCHANGED <<nextID, push, alive, pending, ch, id,
                                 ioVars, readVars, killVars>>

Forget(c) == /\ pc[c] = "forget"
             /\ pending' = [pending EXCEPT ![id[c]] = None]
             /\ Return(c, Error("ctx"))
             /\ UNCHANGED <<nextID, push, alive, ch, id,
                            ioVars, readVars, killVars>>

\* The context ends.
CtxDone(c) == /\ c \in Timed \ ctxDone
              /\ pc[c] \notin {"new", "done"}
              /\ ctxDone' = ctxDone \cup {c}
              /\ UNCHANGED <<nextID, push, alive, pending, ch, callVars,
                             ioVars, readVars, killVars>>
-----------------------------------------------------------------------------
(* readerLoop *)

ReadFrame(f) == /\ rpc = "read"
                /\ sock = "open"
                /\ frame' = f
                /\ rpc' = "route"
                /\ UNCHANGED <<nextID, push, alive, pending, ch, ctxDone, hand, hook, lost,
                               callVars, ioVars, killVars>>

ReadResp == \E c \in got \ answered :
              /\ ReadFrame([id |-> id[c], of |-> c])
              /\ answered' = answered \cup {c}
              /\ UNCHANGED dups

\* An answer the server repeats: its id is no longer known.
ReadDup == /\ dups < MaxDup
           /\ \E c \in answered : ReadFrame([id |-> id[c], of |-> None])
           /\ dups' = dups + 1
           /\ UNCHANGED answered

ReadPush == /\ ReadFrame([id |-> PushID, of |-> None])
            /\ UNCHANGED <<answered, dups>>

ReaderFails(e) == /\ rpc' = "kill"
                  /\ frame' = NoFrame
                  /\ StartKill(Reader, e)
                  /\ UNCHANGED <<nextID, push, alive, pending, ch, ctxDone, hand, hook,
                                 answered, dups, lost, callVars, ioVars>>

\* A length over the cap, or a body that is not a response.
BadFrame == /\ rpc = "read" /\ sock = "open"
            /\ \E e \in BadFrames : ReaderFails(e)

\* Fault: the end of the stream just ends the reader (DeathIsNoticed fails).
ReadErrQuiet == /\ rpc = "read" /\ (sock # "open" \/ peer = "gone")
                /\ rpc' = "kill"
                /\ UNCHANGED <<nextID, push, alive, pending, ch, ctxDone, frame, hand, hook,
                               answered, dups, lost, callVars, ioVars, killVars>>

\* io.ReadFull returns an error: end of stream, reset, or our own Close.
ReadErr == /\ rpc = "read" /\ (sock # "open" \/ peer = "gone")
           /\ ReaderFails("lost")

\* A push frame goes to the hook, if there is one and the frame is not an error,
\* and is never matched against pending.
PushFrame == /\ rpc = "route" /\ frame.id = PushID /\ push = "enabled"
             /\ rpc' \in {"read", "hook"}
             /\ frame' = NoFrame
             /\ lost' = lost \cup ({frame.of} \cap Calls)
             /\ UNCHANGED <<nextID, push, alive, pending, ch, ctxDone, hand, hook,
                            answered, dups, callVars, ioVars, killVars>>

\* The hook has no call of its own under way.
HookIdle == rpc = "hook" /\ \A c \in Calls : c = hook => pc[c] = "done"

\* Fault: the hook has a goroutine of its own (HookCallUnanswered fails).
HookCallSpawned(c) == /\ HookIdle /\ c \in Hooked
                      /\ Begin(c)
                      /\ hook' = c
                      /\ rpc' = "read"
                      /\ UNCHANGED <<frame, hand, answered, dups, lost>>

\* The hook runs on the reader's goroutine, and may call the same client.
HookCall(c) == /\ HookIdle /\ c \in Hooked
               /\ Begin(c)
               /\ hook' = c
               /\ UNCHANGED routeVars

\* It returns, or panics and is recovered.
HookReturns == /\ HookIdle
               /\ rpc' = "read"
               /\ hook' = None
               /\ UNCHANGED <<nextID, push, alive, pending, ch, ctxDone, frame, hand,
                              answered, dups, lost, callVars, ioVars, killVars>>

ReservedPush == /\ rpc = "route" /\ frame.id = PushID /\ push = "reserved"
                /\ ReaderFails("reserved_push")

\* Fault: the entry is looked up but not deleted (SendsOnce fails).
DemuxKeeps == /\ rpc = "route" /\ frame.id # PushID
              /\ hand' = pending[frame.id]
              /\ IF pending[frame.id] # None
                   THEN rpc' = "send" /\ UNCHANGED <<frame, lost>>
                   ELSE /\ rpc' = "read"
                        /\ frame' = NoFrame
                        /\ lost' = lost \cup ({frame.of} \cap Calls)
              /\ UNCHANGED <<nextID, push, alive, pending, ch, ctxDone, hook, answered, dups,
                             callVars, ioVars, killVars>>

\* Lookup and delete in one critical section; an unknown id is dropped.
Demux == /\ rpc = "route" /\ frame.id # PushID
         /\ hand' = pending[frame.id]
         /\ pending' = [pending EXCEPT ![frame.id] = None]
         /\ IF pending[frame.id] # None
              THEN rpc' = "send" /\ UNCHANGED <<frame, lost>>
              ELSE /\ rpc' = "read"
                   /\ frame' = NoFrame
                   /\ lost' = lost \cup ({frame.of} \cap Calls)
         /\ UNCHANGED <<nextID, push, alive, ch, ctxDone, hook, answered, dups,
                        callVars, ioVars, killVars>>

\* w.ch <- result: would block on a full channel.
Deliver == /\ rpc = "send"
           /\ ch[hand] = Empty
           /\ ch' = [ch EXCEPT ![hand] = [of |-> frame.of, err |-> "none"]]
           /\ hand' = None
           /\ frame' = NoFrame
           /\ rpc' = "read"
           /\ UNCHANGED <<nextID, push, alive, pending, ctxDone, hook, answered, dups, lost,
                          callVars, ioVars, killVars>>
-----------------------------------------------------------------------------
(* kill *)

\* Fault: the table is drained but the connection not marked dead
\* (ImplementsDispatch fails).
KillPoisonLeavesAlive(k) ==
  /\ kpc[k] = "poison"
  /\ drained' = [drained EXCEPT ![k] = {pending[i] : i \in Ids} \ {None}]
  /\ pending' = [i \in Ids |-> None]
  /\ kpc' = [kpc EXCEPT ![k] = "send"]
  /\ UNCHANGED <<nextID, push, alive, ch, ctxDone, kerr, callVars, ioVars, readVars>>

\* poison: mark dead and take the whole table in one critical section.
KillPoison(k) == /\ kpc[k] = "poison"
                 /\ alive' = FALSE
                 /\ drained' = [drained EXCEPT ![k] = {pending[i] : i \in Ids} \ {None}]
                 /\ pending' = [i \in Ids |-> None]
                 /\ kpc' = [kpc EXCEPT ![k] = "send"]
                 /\ UNCHANGED <<nextID, push, ch, ctxDone, kerr, callVars, ioVars, readVars>>

\* One send per drained waiter, in the random order of a map range.
KillSend(k) == /\ kpc[k] = "send"
               /\ \E w \in drained[k] :
                    /\ ch[w] = Empty
                    /\ ch' = [ch EXCEPT ![w] = Error(kerr[k])]
                    /\ drained' = [drained EXCEPT ![k] = @ \ {w}]
               /\ UNCHANGED <<nextID, push, alive, pending, ctxDone, kpc, kerr,
                              callVars, ioVars, readVars>>

\* Fault: kill poisons but does not close the socket (DeathReleasesAll fails).
KillCloseLeavesSocket(k) ==
  /\ kpc[k] = "send" /\ drained[k] = {}
  /\ kpc' = [kpc EXCEPT ![k] = "done"]
  /\ kerr' = [kerr EXCEPT ![k] = "none"]
  /\ IF k \in Calls THEN Return(k, Error("resend"))
                    ELSE UNCHANGED <<pc, outcome, ctxDone>>
  /\ UNCHANGED <<nextID, push, alive, pending, ch, id, ioVars, drained, readVars>>

\* netConn.Close, after the sends; then the killer goes its own way.
KillClose(k) == /\ kpc[k] = "send" /\ drained[k] = {}
                /\ sock' = "closed"
                /\ kpc' = [kpc EXCEPT ![k] = "done"]
                /\ kerr' = [kerr EXCEPT ![k] = "none"]
                /\ IF k \in Calls THEN Return(k, Error("resend"))
                                  ELSE UNCHANGED <<pc, outcome, ctxDone>>
                /\ UNCHANGED <<nextID, push, alive, pending, ch, id, writeMu, peer, got,
                               drained, readVars>>

\* Client.Close, which has taken the connection out of the client.
StartClose == /\ kpc[Closer] = "idle"
              /\ StartKill(Closer, "closed")
              /\ UNCHANGED <<nextID, push, alive, pending, ch, ctxDone,
                             callVars, ioVars, readVars>>
-----------------------------------------------------------------------------
(* The peer *)

PeerChanges(p) == /\ peer' = p
                  /\ UNCHANGED <<nextID, push, alive, pending, ch, ctxDone, writeMu, sock, got,
                                 callVars, readVars, killVars>>

PeerStalls == MayStall /\ peer = "up" /\ PeerChanges("stalled")

PeerGoes == peer # "gone" /\ PeerChanges("gone")
-----------------------------------------------------------------------------
CallStep(c) == \/ Register(c) \/ WriteOK(c) \/ WriteErr(c) \/ Unregister(c)
               \/ Receive(c) \/ Expire(c) \/ Forget(c)

Read == ReadResp \/ ReadDup \/ ReadPush \/ BadFrame \/ ReadErr

Route == PushFrame \/ HookReturns \/ ReservedPush \/ Demux \/ Deliver

Kill(k) == KillPoison(k) \/ KillSend(k) \/ KillClose(k)

Next == \/ \E c \in Calls : \/ StartCall(c) \/ HookCall(c)
                            \/ LockWrite(c) \/ CallStep(c) \/ CtxDone(c)
        \/ Read \/ Route
        \/ \E k \in Killers : Kill(k)
        \/ StartClose \/ PeerStalls \/ PeerGoes

Spec == Init /\ [][Next]_vars

(***************************************************************************)
(* Fairness.  Runnable goroutines run, a mutex is not withheld for ever    *)
(* from one goroutine (Go's mutexes hand over to a starving waiter), timers*)
(* fire, a push hook that waits for nothing returns, and a read on a socket*)
(* that is dead returns an error sooner or later: what a server left behind*)
(* when it went is finite.  Nothing is assumed of the server: it need not  *)
(* answer, read, or ever go away.                                          *)
(***************************************************************************)
Fairness == /\ \A c \in Calls : WF_vars(CallStep(c)) /\ SF_vars(LockWrite(c))
            /\ \A c \in Timed : WF_vars(CtxDone(c))
            /\ SF_vars(ReadErr) /\ WF_vars(Route)
            /\ \A k \in Killers : WF_vars(Kill(k))

FairSpec == Spec /\ Fairness
-----------------------------------------------------------------------------
\* Every variable stays in its type.
TypeOK == /\ nextID \in Ids
          /\ push \in PushPolicies
          /\ alive \in BOOLEAN
          /\ pending \in [Ids -> Calls \cup {None}]
          /\ writeMu \in Calls \cup {None}
          /\ sock \in {"open", "broken", "closed"}
          /\ peer \in {"up", "stalled", "gone"}
          /\ pc \in [Calls -> {"new", "register", "lock", "write", "unregister",
                               "kill", "await", "forget", "done"}]
          /\ id \in [Calls -> Ids \ {PushID}]
          /\ ch \in [Calls -> Results \cup {Empty}]
          /\ outcome \in [Calls -> Results \cup {Empty} \cup Gone]
          /\ ctxDone \subseteq Calls
          /\ rpc \in {"read", "route", "hook", "send", "kill"}
          /\ frame \in [id : Ids, of : Calls \cup {None}]
          /\ {hand, hook} \subseteq Calls \cup {None}
          /\ kpc \in [Killers -> {"idle", "poison", "send", "done"}]
          /\ kerr \in [Killers -> Errs \cup {"none"}]
          /\ drained \in [Killers -> SUBSET Calls]
          /\ got \subseteq Calls
          /\ answered \subseteq Calls
          /\ dups \in 0..MaxDup
          /\ lost \subseteq Calls

Awaited(c) == pc[c] \in {"lock", "write", "await"}

One(b) == IF b THEN 1 ELSE 0

\* How many goroutines, counting the channel itself, hold a result for c or are
\* bound to send one: its entry in the table, the reader, the killers.
Senders(c) == Cardinality({i \in Ids : pending[i] = c})
              + One(hand = c)
              + Cardinality({k \in Killers : c \in drained[k]})
              + One(ch[c] # Empty \/ outcome[c] \in Results)

\* The reader or a poisoner sends on a waiter's channel, never both and never
\* twice (client.go:38): hence no send ever finds the channel full, and neither
\* the reader (:479) nor a killer (:79) blocks before the socket is closed.
SendsOnce == \A c \in Calls : Senders(c) <= 1

\* A call that is waiting will be sent something: it cannot slip between the
\* table and a connection that dies at the same time (client.go:382-391, :72-81),
\* as an entry in the table of a dead connection would.
NoLostWaiter == \A c \in Calls : Awaited(c) =>
                  Senders(c) >= 1 /\ \A i \in Ids : pending[i] = c => alive

\* A call gets the answer to its own request, whatever the order of the
\* answers and whoever timed out before (CLT-010).
RightAnswer == \A c \in Calls : \A r \in {ch[c], outcome[c]} :
                 r.of # None => r.of = c

\* CLT-014: the calls a connection fails all get the same error, even when the
\* reader, a writer and Close tear it down at once.
Failures == {ch[c].err : c \in Calls} \cup {outcome[c].err : c \in Calls}
SameTypedError == \A e, f \in Failures \cap Errs : e = f

\* CLT-020: a call that returned has left nothing in the table, where a late
\* answer would find it.
NoPendingLeak == \A c \in Calls : pc[c] = "done" => \A i \in Ids : pending[i] # c

\* CLT-013, CLT-060: an answer is thrown away only if its call has given up or
\* has been failed; in particular no id of a call is taken for a push.
LostOnlyIfGone == \A c \in lost : pc[c] \in {"forget", "done"} \/ ~alive

\* CLT-060, client.go:28 and :196: a call made from inside the push hook is never
\* answered, whatever the server does: the hook holds the reader, and the call can only
\* fail, by a death of the connection that somebody else notices or by its context.
HookCallUnanswered == hook # None =>
                        \A r \in {ch[hook], outcome[hook]} : r.of = None

\* What is asked of ids, which come round after IdSpace - 1 calls: while a call has its id,
\* from allocID (client.go:374) until dispatchOnce has no more use for it, no other call has it,
\* and until the call is answered the server sends under that id nothing but the answer.
HasId(c) == pc[c] \notin {"new", "kill", "done"}
IdsFresh == /\ \A c, d \in Calls : HasId(c) /\ HasId(d) /\ id[c] = id[d] => c = d
            /\ rpc = "route" => \A c \in Calls :
                 HasId(c) /\ id[c] = frame.id => frame.of = c \/ c \in answered

FreshSpec == Spec /\ []IdsFresh

\* The connection implements the promise of Dispatch.
Stage(c) == CASE pc[c] \in {"new", "register"}             -> "new"
              [] pc[c] \in {"lock", "write", "unregister"} -> "open"
              [] pc[c] \in {"await", "forget"}             -> "sent"
              [] pc[c] = "kill"                            -> "aborted"
              [] pc[c] = "done"                            -> "done"

\* The result of a waiter is settled when it leaves the table.
Word(r) == IF r.of # None THEN "answer" ELSE r.err
Slot(c) == CASE pc[c] \in {"kill", "done"}               -> "empty"
             [] pc[c] \notin {"kill", "done"} /\ ch[c] # Empty -> Word(ch[c])
             [] pc[c] \notin {"kill", "done"} /\ hand = c      -> "answer"
             [] OTHER -> LET ks == {k \in Killers : c \in drained[k]}
                         IN IF ks = {} THEN "empty" ELSE kerr[CHOOSE k \in ks : TRUE]

Promise == INSTANCE Dispatch WITH
             up   <- alive,
             st   <- [c \in Calls |-> Stage(c)],
             slot <- [c \in Calls |-> Slot(c)],
             out  <- [c \in Calls |-> Word(outcome[c])]
ImplementsDispatch == Promise!Spec

\* Once a connection is dead every call that uses it returns, also the ones
\* stuck in a write to a server that does not read: kill closes the socket and
\* nothing kill does before can block.
DeathReleasesAll == \A c \in Calls :
                      (~alive /\ pc[c] # "new") ~> pc[c] = "done"

\* CLT-014: a server that goes away is noticed and the connection declared dead, also
\* when the reader sits in a hook that waits for a call of its own, if that call is bounded.
DeathIsNoticed == peer = "gone" ~> ~alive

\* CLT-020: a call whose request is on the wire returns when its context ends.
AwaitIsBounded == \A c \in Calls : (pc[c] = "await" /\ c \in ctxDone) ~> pc[c] = "done"

\* client.go:156-157, "bounded by timeout" and "Cancelling ctx cancels the
\* call": does not hold while the call is in, or waits for, the write.
ContextBoundsCall == \A c \in Calls : (pc[c] # "new" /\ c \in ctxDone) ~> pc[c] = "done"
=============================================================================
