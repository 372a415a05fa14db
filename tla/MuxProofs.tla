----------------------------- MODULE MuxProofs -----------------------------
(***************************************************************************)
(* Theorems about Mux, for any number of calls, any first id, every fault  *)
(* of the peer and any interleaving of calls, reader and killers.          *)
(*                                                                         *)
(* Two invariants.  CoreInv needs nothing of the ids: that a waiter is in  *)
(* one place, that a call gone from dispatchOnce is gone from the table,   *)
(* and that one error is all anybody hears of.  AnswerInv is about answers *)
(* and needs IdsFresh, that an id which comes round again is free by then: *)
(* allocID wraps, and the run v_id_reuse shows what becomes of two calls   *)
(* that share an id.  Under FreshSpec the connection implements Dispatch,  *)
(* however often the counter wraps.  Nothing of this has to be assumed if  *)
(* there are fewer calls than ids (FewCallsAreFresh).                      *)
(***************************************************************************)
EXTENDS Mux, FiniteSetTheorems, TLAPS

-----------------------------------------------------------------------------
(* The invariant, whatever the ids *)

\* Past the insertion into the table, and not yet gone from dispatchOnce.
Entered == {"lock", "write", "unregister", "await", "forget"}
\* Its waiter was sent a result.
Settled(c) == ch[c] # Empty \/ outcome[c] \in Results

\* A killer holds waiters between its poison and its last send, when the connection is
\* dead already.
DrainInv == \A k \in Killers : /\ kpc[k] # "send" => drained[k] = {}
                               /\ kpc[k] \in {"send", "done"} => ~alive
                               /\ kpc[k] \in {"poison", "send"} => kerr[k] \in Errs

\* Who is in kill.
KillInv == /\ \A c \in Calls : /\ pc[c] \notin {"kill", "done"} => kpc[c] = "idle"
                               /\ kpc[c] \in {"poison", "send"} => pc[c] = "kill"
                               /\ pc[c] = "kill" => kpc[c] \in {"poison", "send"}
           /\ rpc # "kill" => kpc[Reader] = "idle"
           /\ DrainInv

\* An entry of the table is that of its call, and the table of a dead connection is empty.
PendInv == \A i \in Ids : \A c \in Calls :
             pending[i] = c => id[c] = i /\ pc[c] \in Entered /\ alive

\* A waiter is in one place: the table, the reader's hand, the hands of one killer, or
\* it has its result.
PlaceInv == /\ \A c \in Calls :
                 /\ hand = c => /\ \A i \in Ids : pending[i] # c
                                /\ \A k \in Killers : c \notin drained[k]
                                /\ ~Settled(c)
                 /\ \A k \in Killers : c \in drained[k] =>
                      /\ \A i \in Ids : pending[i] # c
                      /\ \A l \in Killers : c \in drained[l] => l = k
                      /\ ~Settled(c)
                 /\ Settled(c) => \A i \in Ids : pending[i] # c
                 /\ pc[c] \in {"new", "register"} => /\ hand # c
                                                     /\ \A k \in Killers : c \notin drained[k]
                                                     /\ ~Settled(c)
                 /\ pc[c] # "done" => outcome[c] = Empty
            /\ hand # None <=> rpc = "send"

\* What calls were failed with, or are about to be.
Blamed(e) == /\ e \in Errs
             /\ \/ \E c \in Calls : ch[c].err = e \/ outcome[c].err = e
                \/ \E k \in Killers : drained[k] # {} /\ kerr[k] = e

\* Nobody fails while the connection is alive, and they all fail of the same.
BlameInv == /\ alive => \A e \in Errs : ~Blamed(e)
            /\ \A e, f \in Errs : Blamed(e) /\ Blamed(f) => e = f

\* While the hook waits for a call of its own the reader delivers nothing.
HookInv == hook # None => rpc = "hook" /\ HookCallUnanswered

CoreInv == TypeOK /\ KillInv /\ PendInv /\ PlaceInv /\ BlameInv /\ HookInv
-----------------------------------------------------------------------------
(* The invariant while no id is handed out too early *)

\* A call that has entered has a result, or is where it will get one.
WaitInv == \A c \in Calls : pc[c] \in Entered =>
             pending[id[c]] = c \/ hand = c \/ (\E k \in Killers : c \in drained[k]) \/ Settled(c)

\* What the reader has read, and what becomes of it.
ReplyInv == /\ \A c \in got : pc[c] \in {"await", "forget", "done"}
            /\ answered \subseteq got
            /\ rpc \notin {"route", "send"} => frame = NoFrame
            /\ frame.of # None => frame.id = id[frame.of] /\ frame.of \in answered
            /\ rpc = "send" => frame.of = hand
            /\ rpc = "route" /\ frame.id # PushID => \E c \in answered : id[c] = frame.id
            /\ \A c \in answered :
                 ~(rpc = "route" /\ frame.of = c) => \A i \in Ids : pending[i] # c
            /\ \A c \in Calls : \A r \in {ch[c], outcome[c]} :
                 r.of # None => r.of = c /\ c \in answered /\ ~(rpc = "route" /\ frame.of = c)

AnswerInv == WaitInv /\ ReplyInv /\ LostOnlyIfGone

IInv == CoreInv /\ AnswerInv
-----------------------------------------------------------------------------
\* What the ids are; % is needed only at the two ends of the space.
LEMMA IdSpaceType == IdSpace \in Nat /\ IdSpace > 1
BY MuxAssumption

LEMMA ModFacts ==
  ASSUME NEW n \in Nat, n > 0
  PROVE  /\ n % n = 0
         /\ \A x \in 0..(n - 1) : x % n = x
OBVIOUS

LEMMA IdFacts == /\ PushID \in Ids
                 /\ 0 \in Ids \ {PushID}
                 /\ \A i \in Ids \ {PushID} : i + 1 \in Ids /\ (i + 1) % IdSpace = i + 1
                 /\ (PushID + 1) % IdSpace = 0
<1>1. /\ IdSpace % IdSpace = 0
      /\ \A x \in 0..(IdSpace - 1) : x % IdSpace = x
  BY IdSpaceType, ModFacts
<1> QED
  BY <1>1, IdSpaceType DEF Ids, PushID

\* allocID never hands out PushID, and leaves the counter where it can go on.
LEMMA AllocFacts ==
  ASSUME nextID \in Ids
  PROVE  /\ AllocID \in Ids \ {PushID}
         /\ (AllocID + 1) % IdSpace = AllocID + 1
         /\ AllocID + 1 \in Ids
BY IdFacts DEF AllocID

\* Goroutines are told apart, and the absent call from all of them.
LEMMA Names == /\ Reader \in Killers /\ Closer \in Killers /\ Calls \subseteq Killers
               /\ None \notin Killers /\ None \notin Calls
               /\ Reader # Closer /\ Reader \notin Calls /\ Closer \notin Calls
               /\ Timed \subseteq Calls /\ Hooked \subseteq Calls
BY MuxAssumption DEF Killers

\* The results a channel can carry.
LEMMA ResultFacts == /\ \A c \in Calls : Reply(c) \in Results
                     /\ \A e \in Errs : Error(e) \in Results
                     /\ Error("none") = Empty
                     /\ Error("ctx") \in Gone /\ Error("resend") \in Gone
                     /\ \A x \in Calls \cup {None} :
                          [of |-> x, err |-> "none"] \in Results \cup {Empty}
                     /\ NoFrame \in [id : Ids, of : Calls \cup {None}]
BY IdFacts DEF Results, Reply, Error, Gone, Empty, NoFrame

LEMMA InitTypes == FirstIDs \subseteq Ids /\ MaxDup \in Nat /\ BadFrames \subseteq Errs
BY MuxAssumption DEF Errs

LEMMA TypeInit == Init => TypeOK
BY IdFacts, Names, ResultFacts, InitTypes DEF Init, TypeOK

\* Every action keeps the types.
LEMMA TypeNext == ASSUME TypeOK, [Next]_vars PROVE TypeOK'
<1> USE DEF TypeOK, callVars, ioVars, routeVars, readVars, killVars
<1>1. ASSUME NEW c \in Calls, StartCall(c) PROVE TypeOK'
  BY <1>1, AllocFacts DEF StartCall, Begin, Goto
<1>2. ASSUME NEW c \in Calls, HookCall(c) PROVE TypeOK'
  BY <1>2, AllocFacts, Names DEF HookCall, Begin, Goto, HookIdle
<1>3. ASSUME NEW c \in Calls, Register(c) PROVE TypeOK'
  BY <1>3, Names, ResultFacts DEF Register, Return, Goto
<1>4. ASSUME NEW c \in Calls, LockWrite(c) PROVE TypeOK'
  BY <1>4, Names, ResultFacts DEF LockWrite, Goto
<1>5. ASSUME NEW c \in Calls, WriteOK(c) PROVE TypeOK'
  BY <1>5, Names, ResultFacts DEF WriteOK, Goto
<1>6. ASSUME NEW c \in Calls, WriteErr(c) PROVE TypeOK'
  BY <1>6, Names, ResultFacts DEF WriteErr, Goto
<1>7. ASSUME NEW c \in Calls, Unregister(c) PROVE TypeOK'
  BY <1>7, Names, ResultFacts DEF Unregister, Goto, StartKill, Errs
<1>8. ASSUME NEW c \in Calls, Receive(c) PROVE TypeOK'
  BY <1>8, Names, ResultFacts DEF Receive, Return, Goto
<1>9. ASSUME NEW c \in Calls, Expire(c) PROVE TypeOK'
  BY <1>9, Names, ResultFacts DEF Expire, Goto
<1>10. ASSUME NEW c \in Calls, Forget(c) PROVE TypeOK'
  BY <1>10, Names, ResultFacts DEF Forget, Return, Goto
<1>11. ASSUME NEW c \in Calls, CtxDone(c) PROVE TypeOK'
  BY <1>11, Names, ResultFacts DEF CtxDone
<1>12. ASSUME ReadResp PROVE TypeOK'
  BY <1>12, Names, ResultFacts DEF ReadResp, ReadFrame
<1>13. ASSUME ReadDup PROVE TypeOK'
  BY <1>13, Names, InitTypes DEF ReadDup, ReadFrame
<1>14. ASSUME ReadPush PROVE TypeOK'
  BY <1>14, IdFacts, Names DEF ReadPush, ReadFrame
<1>15. ASSUME BadFrame PROVE TypeOK'
  BY <1>15, Names, ResultFacts, InitTypes DEF BadFrame, ReaderFails, StartKill
<1>16. ASSUME ReadErr PROVE TypeOK'
  BY <1>16, Names, ResultFacts DEF ReadErr, ReaderFails, StartKill, Errs
<1>17. ASSUME ReservedPush PROVE TypeOK'
  BY <1>17, Names, ResultFacts DEF ReservedPush, ReaderFails, StartKill, Errs
<1>18. ASSUME PushFrame PROVE TypeOK'
  BY <1>18, Names, ResultFacts DEF PushFrame
<1>19. ASSUME HookReturns PROVE TypeOK'
  BY <1>19, Names, ResultFacts DEF HookReturns, HookIdle
<1>20. ASSUME Demux PROVE TypeOK'
  BY <1>20, Names, ResultFacts DEF Demux
<1>21. ASSUME Deliver PROVE TypeOK'
  <2>1. ch' \in [Calls -> Results \cup {Empty}]
    BY <1>21, ResultFacts DEF Deliver
  <2> QED
    BY <1>21, <2>1, ResultFacts DEF Deliver
<1>22. ASSUME NEW k \in Killers, KillPoison(k) PROVE TypeOK'
  <2>1. {pending[i] : i \in Ids} \ {None} \subseteq Calls
    OBVIOUS
  <2>2. drained' \in [Killers -> SUBSET Calls]
    BY <1>22, <2>1 DEF KillPoison
  <2> QED
    BY <1>22, <2>2 DEF KillPoison
<1>23. ASSUME NEW k \in Killers, KillSend(k) PROVE TypeOK'
  <2>1. PICK w \in drained[k] : /\ ch' = [ch EXCEPT ![w] = Error(kerr[k])]
                              /\ drained' = [drained EXCEPT ![k] = @ \ {w}]
    BY <1>23 DEF KillSend
  <2>2. Error(kerr[k]) \in Results \cup {Empty}
    BY ResultFacts
  <2> QED
    BY <1>23, <2>1, <2>2, ResultFacts DEF KillSend
<1>24. ASSUME NEW k \in Killers, KillClose(k) PROVE TypeOK'
  BY <1>24, Names, ResultFacts DEF KillClose, Return, Goto
<1>25. ASSUME StartClose PROVE TypeOK'
  BY <1>25, Names, ResultFacts DEF StartClose, StartKill, Errs
<1>26. ASSUME PeerStalls PROVE TypeOK'
  BY <1>26, Names, ResultFacts DEF PeerStalls, PeerChanges
<1>27. ASSUME PeerGoes PROVE TypeOK'
  BY <1>27, Names, ResultFacts DEF PeerGoes, PeerChanges
<1>28. CASE UNCHANGED vars
  BY <1>28 DEF vars
<1> QED
  BY <1>1, <1>2, <1>3, <1>4, <1>5, <1>6, <1>7, <1>8, <1>9, <1>10, <1>11, <1>12, <1>13,
     <1>14, <1>15, <1>16, <1>17, <1>18, <1>19, <1>20, <1>21, <1>22, <1>23, <1>24, <1>25,
     <1>26, <1>27, <1>28 DEF Next, CallStep, Read, Route, Kill

LEMMA KillInit == Init => KillInv
BY Names DEF Init, KillInv, DrainInv

\* A killer holds waiters only between poison and its last send.
LEMMA KillNext == ASSUME TypeOK, KillInv, [Next]_vars PROVE KillInv'
<1> USE DEF TypeOK, KillInv, DrainInv, callVars, ioVars, routeVars, readVars, killVars
<1>1. ASSUME NEW c \in Calls, StartCall(c) PROVE KillInv'
  BY <1>1, Names DEF StartCall, Begin, Goto
<1>2. ASSUME NEW c \in Calls, HookCall(c) PROVE KillInv'
  BY <1>2, Names DEF HookCall, Begin, Goto, HookIdle
<1>3. ASSUME NEW c \in Calls, Register(c) PROVE KillInv'
  BY <1>3, Names DEF Register, Return, Goto
<1>4. ASSUME NEW c \in Calls, LockWrite(c) PROVE KillInv'
  BY <1>4, Names DEF LockWrite, Goto
<1>5. ASSUME NEW c \in Calls, WriteOK(c) PROVE KillInv'
  BY <1>5, Names DEF WriteOK, Goto
<1>6. ASSUME NEW c \in Calls, WriteErr(c) PROVE KillInv'
  BY <1>6, Names DEF WriteErr, Goto
<1>7. ASSUME NEW c \in Calls, Unregister(c) PROVE KillInv'
  BY <1>7, Names, InitTypes DEF Unregister, Goto, StartKill, Errs
<1>8. ASSUME NEW c \in Calls, Receive(c) PROVE KillInv'
  BY <1>8, Names DEF Receive, Return, Goto
<1>9. ASSUME NEW c \in Calls, Expire(c) PROVE KillInv'
  BY <1>9, Names DEF Expire, Goto
<1>10. ASSUME NEW c \in Calls, Forget(c) PROVE KillInv'
  BY <1>10, Names DEF Forget, Return, Goto
<1>11. ASSUME NEW c \in Calls, CtxDone(c) PROVE KillInv'
  BY <1>11, Names DEF CtxDone
<1>12. ASSUME ReadResp PROVE KillInv'
  BY <1>12, Names DEF ReadResp, ReadFrame
<1>13. ASSUME ReadDup PROVE KillInv'
  BY <1>13, Names DEF ReadDup, ReadFrame
<1>14. ASSUME ReadPush PROVE KillInv'
  BY <1>14, Names DEF ReadPush, ReadFrame
<1>15. ASSUME BadFrame PROVE KillInv'
  BY <1>15, Names, InitTypes DEF BadFrame, ReaderFails, StartKill, Errs
<1>16. ASSUME ReadErr PROVE KillInv'
  BY <1>16, Names, InitTypes DEF ReadErr, ReaderFails, StartKill, Errs
<1>17. ASSUME ReservedPush PROVE KillInv'
  BY <1>17, Names, InitTypes DEF ReservedPush, ReaderFails, StartKill, Errs
<1>18. ASSUME PushFrame PROVE KillInv'
  BY <1>18, Names DEF PushFrame
<1>19. ASSUME HookReturns PROVE KillInv'
  BY <1>19, Names DEF HookReturns, HookIdle
<1>20. ASSUME Demux PROVE KillInv'
  BY <1>20, Names DEF Demux
<1>21. ASSUME Deliver PROVE KillInv'
  BY <1>21, Names DEF Deliver
<1>22. ASSUME NEW k \in Killers, KillPoison(k) PROVE KillInv'
  BY <1>22, Names DEF KillPoison
<1>23. ASSUME NEW k \in Killers, KillSend(k) PROVE KillInv'
  BY <1>23, Names DEF KillSend
<1>24. ASSUME NEW k \in Killers, KillClose(k) PROVE KillInv'
  BY <1>24, Names DEF KillClose, Return, Goto
<1>25. ASSUME StartClose PROVE KillInv'
  BY <1>25, Names, InitTypes DEF StartClose, StartKill, Errs
<1>26. ASSUME PeerStalls PROVE KillInv'
  BY <1>26, Names DEF PeerStalls, PeerChanges
<1>27. ASSUME PeerGoes PROVE KillInv'
  BY <1>27, Names DEF PeerGoes, PeerChanges
<1>28. CASE UNCHANGED vars
  BY <1>28 DEF vars
<1> QED
  BY <1>1, <1>2, <1>3, <1>4, <1>5, <1>6, <1>7, <1>8, <1>9, <1>10, <1>11, <1>12, <1>13,
     <1>14, <1>15, <1>16, <1>17, <1>18, <1>19, <1>20, <1>21, <1>22, <1>23, <1>24, <1>25,
     <1>26, <1>27, <1>28 DEF Next, CallStep, Read, Route, Kill

LEMMA PendInit == Init => PendInv
BY Names DEF Init, PendInv

\* Whoever leaves the table's stages takes its entry along.
LEMMA PendNext == ASSUME TypeOK, KillInv, PendInv, PlaceInv, [Next]_vars PROVE PendInv'
<1> USE DEF TypeOK, PendInv, Entered, callVars, ioVars, routeVars, readVars, killVars
<1>1. ASSUME NEW c \in Calls, StartCall(c) PROVE PendInv'
  BY <1>1, Names DEF StartCall, Begin, Goto
<1>2. ASSUME NEW c \in Calls, HookCall(c) PROVE PendInv'
  BY <1>2, Names DEF HookCall, Begin, Goto, HookIdle
<1>3. ASSUME NEW c \in Calls, Register(c) PROVE PendInv'
  BY <1>3, Names DEF Register, Return, Goto
<1>4. ASSUME NEW c \in Calls, LockWrite(c) PROVE PendInv'
  BY <1>4, Names DEF LockWrite, Goto
<1>5. ASSUME NEW c \in Calls, WriteOK(c) PROVE PendInv'
  BY <1>5, Names DEF WriteOK, Goto
<1>6. ASSUME NEW c \in Calls, WriteErr(c) PROVE PendInv'
  BY <1>6, Names DEF WriteErr, Goto
<1>7. ASSUME NEW c \in Calls, Unregister(c) PROVE PendInv'
  BY <1>7, Names DEF Unregister, Goto, StartKill
<1>8. ASSUME NEW c \in Calls, Receive(c) PROVE PendInv'
  BY <1>8, Names DEF Receive, Return, Goto, PlaceInv, Settled
<1>9. ASSUME NEW c \in Calls, Expire(c) PROVE PendInv'
  BY <1>9, Names DEF Expire, Goto
<1>10. ASSUME NEW c \in Calls, Forget(c) PROVE PendInv'
  BY <1>10, Names DEF Forget, Return, Goto
<1>11. ASSUME NEW c \in Calls, CtxDone(c) PROVE PendInv'
  BY <1>11, Names DEF CtxDone
<1>12. ASSUME ReadResp PROVE PendInv'
  BY <1>12, Names DEF ReadResp, ReadFrame
<1>13. ASSUME ReadDup PROVE PendInv'
  BY <1>13, Names DEF ReadDup, ReadFrame
<1>14. ASSUME ReadPush PROVE PendInv'
  BY <1>14, Names DEF ReadPush, ReadFrame
<1>15. ASSUME BadFrame PROVE PendInv'
  BY <1>15, Names DEF BadFrame, ReaderFails, StartKill
<1>16. ASSUME ReadErr PROVE PendInv'
  BY <1>16, Names DEF ReadErr, ReaderFails, StartKill
<1>17. ASSUME ReservedPush PROVE PendInv'
  BY <1>17, Names DEF ReservedPush, ReaderFails, StartKill
<1>18. ASSUME PushFrame PROVE PendInv'
  BY <1>18, Names DEF PushFrame
<1>19. ASSUME HookReturns PROVE PendInv'
  BY <1>19, Names DEF HookReturns, HookIdle
<1>20. ASSUME Demux PROVE PendInv'
  BY <1>20, Names DEF Demux
<1>21. ASSUME Deliver PROVE PendInv'
  BY <1>21, Names DEF Deliver
<1>22. ASSUME NEW k \in Killers, KillPoison(k) PROVE PendInv'
  BY <1>22, Names DEF KillPoison
<1>23. ASSUME NEW k \in Killers, KillSend(k) PROVE PendInv'
  BY <1>23, Names DEF KillSend
<1>24. ASSUME NEW k \in Killers, KillClose(k) PROVE PendInv'
  BY <1>24, Names DEF KillClose, Return, Goto, KillInv
<1>25. ASSUME StartClose PROVE PendInv'
  BY <1>25, Names DEF StartClose, StartKill
<1>26. ASSUME PeerStalls PROVE PendInv'
  BY <1>26, Names DEF PeerStalls, PeerChanges
<1>27. ASSUME PeerGoes PROVE PendInv'
  BY <1>27, Names DEF PeerGoes, PeerChanges
<1>28. CASE UNCHANGED vars
  BY <1>28 DEF vars
<1> QED
  BY <1>1, <1>2, <1>3, <1>4, <1>5, <1>6, <1>7, <1>8, <1>9, <1>10, <1>11, <1>12, <1>13,
     <1>14, <1>15, <1>16, <1>17, <1>18, <1>19, <1>20, <1>21, <1>22, <1>23, <1>24, <1>25,
     <1>26, <1>27, <1>28 DEF Next, CallStep, Read, Route, Kill

\* No failure is mistaken for an empty channel or for a call that gave up.
LEMMA ResultsApart == /\ Empty \notin Results
                      /\ Error("ctx") \notin Results /\ Error("resend") \notin Results
<1>1. \A c \in Calls : Reply(c).of # None /\ Reply(c).err = "none"
  BY Names DEF Reply
<1>2. \A e \in {"none", "ctx", "resend"} : Error(e).of = None /\ Error(e).err = e
  BY DEF Error
<1>3. \A e \in Errs : Error(e).err = e /\ e \notin {"none", "ctx", "resend"}
  BY DEF Error, Errs
<1>4. Empty = Error("none")
  BY DEF Empty, Error
<1> QED
  BY <1>1, <1>2, <1>3, <1>4 DEF Results

LEMMA PlaceInit == Init => PlaceInv
BY Names, ResultsApart DEF Init, PlaceInv, Settled

\* A waiter moves from place to place and is never in two.
LEMMA PlaceNext == ASSUME TypeOK, KillInv, PendInv, PlaceInv, [Next]_vars PROVE PlaceInv'
<1> USE DEF TypeOK, PlaceInv, Settled, callVars, ioVars, routeVars, readVars, killVars
<1>1. ASSUME NEW c \in Calls, StartCall(c) PROVE PlaceInv'
  BY <1>1, Names DEF StartCall, Begin, Goto
<1>2. ASSUME NEW c \in Calls, HookCall(c) PROVE PlaceInv'
  BY <1>2, Names DEF HookCall, Begin, Goto, HookIdle
<1>3. ASSUME NEW c \in Calls, Register(c) PROVE PlaceInv'
  BY <1>3, Names, ResultsApart DEF Register, Return, Goto
<1>4. ASSUME NEW c \in Calls, LockWrite(c) PROVE PlaceInv'
  BY <1>4, Names DEF LockWrite, Goto
<1>5. ASSUME NEW c \in Calls, WriteOK(c) PROVE PlaceInv'
  BY <1>5, Names DEF WriteOK, Goto
<1>6. ASSUME NEW c \in Calls, WriteErr(c) PROVE PlaceInv'
  BY <1>6, Names DEF WriteErr, Goto
<1>7. ASSUME NEW c \in Calls, Unregister(c) PROVE PlaceInv'
  BY <1>7, Names DEF Unregister, Goto, StartKill
<1>8. ASSUME NEW c \in Calls, Receive(c) PROVE PlaceInv'
  BY <1>8, Names DEF Receive, Return, Goto
<1>9. ASSUME NEW c \in Calls, Expire(c) PROVE PlaceInv'
  BY <1>9, Names DEF Expire, Goto
<1>10. ASSUME NEW c \in Calls, Forget(c) PROVE PlaceInv'
  BY <1>10, Names, ResultsApart DEF Forget, Return, Goto
<1>11. ASSUME NEW c \in Calls, CtxDone(c) PROVE PlaceInv'
  BY <1>11, Names DEF CtxDone
<1>12. ASSUME ReadResp PROVE PlaceInv'
  BY <1>12, Names DEF ReadResp, ReadFrame
<1>13. ASSUME ReadDup PROVE PlaceInv'
  BY <1>13, Names DEF ReadDup, ReadFrame
<1>14. ASSUME ReadPush PROVE PlaceInv'
  BY <1>14, Names DEF ReadPush, ReadFrame
<1>15. ASSUME BadFrame PROVE PlaceInv'
  BY <1>15, Names DEF BadFrame, ReaderFails, StartKill
<1>16. ASSUME ReadErr PROVE PlaceInv'
  BY <1>16, Names DEF ReadErr, ReaderFails, StartKill
<1>17. ASSUME ReservedPush PROVE PlaceInv'
  BY <1>17, Names DEF ReservedPush, ReaderFails, StartKill
<1>18. ASSUME PushFrame PROVE PlaceInv'
  BY <1>18, Names DEF PushFrame
<1>19. ASSUME HookReturns PROVE PlaceInv'
  BY <1>19, Names DEF HookReturns, HookIdle
<1>20. ASSUME Demux PROVE PlaceInv'
  <2> DEFINE d == pending[frame.id]
  <2>1. frame.id \in Ids /\ d \in Calls \cup {None} /\ hand = None
    BY <1>20 DEF Demux
  <2>2. \A i \in Ids : pending'[i] = IF i = frame.id THEN None ELSE pending[i]
    BY <1>20 DEF Demux
  <2>3. /\ hand' = d /\ (d # None <=> rpc' = "send")
        /\ UNCHANGED <<ch, outcome, pc, drained>>
    BY <1>20 DEF Demux
  <2>4. d # None => /\ \A i \in Ids : pending'[i] # d
                    /\ \A k \in Killers : d \notin drained[k]
                    /\ ~Settled(d)
                    /\ pc[d] \notin {"new", "register"}
    BY <2>1, <2>2 DEF PendInv, Entered
  <2>5. \A i \in Ids : \A c \in Calls : pending'[i] = c => pending[i] = c
    BY <2>2, Names
  <2> HIDE DEF d
  <2> QED
    BY <2>1, <2>3, <2>4, <2>5, Names
<1>21. ASSUME Deliver PROVE PlaceInv'
  BY <1>21, Names DEF Deliver
<1>22. ASSUME NEW k \in Killers, KillPoison(k) PROVE PlaceInv'
  <2> DEFINE D == {pending[i] : i \in Ids} \ {None}
  <2>1. drained[k] = {} /\ drained' = [drained EXCEPT ![k] = D]
    BY <1>22 DEF KillPoison, KillInv, DrainInv
  <2>2. /\ \A i \in Ids : pending'[i] = None
        /\ UNCHANGED <<hand, rpc, ch, outcome, pc>>
    BY <1>22 DEF KillPoison
  <2>3. \A c \in D : /\ c \in Calls /\ hand # c
                     /\ \A l \in Killers : c \notin drained[l]
                     /\ ~Settled(c)
                     /\ pc[c] \notin {"new", "register"}
    BY Names DEF PendInv, Entered
  <2> HIDE DEF D
  <2>4. \A l \in Killers : drained'[l] = IF l = k THEN D ELSE drained[l]
    BY <2>1
  <2>5. ASSUME NEW c \in Calls PROVE \A i \in Ids : pending'[i] # c
    BY <2>2, Names
  <2>6. ASSUME NEW c \in Calls, NEW l \in Killers, c \in drained'[l]
        PROVE  ~Settled(c)' /\ hand' # c /\ pc'[c] \notin {"new", "register"}
               /\ \A m \in Killers : c \in drained'[m] => m = l
    BY <2>1, <2>2, <2>3, <2>4, <2>6
  <2> QED
    BY <2>1, <2>2, <2>5, <2>6, Names
<1>23. ASSUME NEW k \in Killers, KillSend(k) PROVE PlaceInv'
  BY <1>23, Names DEF KillSend
<1>24. ASSUME NEW k \in Killers, KillClose(k) PROVE PlaceInv'
  BY <1>24, Names, ResultsApart DEF KillClose, Return, Goto, KillInv
<1>25. ASSUME StartClose PROVE PlaceInv'
  BY <1>25, Names DEF StartClose, StartKill
<1>26. ASSUME PeerStalls PROVE PlaceInv'
  BY <1>26, Names DEF PeerStalls, PeerChanges
<1>27. ASSUME PeerGoes PROVE PlaceInv'
  BY <1>27, Names DEF PeerGoes, PeerChanges
<1>28. CASE UNCHANGED vars
  BY <1>28 DEF vars
<1> QED
  BY <1>1, <1>2, <1>3, <1>4, <1>5, <1>6, <1>7, <1>8, <1>9, <1>10, <1>11, <1>12, <1>13,
     <1>14, <1>15, <1>16, <1>17, <1>18, <1>19, <1>20, <1>21, <1>22, <1>23, <1>24, <1>25,
     <1>26, <1>27, <1>28 DEF Next, CallStep, Read, Route, Kill

LEMMA HookInit == Init => HookInv
BY Names DEF Init, HookInv

\* The reader that would deliver the answer is the one that runs the hook.
LEMMA HookNext == ASSUME TypeOK, PlaceInv, HookInv, [Next]_vars PROVE HookInv'
<1> USE DEF TypeOK, HookInv, HookCallUnanswered, callVars, ioVars, routeVars, readVars, killVars
<1>1. ASSUME NEW c \in Calls, StartCall(c) PROVE HookInv'
  BY <1>1, Names DEF StartCall, Begin, Goto
<1>2. ASSUME NEW c \in Calls, HookCall(c) PROVE HookInv'
  BY <1>2, Names DEF HookCall, HookIdle, Begin, Goto, PlaceInv, Settled, Empty
<1>3. ASSUME NEW c \in Calls, Register(c) PROVE HookInv'
  BY <1>3, Names DEF Register, Return, Goto, Error
<1>4. ASSUME NEW c \in Calls, LockWrite(c) PROVE HookInv'
  BY <1>4, Names DEF LockWrite, Goto
<1>5. ASSUME NEW c \in Calls, WriteOK(c) PROVE HookInv'
  BY <1>5, Names DEF WriteOK, Goto
<1>6. ASSUME NEW c \in Calls, WriteErr(c) PROVE HookInv'
  BY <1>6, Names DEF WriteErr, Goto
<1>7. ASSUME NEW c \in Calls, Unregister(c) PROVE HookInv'
  BY <1>7, Names DEF Unregister, Goto, StartKill
<1>8. ASSUME NEW c \in Calls, Receive(c) PROVE HookInv'
  BY <1>8, Names DEF Receive, Return, Goto, Empty
<1>9. ASSUME NEW c \in Calls, Expire(c) PROVE HookInv'
  BY <1>9, Names DEF Expire, Goto
<1>10. ASSUME NEW c \in Calls, Forget(c) PROVE HookInv'
  BY <1>10, Names DEF Forget, Return, Goto, Error
<1>11. ASSUME NEW c \in Calls, CtxDone(c) PROVE HookInv'
  BY <1>11, Names DEF CtxDone
<1>12. ASSUME ReadResp PROVE HookInv'
  BY <1>12, Names DEF ReadResp, ReadFrame
<1>13. ASSUME ReadDup PROVE HookInv'
  BY <1>13, Names DEF ReadDup, ReadFrame
<1>14. ASSUME ReadPush PROVE HookInv'
  BY <1>14, Names DEF ReadPush, ReadFrame
<1>15. ASSUME BadFrame PROVE HookInv'
  BY <1>15, Names DEF BadFrame, ReaderFails, StartKill
<1>16. ASSUME ReadErr PROVE HookInv'
  BY <1>16, Names DEF ReadErr, ReaderFails, StartKill
<1>17. ASSUME ReservedPush PROVE HookInv'
  BY <1>17, Names DEF ReservedPush, ReaderFails, StartKill
<1>18. ASSUME PushFrame PROVE HookInv'
  BY <1>18, Names DEF PushFrame
<1>19. ASSUME HookReturns PROVE HookInv'
  BY <1>19, Names DEF HookReturns, HookIdle
<1>20. ASSUME Demux PROVE HookInv'
  BY <1>20, Names DEF Demux
<1>21. ASSUME Deliver PROVE HookInv'
  BY <1>21, Names DEF Deliver, PlaceInv
<1>22. ASSUME NEW k \in Killers, KillPoison(k) PROVE HookInv'
  BY <1>22, Names DEF KillPoison
<1>23. ASSUME NEW k \in Killers, KillSend(k) PROVE HookInv'
  BY <1>23, Names DEF KillSend, Error
<1>24. ASSUME NEW k \in Killers, KillClose(k) PROVE HookInv'
  BY <1>24, Names DEF KillClose, Return, Goto, Error
<1>25. ASSUME StartClose PROVE HookInv'
  BY <1>25, Names DEF StartClose, StartKill
<1>26. ASSUME PeerStalls PROVE HookInv'
  BY <1>26, Names DEF PeerStalls, PeerChanges
<1>27. ASSUME PeerGoes PROVE HookInv'
  BY <1>27, Names DEF PeerGoes, PeerChanges
<1>28. CASE UNCHANGED vars
  BY <1>28 DEF vars
<1> QED
  BY <1>1, <1>2, <1>3, <1>4, <1>5, <1>6, <1>7, <1>8, <1>9, <1>10, <1>11, <1>12, <1>13,
     <1>14, <1>15, <1>16, <1>17, <1>18, <1>19, <1>20, <1>21, <1>22, <1>23, <1>24, <1>25,
     <1>26, <1>27, <1>28 DEF Next, CallStep, Read, Route, Kill

\* Nobody is blamed anew by a step that fails nobody.
LEMMA BlameKept ==
  ASSUME BlameInv, UNCHANGED alive, \A e \in Errs : Blamed(e)' => Blamed(e)
  PROVE  BlameInv'
BY DEF BlameInv

LEMMA BlameInit == Init => BlameInv
BY Names DEF Init, BlameInv, Blamed, Empty, Errs

\* Only the poison that finds the connection alive has anybody to fail.
LEMMA BlameNext == ASSUME TypeOK, KillInv, PendInv, PlaceInv, BlameInv, [Next]_vars PROVE BlameInv'
<1> USE DEF TypeOK, callVars, ioVars, routeVars, readVars, killVars
<1>1. ASSUME NEW c \in Calls, StartCall(c) PROVE BlameInv'
  BY <1>1, Names DEF StartCall, Begin, Goto, BlameInv, Blamed
<1>2. ASSUME NEW c \in Calls, HookCall(c) PROVE BlameInv'
  BY <1>2, Names DEF HookCall, Begin, Goto, HookIdle, BlameInv, Blamed
<1>3. ASSUME NEW c \in Calls, Register(c) PROVE BlameInv'
  <2>1. alive' = alive
    BY <1>3 DEF Register
  <2>2. \A e \in Errs : Blamed(e)' => Blamed(e)
    <3>1. UNCHANGED <<ch, drained, kerr>>
      BY <1>3 DEF Register
    <3>2. \A d \in Calls : outcome'[d] = outcome[d] \/ outcome'[d] = Error("resend")
      BY <1>3 DEF Register, Return
    <3> QED
      BY <3>1, <3>2 DEF Error, Errs, Blamed
  <2> QED
    BY <2>1, <2>2, BlameKept
<1>4. ASSUME NEW c \in Calls, LockWrite(c) PROVE BlameInv'
  BY <1>4, Names DEF LockWrite, Goto, BlameInv, Blamed
<1>5. ASSUME NEW c \in Calls, WriteOK(c) PROVE BlameInv'
  BY <1>5, Names DEF WriteOK, Goto, BlameInv, Blamed
<1>6. ASSUME NEW c \in Calls, WriteErr(c) PROVE BlameInv'
  BY <1>6, Names DEF WriteErr, Goto, BlameInv, Blamed
<1>7. ASSUME NEW c \in Calls, Unregister(c) PROVE BlameInv'
  <2>1. alive' = alive
    BY <1>7 DEF Unregister
  <2>2. \A e \in Errs : Blamed(e)' => Blamed(e)
    BY <1>7, Names DEF Unregister, Goto, StartKill, KillInv, DrainInv, Blamed
  <2> QED
    BY <2>1, <2>2, BlameKept
<1>8. ASSUME NEW c \in Calls, Receive(c) PROVE BlameInv'
  <2>1. alive' = alive
    BY <1>8 DEF Receive
  <2>2. \A e \in Errs : Blamed(e)' => Blamed(e)
    BY <1>8, Names DEF Receive, Return, Goto, Empty, Errs, Blamed
  <2> QED
    BY <2>1, <2>2, BlameKept
<1>9. ASSUME NEW c \in Calls, Expire(c) PROVE BlameInv'
  BY <1>9, Names DEF Expire, Goto, BlameInv, Blamed
<1>10. ASSUME NEW c \in Calls, Forget(c) PROVE BlameInv'
  <2>1. alive' = alive
    BY <1>10 DEF Forget
  <2>2. \A e \in Errs : Blamed(e)' => Blamed(e)
    BY <1>10, Names DEF Forget, Return, Goto, Error, Errs, Blamed
  <2> QED
    BY <2>1, <2>2, BlameKept
<1>11. ASSUME NEW c \in Calls, CtxDone(c) PROVE BlameInv'
  BY <1>11, Names DEF CtxDone, BlameInv, Blamed
<1>12. ASSUME ReadResp PROVE BlameInv'
  BY <1>12, Names DEF ReadResp, ReadFrame, BlameInv, Blamed
<1>13. ASSUME ReadDup PROVE BlameInv'
  BY <1>13, Names DEF ReadDup, ReadFrame, BlameInv, Blamed
<1>14. ASSUME ReadPush PROVE BlameInv'
  BY <1>14, Names DEF ReadPush, ReadFrame, BlameInv, Blamed
<1>15. ASSUME BadFrame PROVE BlameInv'
  <2>1. alive' = alive
    BY <1>15 DEF BadFrame, ReaderFails
  <2>2. \A e \in Errs : Blamed(e)' => Blamed(e)
    BY <1>15, Names DEF BadFrame, ReaderFails, StartKill, KillInv, DrainInv, Blamed
  <2> QED
    BY <2>1, <2>2, BlameKept
<1>16. ASSUME ReadErr PROVE BlameInv'
  <2>1. alive' = alive
    BY <1>16 DEF ReadErr, ReaderFails
  <2>2. \A e \in Errs : Blamed(e)' => Blamed(e)
    BY <1>16, Names DEF ReadErr, ReaderFails, StartKill, KillInv, DrainInv, Blamed
  <2> QED
    BY <2>1, <2>2, BlameKept
<1>17. ASSUME ReservedPush PROVE BlameInv'
  <2>1. alive' = alive
    BY <1>17 DEF ReservedPush, ReaderFails
  <2>2. \A e \in Errs : Blamed(e)' => Blamed(e)
    BY <1>17, Names DEF ReservedPush, ReaderFails, StartKill, KillInv, DrainInv, Blamed
  <2> QED
    BY <2>1, <2>2, BlameKept
<1>18. ASSUME PushFrame PROVE BlameInv'
  BY <1>18, Names DEF PushFrame, BlameInv, Blamed
<1>19. ASSUME HookReturns PROVE BlameInv'
  BY <1>19, Names DEF HookReturns, HookIdle, BlameInv, Blamed
<1>20. ASSUME Demux PROVE BlameInv'
  BY <1>20, Names DEF Demux, BlameInv, Blamed
<1>21. ASSUME Deliver PROVE BlameInv'
  <2>1. alive' = alive
    BY <1>21 DEF Deliver
  <2>2. \A e \in Errs : Blamed(e)' => Blamed(e)
    BY <1>21, Names DEF Deliver, Errs, Blamed
  <2> QED
    BY <2>1, <2>2, BlameKept
<1>22. ASSUME NEW k \in Killers, KillPoison(k) PROVE BlameInv'
  <2>1. CASE alive
    <3>1. \A e \in Errs : Blamed(e)' => e = kerr[k]
      BY <1>22, <2>1 DEF KillPoison, Blamed, BlameInv
    <3> QED
      BY <1>22, <3>1 DEF KillPoison, BlameInv
  <2>2. CASE ~alive
    <3>1. {pending[i] : i \in Ids} \ {None} = {}
      BY <2>2 DEF PendInv, TypeOK
    <3>2. drained' = [drained EXCEPT ![k] = {}] /\ alive' = alive
      BY <1>22, <2>2, <3>1 DEF KillPoison, TypeOK
    <3>3. \A e \in Errs : Blamed(e)' => Blamed(e)
      BY <1>22, <3>2 DEF KillPoison, Blamed, TypeOK
    <3> QED
      BY <3>2, <3>3, BlameKept
  <2> QED
    BY <2>1, <2>2
<1>23. ASSUME NEW k \in Killers, KillSend(k) PROVE BlameInv'
  <2>1. alive' = alive
    BY <1>23 DEF KillSend
  <2>2. \A e \in Errs : Blamed(e)' => Blamed(e)
    BY <1>23, Names DEF KillSend, Error, Blamed
  <2> QED
    BY <2>1, <2>2, BlameKept
<1>24. ASSUME NEW k \in Killers, KillClose(k) PROVE BlameInv'
  <2>1. alive' = alive
    BY <1>24 DEF KillClose
  <2>2. \A e \in Errs : Blamed(e)' => Blamed(e)
    BY <1>24, Names DEF KillClose, Return, Goto, Error, Errs, Blamed
  <2> QED
    BY <2>1, <2>2, BlameKept
<1>25. ASSUME StartClose PROVE BlameInv'
  <2>1. alive' = alive
    BY <1>25 DEF StartClose
  <2>2. \A e \in Errs : Blamed(e)' => Blamed(e)
    BY <1>25, Names DEF StartClose, StartKill, KillInv, DrainInv, Blamed
  <2> QED
    BY <2>1, <2>2, BlameKept
<1>26. ASSUME PeerStalls PROVE BlameInv'
  BY <1>26, Names DEF PeerStalls, PeerChanges, BlameInv, Blamed
<1>27. ASSUME PeerGoes PROVE BlameInv'
  BY <1>27, Names DEF PeerGoes, PeerChanges, BlameInv, Blamed
<1>28. CASE UNCHANGED vars
  BY <1>28 DEF vars, BlameInv, Blamed
<1> QED
  BY <1>1, <1>2, <1>3, <1>4, <1>5, <1>6, <1>7, <1>8, <1>9, <1>10, <1>11, <1>12, <1>13,
     <1>14, <1>15, <1>16, <1>17, <1>18, <1>19, <1>20, <1>21, <1>22, <1>23, <1>24, <1>25,
     <1>26, <1>27, <1>28 DEF Next, CallStep, Read, Route, Kill

\* The invariant that needs nothing of the ids holds: client.go:72-88, :382-426
\* and :473-487 keep every waiter in one place, whatever the interleaving.
THEOREM CoreCorrect == Spec => []CoreInv
<1>1. Init => CoreInv
  BY TypeInit, KillInit, PendInit, PlaceInit, BlameInit, HookInit DEF CoreInv
<1>2. CoreInv /\ [Next]_vars => CoreInv'
  BY TypeNext, KillNext, PendNext, PlaceNext, BlameNext, HookNext DEF CoreInv
<1> QED
  BY <1>1, <1>2, PTL DEF Spec

\* Every variable stays in its type; in particular a call never has the id of a
\* push frame (allocID, client.go:264-273).
THEOREM TypeCorrect == Spec => []TypeOK
<1>1. CoreInv => TypeOK
  BY DEF CoreInv
<1> QED
  BY <1>1, CoreCorrect, PTL

\* A set whose members are all equal.
LEMMA AtMostOne ==
  ASSUME NEW S, \A x, y \in S : x = y
  PROVE  Cardinality(S) = IF S = {} THEN 0 ELSE 1
<1>1. CASE S = {}
  BY <1>1, FS_EmptySet
<1>2. ASSUME NEW x \in S PROVE Cardinality(S) = 1
  <2>1. S = {x}
    OBVIOUS
  <2> QED
    BY <2>1, FS_Singleton
<1> QED
  BY <1>1, <1>2

\* No two of the table, the reader, the killers and the channel hold a result for the
\* same call: the send on its channel of capacity one never blocks (client.go:38, :79, :479).
THEOREM SentOnce == Spec => []SendsOnce
<1>1. CoreInv => SendsOnce
  <2> SUFFICES ASSUME CoreInv, NEW c \in Calls PROVE Senders(c) <= 1
    BY DEF SendsOnce
  <2> DEFINE I == {i \in Ids : pending[i] = c}
             K == {k \in Killers : c \in drained[k]}
  <2>1. \A i, j \in I : i = j
    BY DEF CoreInv, PendInv
  <2>2. \A k, l \in K : k = l
    BY DEF CoreInv, PlaceInv
  <2>3. Cardinality(I) = IF I = {} THEN 0 ELSE 1
    BY <2>1, AtMostOne
  <2>4. Cardinality(K) = IF K = {} THEN 0 ELSE 1
    BY <2>2, AtMostOne
  <2>5. /\ hand = c => I = {} /\ K = {} /\ ~Settled(c)
        /\ K # {} => I = {} /\ ~Settled(c)
        /\ Settled(c) => I = {}
    BY DEF CoreInv, PlaceInv
  <2>6. Senders(c) = Cardinality(I) + One(hand = c) + Cardinality(K) + One(Settled(c))
    BY DEF Senders, Settled
  <2> HIDE DEF I, K
  <2> QED
    BY <2>3, <2>4, <2>5, <2>6 DEF One
<1> QED
  BY <1>1, CoreCorrect, PTL

\* A call that returned has no entry in the table (CLT-020), whatever way it returned.
THEOREM NothingLeaks == Spec => []NoPendingLeak
<1>1. CoreInv => NoPendingLeak
  BY DEF CoreInv, PendInv, Entered, NoPendingLeak
<1> QED
  BY <1>1, CoreCorrect, PTL

\* Calls failed by a connection are failed with one error (CLT-014), though the reader,
\* writers and Close may all run kill at once: the table is empty for all but the first.
THEOREM OneError == Spec => []SameTypedError
<1>1. CoreInv => SameTypedError
  BY DEF CoreInv, BlameInv, Blamed, SameTypedError, Failures
<1> QED
  BY <1>1, CoreCorrect, PTL

\* A call made from inside the push hook is not answered while the hook runs
\* (client.go:28): the reader that would answer it is the one that waits.
THEOREM HookUnanswered == Spec => []HookCallUnanswered
<1>1. CoreInv => HookCallUnanswered
  BY DEF CoreInv, HookInv, HookCallUnanswered
<1> QED
  BY <1>1, CoreCorrect, PTL

-----------------------------------------------------------------------------
(* Answers *)

LEMMA WaitInit == Init => WaitInv
BY DEF Init, WaitInv, Entered

\* A waiter that leaves the table is in somebody's hands.
LEMMA WaitNext ==
  ASSUME TypeOK, KillInv, PendInv, PlaceInv, ReplyInv, IdsFresh, WaitInv, [Next]_vars
  PROVE  WaitInv'
<1> USE DEF TypeOK, WaitInv, Entered, callVars, ioVars, routeVars, readVars, killVars
<1>1. ASSUME NEW c \in Calls, StartCall(c) PROVE WaitInv'
  BY <1>1, Names DEF StartCall, Begin, Goto, Settled
<1>2. ASSUME NEW c \in Calls, HookCall(c) PROVE WaitInv'
  BY <1>2, Names DEF HookCall, Begin, Goto, HookIdle, Settled
<1>3. ASSUME NEW c \in Calls, Register(c) PROVE WaitInv'
  BY <1>3, Names DEF Register, Return, Goto, Settled, IdsFresh, HasId
<1>4. ASSUME NEW c \in Calls, LockWrite(c) PROVE WaitInv'
  BY <1>4, Names DEF LockWrite, Goto, Settled
<1>5. ASSUME NEW c \in Calls, WriteOK(c) PROVE WaitInv'
  BY <1>5, Names DEF WriteOK, Goto, Settled
<1>6. ASSUME NEW c \in Calls, WriteErr(c) PROVE WaitInv'
  BY <1>6, Names DEF WriteErr, Goto, Settled
<1>7. ASSUME NEW c \in Calls, Unregister(c) PROVE WaitInv'
  BY <1>7, Names DEF Unregister, Goto, StartKill, Settled, IdsFresh, HasId
<1>8. ASSUME NEW c \in Calls, Receive(c) PROVE WaitInv'
  BY <1>8, Names DEF Receive, Return, Goto, Settled
<1>9. ASSUME NEW c \in Calls, Expire(c) PROVE WaitInv'
  BY <1>9, Names DEF Expire, Goto, Settled
<1>10. ASSUME NEW c \in Calls, Forget(c) PROVE WaitInv'
  BY <1>10, Names DEF Forget, Return, Goto, Settled, IdsFresh, HasId
<1>11. ASSUME NEW c \in Calls, CtxDone(c) PROVE WaitInv'
  BY <1>11, Names DEF CtxDone, Settled
<1>12. ASSUME ReadResp PROVE WaitInv'
  BY <1>12, Names DEF ReadResp, ReadFrame, Settled
<1>13. ASSUME ReadDup PROVE WaitInv'
  BY <1>13, Names DEF ReadDup, ReadFrame, Settled
<1>14. ASSUME ReadPush PROVE WaitInv'
  BY <1>14, Names DEF ReadPush, ReadFrame, Settled
<1>15. ASSUME BadFrame PROVE WaitInv'
  BY <1>15, Names DEF BadFrame, ReaderFails, StartKill, Settled
<1>16. ASSUME ReadErr PROVE WaitInv'
  BY <1>16, Names DEF ReadErr, ReaderFails, StartKill, Settled
<1>17. ASSUME ReservedPush PROVE WaitInv'
  BY <1>17, Names DEF ReservedPush, ReaderFails, StartKill, Settled
<1>18. ASSUME PushFrame PROVE WaitInv'
  BY <1>18, Names DEF PushFrame, Settled
<1>19. ASSUME HookReturns PROVE WaitInv'
  BY <1>19, Names DEF HookReturns, HookIdle, Settled
<1>20. ASSUME Demux PROVE WaitInv'
  BY <1>20, Names DEF Demux, Settled, PlaceInv, PendInv
<1>21. ASSUME Deliver PROVE WaitInv'
  BY <1>21, Names DEF Deliver, Settled, ReplyInv, PlaceInv, Empty
<1>22. ASSUME NEW k \in Killers, KillPoison(k) PROVE WaitInv'
  BY <1>22, Names DEF KillPoison, Settled, KillInv, DrainInv
<1>23. ASSUME NEW k \in Killers, KillSend(k) PROVE WaitInv'
  <2>1. PICK w \in drained[k] : /\ ch' = [ch EXCEPT ![w] = Error(kerr[k])]
                              /\ drained' = [drained EXCEPT ![k] = @ \ {w}]
    BY <1>23 DEF KillSend
  <2>2. Error(kerr[k]) # Empty
    BY <1>23, ResultFacts, ResultsApart DEF KillSend, KillInv, DrainInv
  <2>3. \A c \in Calls : Settled(c) => Settled(c)'
    BY <1>23, <2>1, <2>2 DEF KillSend, Settled
  <2>4. w \in Calls /\ Settled(w)'
    BY <2>1, <2>2 DEF Settled
  <2>5. \A c \in Calls \ {w} : \A l \in Killers : c \in drained[l] => c \in drained'[l]
    BY <2>1
  <2> QED
    BY <1>23, <2>3, <2>4, <2>5 DEF KillSend
<1>24. ASSUME NEW k \in Killers, KillClose(k) PROVE WaitInv'
  BY <1>24, Names DEF KillClose, Return, Goto, Settled
<1>25. ASSUME StartClose PROVE WaitInv'
  BY <1>25, Names DEF StartClose, StartKill, Settled
<1>26. ASSUME PeerStalls PROVE WaitInv'
  BY <1>26, Names DEF PeerStalls, PeerChanges, Settled
<1>27. ASSUME PeerGoes PROVE WaitInv'
  BY <1>27, Names DEF PeerGoes, PeerChanges, Settled
<1>28. CASE UNCHANGED vars
  BY <1>28 DEF vars, Settled
<1> QED
  BY <1>1, <1>2, <1>3, <1>4, <1>5, <1>6, <1>7, <1>8, <1>9, <1>10, <1>11, <1>12, <1>13,
     <1>14, <1>15, <1>16, <1>17, <1>18, <1>19, <1>20, <1>21, <1>22, <1>23, <1>24, <1>25,
     <1>26, <1>27, <1>28 DEF Next, CallStep, Read, Route, Kill

LEMMA ReplyInit == Init => ReplyInv
BY Names DEF Init, ReplyInv, NoFrame, Empty

\* The reader hands an answer to the call it was read for.
LEMMA ReplyNext ==
  ASSUME TypeOK, KillInv, PendInv, PlaceInv, ReplyInv, IdsFresh, [Next]_vars
  PROVE  ReplyInv'
<1> USE DEF TypeOK, ReplyInv, callVars, ioVars, routeVars, readVars, killVars
<1>1. ASSUME NEW c \in Calls, StartCall(c) PROVE ReplyInv'
  BY <1>1, Names DEF StartCall, Begin, Goto
<1>2. ASSUME NEW c \in Calls, HookCall(c) PROVE ReplyInv'
  BY <1>2, Names DEF HookCall, Begin, Goto, HookIdle
<1>3. ASSUME NEW c \in Calls, Register(c) PROVE ReplyInv'
  <2>1. /\ UNCHANGED <<ch, id, hand, got, answered, rpc, frame>>
        /\ c \notin got
    BY <1>3 DEF Register
  <2>2. \A d \in Calls : outcome'[d] = outcome[d] \/ outcome'[d].of = None
    BY <1>3 DEF Register, Return, Error
  <2>3. \A d \in got : pc'[d] = pc[d]
    BY <1>3, <2>1 DEF Register, Return, Goto
  <2>4. \A d \in answered, i \in Ids : pending[i] # d => pending'[i] # d
    BY <1>3, <2>1 DEF Register
  <2> QED
    BY <2>1, <2>2, <2>3, <2>4
<1>4. ASSUME NEW c \in Calls, LockWrite(c) PROVE ReplyInv'
  BY <1>4, Names DEF LockWrite, Goto
<1>5. ASSUME NEW c \in Calls, WriteOK(c) PROVE ReplyInv'
  BY <1>5, Names DEF WriteOK, Goto
<1>6. ASSUME NEW c \in Calls, WriteErr(c) PROVE ReplyInv'
  BY <1>6, Names DEF WriteErr, Goto
<1>7. ASSUME NEW c \in Calls, Unregister(c) PROVE ReplyInv'
  BY <1>7, Names DEF Unregister, Goto, StartKill
<1>8. ASSUME NEW c \in Calls, Receive(c) PROVE ReplyInv'
  BY <1>8, Names DEF Receive, Return, Goto, Empty
<1>9. ASSUME NEW c \in Calls, Expire(c) PROVE ReplyInv'
  BY <1>9, Names DEF Expire, Goto
<1>10. ASSUME NEW c \in Calls, Forget(c) PROVE ReplyInv'
  BY <1>10, Names DEF Forget, Return, Goto, Error
<1>11. ASSUME NEW c \in Calls, CtxDone(c) PROVE ReplyInv'
  BY <1>11, Names DEF CtxDone
<1>12. ASSUME ReadResp PROVE ReplyInv'
  BY <1>12, Names DEF ReadResp, ReadFrame
<1>13. ASSUME ReadDup PROVE ReplyInv'
  BY <1>13, Names DEF ReadDup, ReadFrame
<1>14. ASSUME ReadPush PROVE ReplyInv'
  BY <1>14, Names DEF ReadPush, ReadFrame
<1>15. ASSUME BadFrame PROVE ReplyInv'
  BY <1>15, Names DEF BadFrame, ReaderFails, StartKill
<1>16. ASSUME ReadErr PROVE ReplyInv'
  BY <1>16, Names DEF ReadErr, ReaderFails, StartKill
<1>17. ASSUME ReservedPush PROVE ReplyInv'
  BY <1>17, Names DEF ReservedPush, ReaderFails, StartKill, NoFrame
<1>18. ASSUME PushFrame PROVE ReplyInv'
  BY <1>18, Names DEF PushFrame, NoFrame
<1>19. ASSUME HookReturns PROVE ReplyInv'
  BY <1>19, Names DEF HookReturns, HookIdle
<1>20. ASSUME Demux PROVE ReplyInv'
  <2>1. ASSUME pending[frame.id] = None PROVE ReplyInv'
    BY <1>20, <2>1, Names DEF Demux, NoFrame, PendInv
  <2>2. ASSUME NEW d \in Calls, pending[frame.id] = d PROVE ReplyInv'
    <3>1. rpc = "route" /\ frame.id \in Ids
      BY <1>20 DEF Demux
    <3>2. HasId(d) /\ id[d] = frame.id
      BY <2>2, <3>1 DEF PendInv, HasId, Entered
    <3>3. frame.of = d /\ d \in answered
      <4>1. frame.of = d \/ d \in answered
        BY <3>1, <3>2 DEF IdsFresh
      <4>2. frame.of # d => d \notin answered
        BY <2>2, <3>1
      <4> QED
        BY <4>1, <4>2, Names
    <3>4. /\ rpc' = "send" /\ hand' = d
          /\ pending' = [pending EXCEPT ![frame.id] = None]
          /\ UNCHANGED <<frame, id, pc, ch, outcome, got, answered>>
      BY <1>20, <2>2, Names DEF Demux
    <3>5. \A i \in Ids : pending'[i] # d
      BY <2>2, <3>4, Names DEF PendInv
    <3>6. ~Settled(d)
      BY <2>2 DEF PlaceInv
    <3>7. ch[d] = Empty /\ outcome[d] \notin Results
      BY <3>6 DEF Settled
    <3>8. \A r \in {ch[d], outcome[d]} : r.of = None
      BY <3>7, <2>2, ResultFacts DEF Empty, Gone, Error
    <3> QED
      BY <1>20, <2>2, <3>3, <3>4, <3>5, <3>8, Names DEF Demux
  <2> QED
    BY <1>20, <2>1, <2>2 DEF Demux
<1>21. ASSUME Deliver PROVE ReplyInv'
  BY <1>21, Names DEF Deliver, NoFrame, PlaceInv
<1>22. ASSUME NEW k \in Killers, KillPoison(k) PROVE ReplyInv'
  BY <1>22, Names DEF KillPoison
<1>23. ASSUME NEW k \in Killers, KillSend(k) PROVE ReplyInv'
  BY <1>23, Names DEF KillSend, Error
<1>24. ASSUME NEW k \in Killers, KillClose(k) PROVE ReplyInv'
  BY <1>24, Names DEF KillClose, Return, Goto, Error, KillInv, DrainInv
<1>25. ASSUME StartClose PROVE ReplyInv'
  BY <1>25, Names DEF StartClose, StartKill
<1>26. ASSUME PeerStalls PROVE ReplyInv'
  BY <1>26, Names DEF PeerStalls, PeerChanges
<1>27. ASSUME PeerGoes PROVE ReplyInv'
  BY <1>27, Names DEF PeerGoes, PeerChanges
<1>28. CASE UNCHANGED vars
  BY <1>28 DEF vars
<1> QED
  BY <1>1, <1>2, <1>3, <1>4, <1>5, <1>6, <1>7, <1>8, <1>9, <1>10, <1>11, <1>12, <1>13,
     <1>14, <1>15, <1>16, <1>17, <1>18, <1>19, <1>20, <1>21, <1>22, <1>23, <1>24, <1>25,
     <1>26, <1>27, <1>28 DEF Next, CallStep, Read, Route, Kill

LEMMA LostInit == Init => LostOnlyIfGone
BY DEF Init, LostOnlyIfGone

\* An answer finds no entry only if its call has left or was failed.
LEMMA LostNext ==
  ASSUME TypeOK, KillInv, PendInv, PlaceInv, BlameInv, ReplyInv, WaitInv,
         LostOnlyIfGone, [Next]_vars
  PROVE  LostOnlyIfGone'
<1> USE DEF TypeOK, LostOnlyIfGone, callVars, ioVars, routeVars, readVars, killVars
<1>1. ASSUME NEW c \in Calls, StartCall(c) PROVE LostOnlyIfGone'
  BY <1>1, Names DEF StartCall, Begin, Goto
<1>2. ASSUME NEW c \in Calls, HookCall(c) PROVE LostOnlyIfGone'
  BY <1>2, Names DEF HookCall, Begin, Goto, HookIdle
<1>3. ASSUME NEW c \in Calls, Register(c) PROVE LostOnlyIfGone'
  BY <1>3, Names DEF Register, Return, Goto
<1>4. ASSUME NEW c \in Calls, LockWrite(c) PROVE LostOnlyIfGone'
  BY <1>4, Names DEF LockWrite, Goto
<1>5. ASSUME NEW c \in Calls, WriteOK(c) PROVE LostOnlyIfGone'
  BY <1>5, Names DEF WriteOK, Goto
<1>6. ASSUME NEW c \in Calls, WriteErr(c) PROVE LostOnlyIfGone'
  BY <1>6, Names DEF WriteErr, Goto
<1>7. ASSUME NEW c \in Calls, Unregister(c) PROVE LostOnlyIfGone'
  BY <1>7, Names DEF Unregister, Goto, StartKill
<1>8. ASSUME NEW c \in Calls, Receive(c) PROVE LostOnlyIfGone'
  BY <1>8, Names DEF Receive, Return, Goto
<1>9. ASSUME NEW c \in Calls, Expire(c) PROVE LostOnlyIfGone'
  BY <1>9, Names DEF Expire, Goto
<1>10. ASSUME NEW c \in Calls, Forget(c) PROVE LostOnlyIfGone'
  BY <1>10, Names DEF Forget, Return, Goto
<1>11. ASSUME NEW c \in Calls, CtxDone(c) PROVE LostOnlyIfGone'
  BY <1>11, Names DEF CtxDone
<1>12. ASSUME ReadResp PROVE LostOnlyIfGone'
  BY <1>12, Names DEF ReadResp, ReadFrame
<1>13. ASSUME ReadDup PROVE LostOnlyIfGone'
  BY <1>13, Names DEF ReadDup, ReadFrame
<1>14. ASSUME ReadPush PROVE LostOnlyIfGone'
  BY <1>14, Names DEF ReadPush, ReadFrame
<1>15. ASSUME BadFrame PROVE LostOnlyIfGone'
  BY <1>15, Names DEF BadFrame, ReaderFails, StartKill
<1>16. ASSUME ReadErr PROVE LostOnlyIfGone'
  BY <1>16, Names DEF ReadErr, ReaderFails, StartKill
<1>17. ASSUME ReservedPush PROVE LostOnlyIfGone'
  BY <1>17, Names DEF ReservedPush, ReaderFails, StartKill
<1>18. ASSUME PushFrame PROVE LostOnlyIfGone'
  <2>1. frame.of = None
    BY <1>18 DEF PushFrame, ReplyInv
  <2> QED
    BY <1>18, <2>1, Names DEF PushFrame
<1>19. ASSUME HookReturns PROVE LostOnlyIfGone'
  BY <1>19, Names DEF HookReturns, HookIdle
<1>20. ASSUME Demux PROVE LostOnlyIfGone'
  <2> SUFFICES ASSUME NEW c \in Calls, frame.of = c, pending[frame.id] = None, alive,
                      pc[c] \notin {"forget", "done"}
               PROVE  FALSE
    BY <1>20, Names DEF Demux
  <2>1. /\ rpc = "route" /\ c \in answered /\ frame.id = id[c] /\ pc[c] = "await"
        /\ hand = None
    BY <1>20, Names DEF Demux, ReplyInv, PlaceInv
  <2>2. \A k \in Killers : c \notin drained[k]
    BY <2>1 DEF KillInv, DrainInv
  <2>3. Settled(c)
    BY <2>1, <2>2, Names DEF WaitInv, Entered
  <2>4. ch[c] \in Results
    BY <2>1, <2>3, ResultsApart DEF Settled, PlaceInv
  <2>5. ch[c].of = None
    BY <1>20, <2>1 DEF Demux, ReplyInv
  <2>6. PICK e \in Errs : ch[c] = Error(e)
    BY <2>4, <2>5, Names DEF Results, Reply
  <2>7. Blamed(e)
    BY <2>6 DEF Blamed, Error
  <2> QED
    BY <2>7 DEF BlameInv
<1>21. ASSUME Deliver PROVE LostOnlyIfGone'
  BY <1>21, Names DEF Deliver
<1>22. ASSUME NEW k \in Killers, KillPoison(k) PROVE LostOnlyIfGone'
  BY <1>22, Names DEF KillPoison
<1>23. ASSUME NEW k \in Killers, KillSend(k) PROVE LostOnlyIfGone'
  BY <1>23, Names DEF KillSend
<1>24. ASSUME NEW k \in Killers, KillClose(k) PROVE LostOnlyIfGone'
  BY <1>24, Names DEF KillClose, Return, Goto
<1>25. ASSUME StartClose PROVE LostOnlyIfGone'
  BY <1>25, Names DEF StartClose, StartKill
<1>26. ASSUME PeerStalls PROVE LostOnlyIfGone'
  BY <1>26, Names DEF PeerStalls, PeerChanges
<1>27. ASSUME PeerGoes PROVE LostOnlyIfGone'
  BY <1>27, Names DEF PeerGoes, PeerChanges
<1>28. CASE UNCHANGED vars
  BY <1>28 DEF vars
<1> QED
  BY <1>1, <1>2, <1>3, <1>4, <1>5, <1>6, <1>7, <1>8, <1>9, <1>10, <1>11, <1>12, <1>13,
     <1>14, <1>15, <1>16, <1>17, <1>18, <1>19, <1>20, <1>21, <1>22, <1>23, <1>24, <1>25,
     <1>26, <1>27, <1>28 DEF Next, CallStep, Read, Route, Kill

LEMMA InvariantKept == ASSUME IInv, IdsFresh, [Next]_vars PROVE IInv'
<1>1. CoreInv'
  BY TypeNext, KillNext, PendNext, PlaceNext, BlameNext, HookNext DEF IInv, CoreInv
<1>2. WaitInv' /\ ReplyInv' /\ LostOnlyIfGone'
  BY WaitNext, ReplyNext, LostNext DEF IInv, CoreInv, AnswerInv
<1> QED
  BY <1>1, <1>2 DEF IInv, AnswerInv

\* As long as no id is handed out too early the whole invariant holds.
THEOREM AnswersCorrect == FreshSpec => []IInv
<1>1. Init => IInv
  BY TypeInit, KillInit, PendInit, PlaceInit, BlameInit, HookInit,
     WaitInit, ReplyInit, LostInit DEF IInv, CoreInv, AnswerInv
<1>2. IInv /\ IdsFresh /\ [Next]_vars => IInv'
  BY InvariantKept
<1> QED
  BY <1>1, <1>2, PTL DEF Spec, FreshSpec

\* A call that waits is in the table of a live connection, in somebody's hands, or has
\* its result: register and poison leave no gap between them (client.go:382-391, :72-81).
THEOREM NobodyLost == FreshSpec => []NoLostWaiter
<1>1. IInv => NoLostWaiter
  <2> SUFFICES ASSUME IInv, NEW c \in Calls, Awaited(c)
               PROVE  Senders(c) >= 1 /\ \A i \in Ids : pending[i] = c => alive
    BY DEF NoLostWaiter
  <2> DEFINE I == {i \in Ids : pending[i] = c}
             K == {k \in Killers : c \in drained[k]}
  <2>1. \A i, j \in I : i = j
    BY DEF IInv, CoreInv, PendInv
  <2>2. \A k, l \in K : k = l
    BY DEF IInv, CoreInv, PlaceInv
  <2>3. Cardinality(I) = IF I = {} THEN 0 ELSE 1
    BY <2>1, AtMostOne
  <2>4. Cardinality(K) = IF K = {} THEN 0 ELSE 1
    BY <2>2, AtMostOne
  <2>5. I # {} \/ hand = c \/ K # {} \/ Settled(c)
    BY DEF IInv, CoreInv, TypeOK, AnswerInv, WaitInv, Awaited, Entered
  <2>6. Senders(c) = Cardinality(I) + One(hand = c) + Cardinality(K) + One(Settled(c))
    BY DEF Senders, Settled
  <2>7. \A i \in Ids : pending[i] = c => alive
    BY DEF IInv, CoreInv, PendInv
  <2> HIDE DEF I, K
  <2>8. Senders(c) >= 1
    BY <2>3, <2>4, <2>5, <2>6 DEF One
  <2> QED
    BY <2>7, <2>8
<1> QED
  BY <1>1, AnswersCorrect, PTL

\* A call gets the answer to its own request, in whatever order answers arrive and
\* whoever timed out before (CLT-010).
THEOREM OwnAnswer == FreshSpec => []RightAnswer
<1>1. IInv => RightAnswer
  BY DEF IInv, AnswerInv, ReplyInv, RightAnswer
<1> QED
  BY <1>1, AnswersCorrect, PTL

\* The reader throws an answer away only if its call has given up or the connection
\* is dead (client.go:473-483).
THEOREM LossExcused == FreshSpec => []LostOnlyIfGone
<1>1. IInv => LostOnlyIfGone
  BY DEF IInv, AnswerInv
<1> QED
  BY <1>1, AnswersCorrect, PTL

-----------------------------------------------------------------------------
(* Dispatch *)

\* What a call has coming, by cases.
SlotIs == \A c \in Calls :
            /\ pc[c] \in {"kill", "done"} => Slot(c) = "empty"
            /\ pc[c] \notin {"kill", "done"} =>
                 /\ ch[c] # Empty => Slot(c) = Word(ch[c])
                 /\ ch[c] = Empty /\ hand = c => Slot(c) = "answer"
                 /\ ch[c] = Empty /\ hand # c =>
                      /\ \A k \in Killers : c \in drained[k] => Slot(c) = kerr[k]
                      /\ (\A k \in Killers : c \notin drained[k]) => Slot(c) = "empty"

\* Slot, without its CHOOSE.
LEMMA SlotKnown == IInv => SlotIs
<1> SUFFICES ASSUME IInv, NEW c \in Calls
             PROVE  /\ pc[c] \in {"kill", "done"} => Slot(c) = "empty"
                    /\ pc[c] \notin {"kill", "done"} =>
                         /\ ch[c] # Empty => Slot(c) = Word(ch[c])
                         /\ ch[c] = Empty /\ hand = c => Slot(c) = "answer"
                         /\ ch[c] = Empty /\ hand # c =>
                              /\ \A k \in Killers : c \in drained[k] => Slot(c) = kerr[k]
                              /\ (\A k \in Killers : c \notin drained[k]) => Slot(c) = "empty"
  BY DEF SlotIs
<1> DEFINE K == {k \in Killers : c \in drained[k]}
<1>1. ASSUME NEW k \in Killers, c \in drained[k] PROVE (CHOOSE l \in K : TRUE) = k
  <2>1. K = {k}
    BY <1>1 DEF IInv, CoreInv, PlaceInv
  <2> QED
    BY <2>1
<1>2. (\A k \in Killers : c \notin drained[k]) <=> K = {}
  OBVIOUS
<1>3. pc[c] \notin {"kill", "done"} /\ ch[c] = Empty /\ hand # c =>
        Slot(c) = IF K = {} THEN "empty" ELSE kerr[CHOOSE k \in K : TRUE]
  BY DEF Slot
<1>4. /\ pc[c] \in {"kill", "done"} => Slot(c) = "empty"
      /\ pc[c] \notin {"kill", "done"} /\ ch[c] # Empty => Slot(c) = Word(ch[c])
      /\ pc[c] \notin {"kill", "done"} /\ ch[c] = Empty /\ hand = c => Slot(c) = "answer"
  <2>1. hand = c => ch[c] = Empty
    BY DEF IInv, CoreInv, PlaceInv, Settled
  <2> QED
    BY <2>1 DEF Slot
<1> HIDE DEF K
<1> QED
  BY <1>1, <1>2, <1>3, <1>4

LEMMA SlotKnownNext == IInv' => SlotIs'
BY SlotKnown, PTL

\* Results as Dispatch writes them.
LEMMA Words == /\ Word(Empty) = "none"
               /\ Word(Error("ctx")) = "ctx" /\ Word(Error("resend")) = "resend"
               /\ \A c \in Calls : Word(Reply(c)) = "answer"
               /\ \A e \in Errs : Word(Error(e)) = e
               /\ \A r \in Results : Word(r) \in Errs \cup {"answer"}
               /\ "empty" \notin Errs \cup {"answer"}
<1>1. /\ Word(Empty) = "none"
      /\ Word(Error("ctx")) = "ctx" /\ Word(Error("resend")) = "resend"
      /\ \A e \in Errs : Word(Error(e)) = e
  BY DEF Word, Empty, Error
<1>2. \A c \in Calls : Word(Reply(c)) = "answer"
  BY Names DEF Word, Reply
<1> QED
  BY <1>1, <1>2 DEF Results, Errs

\* Nothing happens in Dispatch.
LEMMA Stutters ==
  ASSUME UNCHANGED <<alive, outcome>>,
         \A d \in Calls : Stage(d)' = Stage(d) /\ Slot(d)' = Slot(d)
  PROVE  UNCHANGED Promise!vars
BY DEF Promise!vars

\* What a call has coming depends on nothing else.
LEMMA SlotKept ==
  ASSUME UNCHANGED <<ch, hand, drained, kerr>>, NEW d \in Calls,
         pc'[d] \in {"kill", "done"} <=> pc[d] \in {"kill", "done"}
  PROVE  Slot(d)' = Slot(d)
BY DEF Slot

LEMMA DispatchInit == Init => Promise!Init
<1> SUFFICES ASSUME Init PROVE Promise!Init
  OBVIOUS
<1>1. \A c \in Calls : Stage(c) = "new" /\ Word(outcome[c]) = "none"
  BY Words DEF Init, Stage
<1>2. \A c \in Calls : Slot(c) = "empty"
  BY Names DEF Init, Slot
<1> QED
  BY <1>1, <1>2 DEF Init, Promise!Init

\* A call leaves with result r.
LEMMA Returns ==
  ASSUME NEW c \in Calls, NEW r, alive' = alive,
         \A d \in Calls : Slot(d)' = IF d = c THEN "empty" ELSE Slot(d),
         \A d \in Calls : Stage(d)' = IF d = c THEN "done" ELSE Stage(d),
         \A d \in Calls : Word(outcome'[d]) = IF d = c THEN r ELSE Word(outcome[d])
  PROVE  Promise!Return(c, r)
BY DEF Promise!Return

\* A step of the connection is one step of Dispatch or none.
LEMMA DispatchNext ==
  ASSUME IInv, IInv', IdsFresh, [Next]_vars
  PROVE  Promise!Next \/ UNCHANGED Promise!vars
<1> DEFINE Goal == Promise!Next \/ UNCHANGED Promise!vars
<1> USE DEF callVars, ioVars, routeVars, readVars, killVars
<1>a. SlotIs /\ SlotIs'
  BY SlotKnown, SlotKnownNext
<1>b. TypeOK
  BY DEF IInv, CoreInv
<1> USE <1>a, <1>b DEF TypeOK
<1>1. ASSUME NEW c \in Calls, StartCall(c) PROVE Goal
  <2>1. /\ UNCHANGED <<alive, outcome, ch, hand, drained, kerr>>
        /\ \A d \in Calls : Stage(d)' = Stage(d)
        /\ \A d \in Calls : pc'[d] \in {"kill", "done"} <=> pc[d] \in {"kill", "done"}
    BY <1>1 DEF StartCall, Begin, Goto, Stage
  <2> QED
    BY <2>1, SlotKept, Stutters
<1>2. ASSUME NEW c \in Calls, HookCall(c) PROVE Goal
  <2>1. /\ UNCHANGED <<alive, outcome, ch, hand, drained, kerr>>
        /\ \A d \in Calls : Stage(d)' = Stage(d)
        /\ \A d \in Calls : pc'[d] \in {"kill", "done"} <=> pc[d] \in {"kill", "done"}
    BY <1>2 DEF HookCall, Begin, Goto, HookIdle, Stage
  <2> QED
    BY <2>1, SlotKept, Stutters
<1>3. ASSUME NEW c \in Calls, Register(c) PROVE Goal
  <2>1. /\ pc[c] = "register" /\ UNCHANGED <<ch, hand, drained, kerr, alive>>
        /\ pc' = [pc EXCEPT ![c] = IF alive THEN "lock" ELSE "done"]
        /\ outcome' = IF alive THEN outcome ELSE [outcome EXCEPT ![c] = Error("resend")]
    BY <1>3 DEF Register, Return, Goto
  <2>2. Slot(c) = "empty"
    BY <2>1, Names DEF SlotIs, IInv, CoreInv, PlaceInv, Settled
  <2>3. \A d \in Calls : Slot(d)' = Slot(d)
    <3>1. Slot(c)' = "empty"
      BY <2>1, Names DEF SlotIs, IInv, CoreInv, PlaceInv, Settled
    <3>2. ASSUME NEW d \in Calls, d # c PROVE Slot(d)' = Slot(d)
      BY <2>1, <3>2, SlotKept
    <3> QED
      BY <2>2, <3>1, <3>2
  <2>4. \A d \in Calls : Stage(d)' = IF d # c THEN Stage(d) ELSE IF alive THEN "open" ELSE "done"
    BY <2>1 DEF Stage
  <2>5. Stage(c) = "new"
    BY <2>1 DEF Stage
  <2>6. CASE alive
    <3>1. Promise!Enter(c)
      BY <2>1, <2>3, <2>4, <2>5, <2>6 DEF Promise!Enter
    <3> QED
      BY <3>1 DEF Promise!Next
  <2>7. CASE ~alive
    <3>1. \A d \in Calls : Word(outcome'[d]) = IF d = c THEN "resend" ELSE Word(outcome[d])
      BY <2>1, <2>7, Words
    <3>2. Promise!Refuse(c)
      <4>1. Promise!Return(c, "resend")
        BY <2>1, <2>2, <2>3, <2>4, <2>7, <3>1, Returns
      <4> QED
        BY <2>5, <2>7, <4>1 DEF Promise!Refuse
    <3> QED
      BY <3>2 DEF Promise!Next
  <2> QED
    BY <2>6, <2>7
<1>4. ASSUME NEW c \in Calls, LockWrite(c) PROVE Goal
  <2>1. /\ UNCHANGED <<alive, outcome, ch, hand, drained, kerr>>
        /\ \A d \in Calls : Stage(d)' = Stage(d)
        /\ \A d \in Calls : pc'[d] \in {"kill", "done"} <=> pc[d] \in {"kill", "done"}
    BY <1>4 DEF LockWrite, Goto, Stage
  <2> QED
    BY <2>1, SlotKept, Stutters
<1>5. ASSUME NEW c \in Calls, WriteOK(c) PROVE Goal
  <2>1. /\ UNCHANGED <<alive, outcome, ch, hand, drained, kerr>>
        /\ pc[c] = "write" /\ pc' = [pc EXCEPT ![c] = "await"]
    BY <1>5 DEF WriteOK, Goto
  <2>2. \A d \in Calls : Slot(d)' = Slot(d)
    BY <2>1, SlotKept
  <2>3. \A d \in Calls : Stage(d)' = IF d = c THEN "sent" ELSE Stage(d)
    BY <2>1 DEF Stage
  <2>4. Stage(c) = "open"
    BY <2>1 DEF Stage
  <2>5. Promise!Send(c)
    BY <2>1, <2>2, <2>3, <2>4 DEF Promise!Send
  <2> QED
    BY <2>5 DEF Promise!Next
<1>6. ASSUME NEW c \in Calls, WriteErr(c) PROVE Goal
  <2>1. /\ UNCHANGED <<alive, outcome, ch, hand, drained, kerr>>
        /\ \A d \in Calls : Stage(d)' = Stage(d)
        /\ \A d \in Calls : pc'[d] \in {"kill", "done"} <=> pc[d] \in {"kill", "done"}
    BY <1>6 DEF WriteErr, Goto, Stage
  <2> QED
    BY <2>1, SlotKept, Stutters
<1>7. ASSUME NEW c \in Calls, Unregister(c) PROVE Goal
  <2>1. /\ UNCHANGED <<alive, outcome, ch, hand, drained>>
        /\ pc[c] = "unregister" /\ pc' = [pc EXCEPT ![c] = "kill"]
        /\ \A k \in Killers : k # c => kerr'[k] = kerr[k]
    BY <1>7 DEF Unregister, Goto, StartKill
  <2>2. drained[c] = {}
    BY <2>1, Names DEF IInv, CoreInv, KillInv, DrainInv
  <2>3. \A d \in Calls : Slot(d)' = IF d = c THEN "empty" ELSE Slot(d)
    BY <2>1, <2>2 DEF SlotIs
  <2>4. \A d \in Calls : Stage(d)' = IF d = c THEN "aborted" ELSE Stage(d)
    BY <2>1 DEF Stage
  <2>5. Stage(c) = "open"
    BY <2>1 DEF Stage
  <2>6. Promise!Abort(c)
    BY <2>1, <2>3, <2>4, <2>5 DEF Promise!Abort
  <2> QED
    BY <2>6 DEF Promise!Next
<1>8. ASSUME NEW c \in Calls, Receive(c) PROVE Goal
  <2>1. /\ UNCHANGED <<alive, hand, drained, kerr>>
        /\ pc[c] = "await" /\ pc' = [pc EXCEPT ![c] = "done"]
        /\ ch' = [ch EXCEPT ![c] = Empty] /\ outcome' = [outcome EXCEPT ![c] = ch[c]]
        /\ ch[c] \in Results
    BY <1>8 DEF Receive, Return, Goto
  <2>2. \A d \in Calls : Slot(d)' = IF d = c THEN "empty" ELSE Slot(d)
    BY <2>1 DEF SlotIs
  <2>3. \A d \in Calls : Stage(d)' = IF d = c THEN "done" ELSE Stage(d)
    BY <2>1 DEF Stage
  <2>4. Stage(c) = "sent" /\ Slot(c) = Word(ch[c]) /\ Slot(c) # "empty"
    BY <1>8, <2>1, Words DEF Receive, Stage, SlotIs
  <2>5. \A d \in Calls : Word(outcome'[d]) = IF d = c THEN Slot(c) ELSE Word(outcome[d])
    BY <2>1, <2>4
  <2>6. Promise!Take(c)
    <3>1. Promise!Return(c, Slot(c))
      BY <2>1, <2>2, <2>3, <2>5, Returns
    <3> QED
      BY <2>4, <3>1 DEF Promise!Take
  <2> QED
    BY <2>6 DEF Promise!Next
<1>9. ASSUME NEW c \in Calls, Expire(c) PROVE Goal
  <2>1. /\ UNCHANGED <<alive, outcome, ch, hand, drained, kerr>>
        /\ \A d \in Calls : Stage(d)' = Stage(d)
        /\ \A d \in Calls : pc'[d] \in {"kill", "done"} <=> pc[d] \in {"kill", "done"}
    BY <1>9 DEF Expire, Goto, Stage
  <2> QED
    BY <2>1, SlotKept, Stutters
<1>10. ASSUME NEW c \in Calls, Forget(c) PROVE Goal
  <2>1. /\ UNCHANGED <<alive, hand, drained, kerr, ch>>
        /\ pc[c] = "forget" /\ pc' = [pc EXCEPT ![c] = "done"]
        /\ outcome' = [outcome EXCEPT ![c] = Error("ctx")]
    BY <1>10 DEF Forget, Return, Goto
  <2>2. \A d \in Calls : Slot(d)' = IF d = c THEN "empty" ELSE Slot(d)
    BY <2>1 DEF SlotIs
  <2>3. \A d \in Calls : Stage(d)' = IF d = c THEN "done" ELSE Stage(d)
    BY <2>1 DEF Stage
  <2>4. Stage(c) = "sent"
    BY <2>1 DEF Stage
  <2>5. \A d \in Calls : Word(outcome'[d]) = IF d = c THEN "ctx" ELSE Word(outcome[d])
    BY <2>1, Words
  <2>6. Promise!GiveUp(c)
    <3>1. Promise!Return(c, "ctx")
      BY <2>1, <2>2, <2>3, <2>5, Returns
    <3> QED
      BY <2>4, <3>1 DEF Promise!GiveUp
  <2> QED
    BY <2>6 DEF Promise!Next
<1>11. ASSUME NEW c \in Calls, CtxDone(c) PROVE Goal
  <2>1. /\ UNCHANGED <<alive, outcome, ch, hand, drained, kerr>>
        /\ \A d \in Calls : Stage(d)' = Stage(d)
        /\ \A d \in Calls : pc'[d] \in {"kill", "done"} <=> pc[d] \in {"kill", "done"}
    BY <1>11 DEF CtxDone, Stage
  <2> QED
    BY <2>1, SlotKept, Stutters
<1>12. ASSUME ReadResp PROVE Goal
  <2>1. /\ UNCHANGED <<alive, outcome, ch, hand, drained, kerr>>
        /\ \A d \in Calls : Stage(d)' = Stage(d)
        /\ \A d \in Calls : pc'[d] \in {"kill", "done"} <=> pc[d] \in {"kill", "done"}
    BY <1>12 DEF ReadResp, ReadFrame, Stage
  <2> QED
    BY <2>1, SlotKept, Stutters
<1>13. ASSUME ReadDup PROVE Goal
  <2>1. /\ UNCHANGED <<alive, outcome, ch, hand, drained, kerr>>
        /\ \A d \in Calls : Stage(d)' = Stage(d)
        /\ \A d \in Calls : pc'[d] \in {"kill", "done"} <=> pc[d] \in {"kill", "done"}
    BY <1>13 DEF ReadDup, ReadFrame, Stage
  <2> QED
    BY <2>1, SlotKept, Stutters
<1>14. ASSUME ReadPush PROVE Goal
  <2>1. /\ UNCHANGED <<alive, outcome, ch, hand, drained, kerr>>
        /\ \A d \in Calls : Stage(d)' = Stage(d)
        /\ \A d \in Calls : pc'[d] \in {"kill", "done"} <=> pc[d] \in {"kill", "done"}
    BY <1>14 DEF ReadPush, ReadFrame, Stage
  <2> QED
    BY <2>1, SlotKept, Stutters
<1>15. ASSUME BadFrame PROVE Goal
  <2>1. /\ UNCHANGED <<alive, outcome, ch, hand, drained, pc>>
        /\ \A k \in Killers : k # Reader => kerr'[k] = kerr[k]
        /\ drained[Reader] = {}
    BY <1>15, Names DEF BadFrame, ReaderFails, StartKill, IInv, CoreInv, KillInv, DrainInv
  <2>2. \A d \in Calls : Slot(d)' = Slot(d)
    BY <2>1 DEF SlotIs
  <2>3. \A d \in Calls : Stage(d)' = Stage(d)
    BY <2>1 DEF Stage
  <2> QED
    BY <2>1, <2>2, <2>3, Stutters
<1>16. ASSUME ReadErr PROVE Goal
  <2>1. /\ UNCHANGED <<alive, outcome, ch, hand, drained, pc>>
        /\ \A k \in Killers : k # Reader => kerr'[k] = kerr[k]
        /\ drained[Reader] = {}
    BY <1>16, Names DEF ReadErr, ReaderFails, StartKill, IInv, CoreInv, KillInv, DrainInv
  <2>2. \A d \in Calls : Slot(d)' = Slot(d)
    BY <2>1 DEF SlotIs
  <2>3. \A d \in Calls : Stage(d)' = Stage(d)
    BY <2>1 DEF Stage
  <2> QED
    BY <2>1, <2>2, <2>3, Stutters
<1>17. ASSUME ReservedPush PROVE Goal
  <2>1. /\ UNCHANGED <<alive, outcome, ch, hand, drained, pc>>
        /\ \A k \in Killers : k # Reader => kerr'[k] = kerr[k]
        /\ drained[Reader] = {}
    BY <1>17, Names DEF ReservedPush, ReaderFails, StartKill, IInv, CoreInv, KillInv, DrainInv
  <2>2. \A d \in Calls : Slot(d)' = Slot(d)
    BY <2>1 DEF SlotIs
  <2>3. \A d \in Calls : Stage(d)' = Stage(d)
    BY <2>1 DEF Stage
  <2> QED
    BY <2>1, <2>2, <2>3, Stutters
<1>18. ASSUME PushFrame PROVE Goal
  <2>1. /\ UNCHANGED <<alive, outcome, ch, hand, drained, kerr>>
        /\ \A d \in Calls : Stage(d)' = Stage(d)
        /\ \A d \in Calls : pc'[d] \in {"kill", "done"} <=> pc[d] \in {"kill", "done"}
    BY <1>18 DEF PushFrame, Stage
  <2> QED
    BY <2>1, SlotKept, Stutters
<1>19. ASSUME HookReturns PROVE Goal
  <2>1. /\ UNCHANGED <<alive, outcome, ch, hand, drained, kerr>>
        /\ \A d \in Calls : Stage(d)' = Stage(d)
        /\ \A d \in Calls : pc'[d] \in {"kill", "done"} <=> pc[d] \in {"kill", "done"}
    BY <1>19 DEF HookReturns, HookIdle, Stage
  <2> QED
    BY <2>1, SlotKept, Stutters
<1>20. ASSUME Demux PROVE Goal
  <2>1. /\ rpc = "route" /\ hand = None /\ hand' = pending[frame.id]
        /\ UNCHANGED <<alive, outcome, ch, drained, kerr, pc>>
    BY <1>20, Names DEF Demux, IInv, CoreInv, PlaceInv
  <2>2. \A d \in Calls : Stage(d)' = Stage(d)
    BY <2>1 DEF Stage
  <2>3. CASE hand' = None
    BY <2>1, <2>2, <2>3, SlotKept, Stutters
  <2>4. ASSUME NEW c \in Calls, hand' = c PROVE Goal
    <3>1. /\ alive /\ pc[c] \in Entered /\ id[c] = frame.id
          /\ ch[c] = Empty
          /\ \A k \in Killers : c \notin drained[k]
      <4>1. frame.id \in Ids /\ pending[frame.id] = c
        BY <2>1, <2>4
      <4>2. ~Settled(c) /\ \A k \in Killers : c \notin drained[k]
        BY <4>1 DEF IInv, CoreInv, PlaceInv
      <4> QED
        BY <4>1, <4>2 DEF IInv, CoreInv, PendInv, Settled
    <3>2. HasId(c)
      BY <3>1 DEF HasId, Entered
    <3>3. c \in answered
      BY <2>1, <3>1, <3>2, Names DEF IdsFresh, IInv, AnswerInv, ReplyInv
    <3>4. pc[c] \in {"await", "forget", "done"}
      BY <3>3 DEF IInv, AnswerInv, ReplyInv
    <3>5. pc[c] \in {"await", "forget"}
      BY <3>1, <3>4 DEF Entered
    <3>6. Stage(c) = "sent" /\ Slot(c) = "empty"
      BY <2>1, <3>1, <3>5, Names DEF Stage, SlotIs
    <3>7. Slot(c)' = "answer"
      BY <2>1, <2>4, <3>1, <3>5 DEF SlotIs
    <3>8. ASSUME NEW e \in Calls, e # c PROVE Slot(e)' = Slot(e)
      BY <2>1, <2>4, <3>8, Names DEF Slot
    <3>9. Promise!Answer(c)
      BY <2>1, <2>2, <3>1, <3>6, <3>7, <3>8 DEF Promise!Answer
    <3> QED
      BY <3>9 DEF Promise!Next
  <2> QED
    BY <2>1, <2>3, <2>4
<1>21. ASSUME Deliver PROVE Goal
  <2> SUFFICES ASSUME NEW c \in Calls, hand = c PROVE Goal
    BY <1>21, Names DEF Deliver, IInv, CoreInv, PlaceInv
  <2>1. /\ UNCHANGED <<alive, outcome, drained, kerr, pc>>
        /\ hand' = None /\ ch[c] = Empty
        /\ ch' = [ch EXCEPT ![c] = Reply(c)]
    BY <1>21 DEF Deliver, IInv, AnswerInv, ReplyInv, Reply
  <2>2. \A d \in Calls : Stage(d)' = Stage(d)
    BY <2>1 DEF Stage
  <2>3. Reply(c) # Empty /\ Word(Reply(c)) = "answer"
    BY Names, Words DEF Reply, Empty
  <2>4. Slot(c)' = Slot(c)
    BY <2>1, <2>3 DEF SlotIs
  <2>5. ASSUME NEW d \in Calls, d # c PROVE Slot(d)' = Slot(d)
    BY <2>1, <2>5, Names DEF SlotIs
  <2> QED
    BY <2>1, <2>2, <2>4, <2>5, Stutters
<1>22. ASSUME NEW k \in Killers, KillPoison(k) PROVE Goal
  <2>1. /\ UNCHANGED <<outcome, hand, kerr, pc, ch>> /\ alive' = FALSE
        /\ drained' = [drained EXCEPT ![k] = {pending[i] : i \in Ids} \ {None}]
        /\ drained[k] = {} /\ kerr[k] \in Errs
    BY <1>22 DEF KillPoison, IInv, CoreInv, KillInv, DrainInv
  <2>2. \A d \in Calls : Stage(d)' = Stage(d)
    BY <2>1 DEF Stage
  <2>3. CASE ~alive
    <3>1. drained' = drained
      BY <2>1, <2>3 DEF IInv, CoreInv, PendInv
    <3> QED
      BY <2>1, <2>2, <2>3, <3>1, SlotKept, Stutters
  <2>4. CASE alive
    <3>1. \A d \in Calls : Promise!Registered(d) <=> pc[d] \in Entered
      BY DEF Promise!Registered, Stage, Entered
    <3>2. ASSUME NEW d \in Calls, pc[d] \in Entered, Slot(d) = "empty"
          PROVE  Slot(d)' = kerr[k]
      <4>1. pc[d] \notin {"kill", "done"}
        BY <3>2 DEF Entered
      <4>2. ch[d] = Empty
        BY <3>2, <4>1, Words DEF SlotIs
      <4>3. outcome[d] \notin Results
        BY <4>1, ResultsApart DEF IInv, CoreInv, PlaceInv
      <4>4. hand # d
        BY <3>2, <4>1, <4>2 DEF SlotIs
      <4>5. \A l \in Killers : d \notin drained[l]
        BY <2>4 DEF IInv, CoreInv, KillInv, DrainInv
      <4>6. pending[id[d]] = d
        BY <3>2, <4>2, <4>3, <4>4, <4>5 DEF IInv, AnswerInv, WaitInv, Settled
      <4>7. d \in drained'[k]
        BY <2>1, <4>6, Names
      <4> QED
        BY <2>1, <4>1, <4>2, <4>4, <4>7 DEF SlotIs
    <3>3. ASSUME NEW d \in Calls, ~(pc[d] \in Entered /\ Slot(d) = "empty")
          PROVE  Slot(d)' = Slot(d)
      <4>1. \A l \in Killers : d \notin drained[l]
        BY <2>4 DEF IInv, CoreInv, KillInv, DrainInv
      <4>2. CASE pc[d] \in {"kill", "done"} \/ ch[d] # Empty \/ hand = d
        BY <2>1, <4>2 DEF SlotIs
      <4>3. CASE pc[d] \notin {"kill", "done"} /\ ch[d] = Empty /\ hand # d
        <5>1. Slot(d) = "empty"
          BY <4>1, <4>3 DEF SlotIs
        <5>2. \A i \in Ids : pending[i] # d
          BY <3>3, <5>1 DEF IInv, CoreInv, PendInv
        <5>3. \A l \in Killers : d \notin drained'[l]
          BY <2>1, <4>1, <5>2
        <5> QED
          BY <2>1, <4>3, <5>1, <5>3 DEF SlotIs
      <4> QED
        BY <4>2, <4>3
    <3>4. Promise!Fail(kerr[k])
      BY <2>1, <2>2, <2>4, <3>1, <3>2, <3>3 DEF Promise!Fail
    <3> QED
      BY <2>1, <3>4 DEF Promise!Next
  <2> QED
    BY <2>3, <2>4
<1>23. ASSUME NEW k \in Killers, KillSend(k) PROVE Goal
  <2>1. PICK w \in drained[k] : /\ ch[w] = Empty
                              /\ ch' = [ch EXCEPT ![w] = Error(kerr[k])]
                              /\ drained' = [drained EXCEPT ![k] = @ \ {w}]
    BY <1>23 DEF KillSend
  <2>2. /\ UNCHANGED <<alive, outcome, hand, kerr, pc>>
        /\ w \in Calls /\ hand # w /\ kerr[k] \in Errs
    BY <1>23, <2>1 DEF KillSend, IInv, CoreInv, PlaceInv, KillInv, DrainInv
  <2>3. Error(kerr[k]) # Empty /\ Word(Error(kerr[k])) = kerr[k]
    BY <2>2, ResultFacts, ResultsApart, Words
  <2>4. Slot(w)' = Slot(w)
    BY <2>1, <2>2, <2>3 DEF SlotIs
  <2>5. ASSUME NEW d \in Calls, d # w PROVE Slot(d)' = Slot(d)
    BY <2>1, <2>2, <2>5 DEF SlotIs
  <2>6. \A d \in Calls : Stage(d)' = Stage(d)
    BY <2>2 DEF Stage
  <2> QED
    BY <2>2, <2>4, <2>5, <2>6, Stutters
<1>24. ASSUME NEW k \in Killers, KillClose(k) PROVE Goal
  <2>1. /\ UNCHANGED <<alive, ch, hand, drained>> /\ ~alive /\ drained[k] = {}
        /\ \A l \in Killers : l # k => kerr'[l] = kerr[l]
    BY <1>24 DEF KillClose, IInv, CoreInv, KillInv, DrainInv
  <2>2. ASSUME k \in Calls PROVE Goal
    <3>1. /\ pc[k] = "kill" /\ pc' = [pc EXCEPT ![k] = "done"]
          /\ outcome' = [outcome EXCEPT ![k] = Error("resend")]
      BY <1>24, <2>2 DEF KillClose, Return, Goto, IInv, CoreInv, KillInv
    <3>2. \A d \in Calls : Slot(d)' = Slot(d)
      BY <2>1, <3>1 DEF SlotIs
    <3>3. Slot(k) = "empty"
      BY <2>2, <3>1 DEF SlotIs
    <3>4. \A d \in Calls : Stage(d)' = IF d = k THEN "done" ELSE Stage(d)
      BY <3>1 DEF Stage
    <3>5. Stage(k) = "aborted"
      BY <3>1 DEF Stage
    <3>6. \A d \in Calls : Word(outcome'[d]) = IF d = k THEN "resend" ELSE Word(outcome[d])
      BY <3>1, Words
    <3>7. Promise!Return(k, "resend")
      BY <2>1, <2>2, <3>2, <3>3, <3>4, <3>6, Returns
    <3>8. Promise!Resend(k)
      BY <2>1, <2>2, <3>5, <3>7 DEF Promise!Resend
    <3> QED
      BY <2>2, <3>8 DEF Promise!Next
  <2>3. ASSUME k \notin Calls PROVE Goal
    <3>1. UNCHANGED <<outcome, pc>>
      BY <1>24, <2>3 DEF KillClose
    <3>2. \A d \in Calls : Slot(d)' = Slot(d)
      BY <2>1, <3>1 DEF SlotIs
    <3>3. \A d \in Calls : Stage(d)' = Stage(d)
      BY <3>1 DEF Stage
    <3> QED
      BY <2>1, <3>1, <3>2, <3>3, Stutters
  <2> QED
    BY <2>2, <2>3
<1>25. ASSUME StartClose PROVE Goal
  <2>1. /\ UNCHANGED <<alive, outcome, ch, hand, drained, pc>>
        /\ \A k \in Killers : k # Closer => kerr'[k] = kerr[k]
        /\ drained[Closer] = {}
    BY <1>25, Names DEF StartClose, StartKill, IInv, CoreInv, KillInv, DrainInv
  <2>2. \A d \in Calls : Slot(d)' = Slot(d)
    BY <2>1 DEF SlotIs
  <2>3. \A d \in Calls : Stage(d)' = Stage(d)
    BY <2>1 DEF Stage
  <2> QED
    BY <2>1, <2>2, <2>3, Stutters
<1>26. ASSUME PeerStalls PROVE Goal
  <2>1. /\ UNCHANGED <<alive, outcome, ch, hand, drained, kerr>>
        /\ \A d \in Calls : Stage(d)' = Stage(d)
        /\ \A d \in Calls : pc'[d] \in {"kill", "done"} <=> pc[d] \in {"kill", "done"}
    BY <1>26 DEF PeerStalls, PeerChanges, Stage
  <2> QED
    BY <2>1, SlotKept, Stutters
<1>27. ASSUME PeerGoes PROVE Goal
  <2>1. /\ UNCHANGED <<alive, outcome, ch, hand, drained, kerr>>
        /\ \A d \in Calls : Stage(d)' = Stage(d)
        /\ \A d \in Calls : pc'[d] \in {"kill", "done"} <=> pc[d] \in {"kill", "done"}
    BY <1>27 DEF PeerGoes, PeerChanges, Stage
  <2> QED
    BY <2>1, SlotKept, Stutters
<1>28. ASSUME UNCHANGED vars PROVE Goal
  <2>1. UNCHANGED <<alive, outcome, ch, hand, drained, kerr, pc>>
    BY <1>28 DEF vars
  <2>2. \A d \in Calls : Stage(d)' = Stage(d)
    BY <2>1 DEF Stage
  <2> QED
    BY <2>1, <2>2, SlotKept, Stutters
<1> QED
  BY <1>1, <1>2, <1>3, <1>4, <1>5, <1>6, <1>7, <1>8, <1>9, <1>10, <1>11, <1>12, <1>13,
     <1>14, <1>15, <1>16, <1>17, <1>18, <1>19, <1>20, <1>21, <1>22, <1>23, <1>24, <1>25,
     <1>26, <1>27, <1>28 DEF Next, CallStep, Read, Route, Kill

\* The connection implements the promise of Dispatch: each call that entered gets one
\* result, its answer, the one error the connection died of, or the end of its context;
\* a call told to try again is told so only once the connection is down
\* (client.go:72-88, :373-487).
THEOREM DispatchImplemented == FreshSpec => ImplementsDispatch
<1>1. Init => Promise!Init
  BY DispatchInit
<1>2. IInv /\ IInv' /\ IdsFresh /\ [Next]_vars => [Promise!Next]_Promise!vars
  BY DispatchNext
<1> QED
  BY <1>1, <1>2, AnswersCorrect, PTL DEF Spec, FreshSpec, ImplementsDispatch, Promise!Spec

-----------------------------------------------------------------------------
(* Fewer calls than ids *)

\* allocID comes round to no id of this connection. Whoever takes an id counts, also the
\* calls and handshakes of the client's other connections (client.go:263-270).
FewCalls == Cardinality(Calls) < IdSpace

Began(c) == pc[c] # "new"

\* Ids in the order in which they are handed out from f on, PushID left out.
Turn(f, i) == IF i >= f THEN i - f ELSE i - f + PushID

\* The n calls that began have the first n ids from f on, and the next one is the next
\* in turn.
CountInv == \E f \in Ids \ {PushID} :
              LET n == Cardinality({c \in Calls : Began(c)})
              IN  /\ \A c \in Calls : Began(c) => Turn(f, id[c]) < n
                  /\ n < PushID => Turn(f, AllocID) = n

\* No two calls have the same id.
IdsDistinct == \A c, d \in Calls : Began(c) /\ Began(d) /\ id[c] = id[d] => c = d

\* Ids and the counter change only when a call begins.
LEMMA Begins ==
  ASSUME TypeOK, KillInv, [Next]_vars
  PROVE  \/ \E c \in Calls : Begin(c)
         \/ UNCHANGED <<id, nextID>> /\ \A c \in Calls : Began(c)' <=> Began(c)
<1> DEFINE Kept == UNCHANGED <<id, nextID>> /\ \A c \in Calls : Began(c)' <=> Began(c)
           Goal == Kept \/ \E c \in Calls : Begin(c)
<1> USE DEF TypeOK, Began, callVars, ioVars, routeVars, readVars, killVars
<1>1. ASSUME NEW c \in Calls, StartCall(c) PROVE Goal
  BY <1>1 DEF StartCall
<1>2. ASSUME NEW c \in Calls, HookCall(c) PROVE Goal
  BY <1>2 DEF HookCall
<1>3. ASSUME NEW c \in Calls, Register(c) PROVE Goal
  BY <1>3 DEF Register, Return, Goto
<1>4. ASSUME NEW c \in Calls, LockWrite(c) PROVE Goal
  BY <1>4 DEF LockWrite, Goto
<1>5. ASSUME NEW c \in Calls, WriteOK(c) PROVE Goal
  BY <1>5 DEF WriteOK, Goto
<1>6. ASSUME NEW c \in Calls, WriteErr(c) PROVE Goal
  BY <1>6 DEF WriteErr, Goto
<1>7. ASSUME NEW c \in Calls, Unregister(c) PROVE Goal
  BY <1>7 DEF Unregister, Goto, StartKill
<1>8. ASSUME NEW c \in Calls, Receive(c) PROVE Goal
  BY <1>8 DEF Receive, Return, Goto
<1>9. ASSUME NEW c \in Calls, Expire(c) PROVE Goal
  BY <1>9 DEF Expire, Goto
<1>10. ASSUME NEW c \in Calls, Forget(c) PROVE Goal
  BY <1>10 DEF Forget, Return, Goto
<1>11. ASSUME NEW c \in Calls, CtxDone(c) PROVE Goal
  BY <1>11 DEF CtxDone
<1>12. ASSUME ReadResp PROVE Goal
  BY <1>12 DEF ReadResp, ReadFrame
<1>13. ASSUME ReadDup PROVE Goal
  BY <1>13 DEF ReadDup, ReadFrame
<1>14. ASSUME ReadPush PROVE Goal
  BY <1>14 DEF ReadPush, ReadFrame
<1>15. ASSUME BadFrame PROVE Goal
  BY <1>15 DEF BadFrame, ReaderFails, StartKill
<1>16. ASSUME ReadErr PROVE Goal
  BY <1>16 DEF ReadErr, ReaderFails, StartKill
<1>17. ASSUME ReservedPush PROVE Goal
  BY <1>17 DEF ReservedPush, ReaderFails, StartKill
<1>18. ASSUME PushFrame PROVE Goal
  BY <1>18 DEF PushFrame
<1>19. ASSUME HookReturns PROVE Goal
  BY <1>19 DEF HookReturns, HookIdle
<1>20. ASSUME Demux PROVE Goal
  BY <1>20 DEF Demux
<1>21. ASSUME Deliver PROVE Goal
  BY <1>21 DEF Deliver
<1>22. ASSUME NEW k \in Killers, KillPoison(k) PROVE Goal
  BY <1>22 DEF KillPoison
<1>23. ASSUME NEW k \in Killers, KillSend(k) PROVE Goal
  BY <1>23 DEF KillSend
<1>24. ASSUME NEW k \in Killers, KillClose(k) PROVE Goal
  BY <1>24 DEF KillClose, Return, Goto, KillInv
<1>25. ASSUME StartClose PROVE Goal
  BY <1>25 DEF StartClose, StartKill
<1>26. ASSUME PeerStalls PROVE Goal
  BY <1>26 DEF PeerStalls, PeerChanges
<1>27. ASSUME PeerGoes PROVE Goal
  BY <1>27 DEF PeerGoes, PeerChanges
<1>28. CASE UNCHANGED vars
  BY <1>28 DEF vars
<1> QED
  BY <1>1, <1>2, <1>3, <1>4, <1>5, <1>6, <1>7, <1>8, <1>9, <1>10, <1>11, <1>12, <1>13,
     <1>14, <1>15, <1>16, <1>17, <1>18, <1>19, <1>20, <1>21, <1>22, <1>23, <1>24, <1>25,
     <1>26, <1>27, <1>28 DEF Next, CallStep, Read, Route, Kill

LEMMA CountInit == Init => CountInv /\ IdsDistinct
<1> SUFFICES ASSUME Init PROVE CountInv /\ IdsDistinct
  OBVIOUS
<1>1. AllocID \in Ids \ {PushID}
  BY InitTypes, AllocFacts DEF Init
<1>2. {c \in Calls : Began(c)} = {}
  BY DEF Init, Began
<1>3. Cardinality({c \in Calls : Began(c)}) = 0
  BY <1>2, FS_EmptySet
<1>4. Turn(AllocID, AllocID) = 0
  BY <1>1 DEF Turn, Ids, PushID
<1>5. \A c \in Calls : ~Began(c)
  BY <1>2
<1> QED
  BY <1>1, <1>3, <1>4, <1>5 DEF CountInv, IdsDistinct

\* The next id in turn, also across the end of the space.
LEMMA TurnFacts ==
  ASSUME NEW f \in Ids \ {PushID}, NEW a \in Ids \ {PushID},
         Turn(f, a) + 1 < PushID
  PROVE  /\ a + 1 = PushID => Turn(f, 0) = Turn(f, a) + 1
         /\ a + 1 # PushID => Turn(f, a + 1) = Turn(f, a) + 1
BY IdSpaceType DEF Turn, Ids, PushID

\* A call that begins takes the next id in turn, which nobody has had.
LEMMA CountNext ==
  ASSUME FewCalls, TypeOK, KillInv, CountInv, IdsDistinct, [Next]_vars
  PROVE  CountInv' /\ IdsDistinct'
<1> DEFINE B == {c \in Calls : Began(c)}
           n == Cardinality(B)
<1>1. ASSUME NEW c \in Calls, Begin(c) PROVE CountInv' /\ IdsDistinct'
  <2>1. PICK f \in Ids \ {PushID} : /\ \A d \in Calls : Began(d) => Turn(f, id[d]) < n
                                    /\ n < PushID => Turn(f, AllocID) = n
    BY DEF CountInv
  <2>2. /\ pc[c] = "new" /\ id' = [id EXCEPT ![c] = AllocID]
        /\ nextID' = (AllocID + 1) % IdSpace /\ pc' = [pc EXCEPT ![c] = "register"]
    BY <1>1 DEF Begin, Goto
  <2>3. /\ AllocID \in Ids \ {PushID}
        /\ nextID' = AllocID + 1
    BY <2>2, AllocFacts DEF TypeOK
  <2>4. /\ c \notin B
        /\ B' = B \cup {c}
    BY <2>2 DEF Began, TypeOK
  <2>5. /\ IsFiniteSet(Calls) /\ IsFiniteSet(B) /\ n \in Nat
        /\ n' = n + 1 /\ n' <= Cardinality(Calls) /\ Cardinality(Calls) \in Nat
    <3>1. IsFiniteSet(Calls)
      BY MuxAssumption
    <3>2. IsFiniteSet(B) /\ B' \subseteq Calls
      BY <3>1, FS_Subset
    <3>3. Cardinality(B \cup {c}) = n + 1
      BY <2>4, <3>2, FS_AddElement
    <3>4. Cardinality(B') <= Cardinality(Calls) /\ Cardinality(Calls) \in Nat /\ n \in Nat
      BY <3>1, <3>2, FS_Subset, FS_CardinalityType
    <3> QED
      BY <2>4, <3>1, <3>2, <3>3, <3>4
  <2>6. n < PushID
    BY <2>5, IdSpaceType DEF FewCalls, PushID
  <2>7. /\ id'[c] = AllocID
        /\ \A d \in Calls \ {c} : id'[d] = id[d] /\ (Began(d)' <=> Began(d))
    BY <2>2 DEF TypeOK, Began
  <2>8. Turn(f, AllocID) = n
    BY <2>1, <2>6
  <2>9. \A d \in Calls : Began(d) => id[d] # AllocID
    BY <2>1, <2>5, <2>8
  <2>10. IdsDistinct'
    BY <2>4, <2>7, <2>9 DEF IdsDistinct
  <2>11. \A d \in Calls : Began(d)' => Turn(f, id'[d]) < n + 1
    <3>1. ASSUME NEW d \in Calls, d # c, Began(d)' PROVE Turn(f, id'[d]) < n + 1
      <4>1. Began(d) /\ id'[d] = id[d] /\ id[d] \in Ids
        BY <2>7, <3>1 DEF TypeOK
      <4>2. Turn(f, id[d]) \in Int
        BY <4>1, IdSpaceType DEF Turn, Ids, PushID
      <4>3. Turn(f, id[d]) < n
        BY <2>1, <4>1
      <4> QED
        BY <4>1, <4>2, <4>3, <2>5
    <3> QED
      BY <2>5, <2>7, <2>8, <3>1
  <2>12. n + 1 < PushID => Turn(f, AllocID') = n + 1
    <3> SUFFICES ASSUME n + 1 < PushID PROVE Turn(f, AllocID') = n + 1
      OBVIOUS
    <3>1. AllocID' = IF AllocID + 1 = PushID THEN 0 ELSE AllocID + 1
      BY <2>3, IdFacts DEF AllocID
    <3> HIDE DEF n
    <3> QED
      BY <2>3, <2>8, <3>1, TurnFacts
  <2>13. \A d \in Calls : Began(d)' => Turn(f, id[d]') < n'
    BY <2>5, <2>11
  <2>14. n' < PushID => Turn(f, AllocID') = n'
    BY <2>5, <2>12
  <2> QED
    BY <2>10, <2>13, <2>14 DEF CountInv
<1>2. ASSUME UNCHANGED <<id, nextID>>, \A c \in Calls : Began(c)' <=> Began(c)
      PROVE  CountInv' /\ IdsDistinct'
  <2>1. B' = B /\ AllocID' = AllocID
    BY <1>2 DEF AllocID
  <2> QED
    BY <1>2, <2>1 DEF CountInv, IdsDistinct
<1> QED
  BY <1>1, <1>2, Begins

\* The ids of the calls differ, and then what the server sends under the id of a call
\* is its answer, or it has been answered.
LEMMA DistinctAreFresh == ASSUME TypeOK, ReplyInv, IdsDistinct PROVE IdsFresh
<1>1. ASSUME NEW c \in Calls, rpc = "route", HasId(c), id[c] = frame.id PROVE c \in answered
  <2>1. frame.id # PushID /\ Began(c)
    BY <1>1 DEF TypeOK, HasId, Began
  <2>2. PICK d \in answered : id[d] = frame.id
    BY <1>1, <2>1 DEF ReplyInv
  <2>3. d \in Calls /\ Began(d)
    BY <2>2 DEF TypeOK, ReplyInv, Began
  <2> QED
    BY <1>1, <2>1, <2>2, <2>3 DEF IdsDistinct
<1> QED
  BY <1>1 DEF IdsFresh, IdsDistinct, HasId, Began

\* A client with fewer calls, on all its connections, than ids hands out none too early, whatever the server
\* repeats: what is said of FreshSpec holds of it without an assumption on ids.
THEOREM FewCallsAreFresh == ASSUME FewCalls PROVE Spec => FreshSpec
<1> DEFINE Inv == IInv /\ CountInv /\ IdsDistinct
<1>1. Init => Inv
  BY TypeInit, KillInit, PendInit, PlaceInit, BlameInit, HookInit,
     CountInit, WaitInit, ReplyInit, LostInit DEF IInv, CoreInv, AnswerInv
<1>2. Inv => IdsFresh
  BY DistinctAreFresh DEF IInv, CoreInv, AnswerInv
<1>3. Inv /\ [Next]_vars => Inv'
  <2> SUFFICES ASSUME Inv, [Next]_vars PROVE Inv'
    OBVIOUS
  <2>1. IInv'
    BY <1>2, InvariantKept
  <2>2. CountInv' /\ IdsDistinct'
    BY CountNext DEF IInv, CoreInv
  <2> QED
    BY <2>1, <2>2
<1> QED
  BY <1>1, <1>2, <1>3, PTL DEF Spec, FreshSpec

\* Such a connection implements the promise of Dispatch, with no assumption on ids.
THEOREM FewCallsDispatch == ASSUME FewCalls PROVE Spec => ImplementsDispatch
BY FewCallsAreFresh, DispatchImplemented
=============================================================================
