------------------------ MODULE ClientDispatchProofs ------------------------
(***************************************************************************)
(* For any number of calls and connections: each connection of the client  *)
(* is used as Dispatch.tla says (UsesDispatch of ClientDispatch.tla).      *)
(*                                                                         *)
(* AttemptInv adds to the invariant of ClientProofs.tla what is known of a *)
(* call's attempts: a connection that sent it back is dead and is not the  *)
(* one it works with.  A step of the client is then, seen from connection  *)
(* cn, a step of the one call that uses cn, the death of cn, or nothing.   *)
(***************************************************************************)
EXTENDS ClientDispatch, ClientProofs

AttemptInv ==
  /\ tried \in [Calls -> SUBSET Conns]
  /\ \A c \in Calls : \A cn \in tried[c] : Known(cn) /\ cn \notin up
  /\ \A c \in Calls : pc[c] \in WithConn => my[c] \notin tried[c]
  /\ \A c \in Calls : pc[c] = "failed" => my[c] \notin up
  /\ \A c \in Calls : pc[c] \in {"await", "answered"} => wrote[c] = {my[c]}

TrackInv == IInv /\ AttemptInv

\* Where a call is not in dispatchOnce, or not registered yet.
Outside == Places \ {"write", "kill", "failed", "await", "answered", "done"}

\* What connection cn sees of a call.
Row(c, cn) == <<Stage(c, cn), Slot(c, cn), Gave(c, cn)>>

\* The call does nothing cn can see.
Quiet(c) == /\ UNCHANGED <<wrote[c], tried[c]>>
            /\ \/ UNCHANGED <<pc[c], my[c], outcome[c]>>
               \/ pc[c] \in Outside /\ pc'[c] \in Outside \cup {"done"}
               \/ pc[c] = "kill" /\ pc'[c] = "failed" /\ my'[c] = my[c]
-----------------------------------------------------------------------------
(* Steps that no connection notices, except that one may die. *)

LEMMA QuietRow ==
  ASSUME TrackInv, NEW c \in Calls, NEW cn \in Conns, Quiet(c)
  PROVE  /\ Stage(c, cn)' = Stage(c, cn)
         /\ Gave(c, cn)' = Gave(c, cn)
         /\ Usable(cn)' = Usable(cn) => Slot(c, cn)' = Slot(c, cn)
         /\ Usable(cn) /\ ~Usable(cn)' =>
              Slot(c, cn)' = IF Stage(c, cn) \in {"open", "sent"} /\ Slot(c, cn) = "empty"
                               THEN "conn" ELSE Slot(c, cn)
<1>1. pc[c] \in Outside => wrote[c] = {}
  BY DEF TrackInv, IInv, WroteInv, Outside
<1>2. CASE UNCHANGED <<pc[c], my[c], outcome[c]>>
  BY <1>2 DEF Quiet, Stage, Slot, Gave
<1>3. CASE pc[c] \in Outside /\ pc'[c] \in Outside \cup {"done"}
  BY <1>1, <1>3 DEF Quiet, Stage, Slot, Gave, Outside
<1>4. CASE pc[c] = "kill" /\ pc'[c] = "failed" /\ my'[c] = my[c]
  BY <1>4 DEF Quiet, Stage, Slot, Gave
<1> QED
  BY <1>2, <1>3, <1>4 DEF Quiet

\* Nothing, or the death of cn.
LEMMA QuietStep ==
  ASSUME TrackInv, NEW cn \in Conns, \A c \in Calls : Quiet(c),
         Usable(cn)' => Usable(cn)
  PROVE  UNCHANGED Of(cn)!vars \/ Of(cn)!Next
<1>1. CASE Usable(cn)' = Usable(cn)
  BY <1>1, QuietRow DEF Of!vars, Stages, Slots, Results
<1>2. CASE Usable(cn) /\ ~Usable(cn)'
  <2>1. Of(cn)!Fail("conn")
    BY <1>2, QuietRow DEF Of!Fail, Of!Registered, Stages, Slots, Results
  <2> QED
    BY <2>1 DEF Of!Next
<1> QED
  BY <1>1, <1>2 DEF Usable
-----------------------------------------------------------------------------
(* Steps of dispatchOnce: one call moves, no connection dies. *)

Alone(c) == /\ UNCHANGED <<up, dialed>>
            /\ \A d \in Calls \ {c} : UNCHANGED <<pc[d], my[d], outcome[d], wrote[d], tried[d]>>

Moves(c, l) == Alone(c) /\ pc'[c] = l /\ UNCHANGED <<my[c], outcome[c], tried[c]>>
Leaves(c, r) == /\ Alone(c) /\ pc'[c] = "done" /\ my'[c] = None /\ outcome'[c] = r
                /\ UNCHANGED <<wrote[c], tried[c]>>
IsSentBack(c) == /\ Alone(c) /\ pc[c] \in {"register", "failed"} /\ pc'[c] \in {"check", "done"}
                 /\ my[c] \notin up
                 /\ wrote'[c] = wrote[c] /\ tried'[c] = tried[c] \cup {my[c]}

LEMMA AloneRows ==
  ASSUME NEW c \in Calls, NEW cn \in Conns, Alone(c)
  PROVE  /\ Usable(cn)' = Usable(cn)
         /\ \A d \in Calls \ {c} : /\ Stage(d, cn)' = Stage(d, cn)
                                   /\ Slot(d, cn)' = Slot(d, cn)
                                   /\ Gave(d, cn)' = Gave(d, cn)
BY DEF Alone, Usable, Stage, Slot, Gave

\* The connection a call works with is known, and was not tried before.
LEMMA Mine ==
  ASSUME TrackInv, NEW c \in Calls, pc[c] \in WithConn
  PROVE  /\ my[c] \in Conns /\ my[c] \notin tried[c]
         /\ Usable(my[c]) <=> my[c] \in up
         /\ pc[c] \notin {"await", "answered"} => wrote[c] = {}
         /\ pc[c] \in {"await", "answered"} => wrote[c] = {my[c]}
<1>1. TypeOK /\ KnownInv /\ WroteInv /\ AttemptInv /\ c \in Actors
  BY DEF TrackInv, IInv, Actors
<1>2. my[c] \in Conns /\ Known(my[c])
  BY <1>1, KnownConns DEF KnownInv
<1>3. ~(my[c] > dialed)
  BY <1>1, <1>2, ClientAssumption DEF Known, TypeOK, Conns
<1> QED
  BY <1>1, <1>2, <1>3 DEF AttemptInv, WroteInv, Usable, WithConn

\* The other connections see nothing of it.
LEMMA Unseen ==
  ASSUME NEW c \in Calls, NEW cn \in Conns, Alone(c),
         Stage(c, cn)' = Stage(c, cn), Slot(c, cn)' = Slot(c, cn), Gave(c, cn)' = Gave(c, cn)
  PROVE  UNCHANGED Of(cn)!vars
BY AloneRows DEF Of!vars, Stages, Slots, Results

LEMMA MovesUnseen ==
  ASSUME TrackInv, NEW c \in Calls, NEW cn \in Conns, NEW l,
         pc[c] \in WithConn,
         Moves(c, l), l # "done", cn # my[c],
         wrote[c] \subseteq wrote'[c], wrote'[c] \subseteq wrote[c] \cup {my[c]}
  PROVE  UNCHANGED Of(cn)!vars
<1>1. pc[c] # "done" /\ pc'[c] # "done" /\ my'[c] # cn
  BY DEF Moves, WithConn
<1>2. cn \in wrote'[c] <=> cn \in wrote[c]
  OBVIOUS
<1>3. Stage(c, cn)' = Stage(c, cn) /\ Slot(c, cn)' = Slot(c, cn) /\ Gave(c, cn)' = Gave(c, cn)
  BY <1>1, <1>2 DEF Moves, Stage, Slot, Gave
<1> QED
  BY <1>3, Unseen DEF Moves

\* Its own connection sees nothing else.
LEMMA OneRow ==
  ASSUME NEW c \in Calls, NEW cn \in Conns, Alone(c)
  PROVE  /\ UNCHANGED Usable(cn)
         /\ \A s : Stage(c, cn)' = s => Stages(cn)' = [Stages(cn) EXCEPT ![c] = s]
         /\ \A s : Slot(c, cn)' = s => Slots(cn)' = [Slots(cn) EXCEPT ![c] = s]
         /\ \A s : Gave(c, cn)' = s => Results(cn)' = [Results(cn) EXCEPT ![c] = s]
         /\ Stage(c, cn)' = Stage(c, cn) => UNCHANGED Stages(cn)
         /\ Slot(c, cn)' = Slot(c, cn) => UNCHANGED Slots(cn)
         /\ Gave(c, cn)' = Gave(c, cn) => UNCHANGED Results(cn)
BY AloneRows DEF Stages, Slots, Results

LEMMA RowAt ==
  ASSUME NEW c \in Calls, NEW cn
  PROVE  Stages(cn)[c] = Stage(c, cn) /\ Slots(cn)[c] = Slot(c, cn)
BY DEF Stages, Slots

\* Registered on a living connection.
LEMMA EnterStep ==
  ASSUME TrackInv, NEW c \in Calls, NEW cn \in Conns,
         pc[c] = "register", my[c] \in up, Moves(c, "write"), wrote'[c] = wrote[c]
  PROVE  UNCHANGED Of(cn)!vars \/ Of(cn)!Next
<1>1. CASE cn # my[c]
  BY <1>1, MovesUnseen DEF WithConn
<1>2. CASE cn = my[c]
  <2>1. /\ Usable(cn)
         /\ Stage(c, cn) = "new" /\ Stage(c, cn)' = "open"
         /\ Slot(c, cn)' = Slot(c, cn) /\ Gave(c, cn)' = Gave(c, cn)
    BY <1>2, Mine DEF Moves, Alone, Usable, Stage, Slot, Gave, WithConn
  <2>2. Of(cn)!Enter(c)
    BY <1>2, <2>1, OneRow, RowAt DEF Of!Enter, Moves
  <2> QED
    BY <2>2 DEF Of!Next
<1> QED
  BY <1>1, <1>2

\* The frame is out.
LEMMA SendStep ==
  ASSUME TrackInv, NEW c \in Calls, NEW cn \in Conns,
         pc[c] = "write", Moves(c, "await"), wrote'[c] = wrote[c] \cup {my[c]}
  PROVE  UNCHANGED Of(cn)!vars \/ Of(cn)!Next
<1>1. CASE cn # my[c]
  BY <1>1, MovesUnseen DEF WithConn
<1>2. CASE cn = my[c]
  <2>1. /\ Stage(c, cn) = "open" /\ Stage(c, cn)' = "sent"
         /\ Slot(c, cn)' = Slot(c, cn) /\ Gave(c, cn)' = Gave(c, cn)
    BY <1>2, Mine DEF Moves, Alone, Usable, Stage, Slot, Gave, WithConn
  <2>2. Of(cn)!Send(c)
    BY <1>2, <2>1, OneRow, RowAt DEF Of!Send, Moves
  <2> QED
    BY <2>2 DEF Of!Next
<1> QED
  BY <1>1, <1>2

\* The frame is not, and the entry is taken back.
LEMMA AbortStep ==
  ASSUME TrackInv, NEW c \in Calls, NEW cn \in Conns,
         pc[c] = "write", Moves(c, "kill"), wrote'[c] = wrote[c]
  PROVE  UNCHANGED Of(cn)!vars \/ Of(cn)!Next
<1>1. CASE cn # my[c]
  BY <1>1, MovesUnseen DEF WithConn
<1>2. CASE cn = my[c]
  <2>1. /\ Stage(c, cn) = "open" /\ Stage(c, cn)' = "aborted"
         /\ Slot(c, cn)' = "empty" /\ Gave(c, cn)' = Gave(c, cn)
    BY <1>2, Mine DEF Moves, Alone, Usable, Stage, Slot, Gave, WithConn
  <2>2. Of(cn)!Abort(c)
    BY <1>2, <2>1, OneRow, RowAt DEF Of!Abort, Moves
  <2> QED
    BY <2>2 DEF Of!Next
<1> QED
  BY <1>1, <1>2

\* The answer is on the channel.
LEMMA AnswerStep ==
  ASSUME TrackInv, NEW c \in Calls, NEW cn \in Conns,
         pc[c] = "await", my[c] \in up, Moves(c, "answered"), wrote'[c] = wrote[c]
  PROVE  UNCHANGED Of(cn)!vars \/ Of(cn)!Next
<1>1. CASE cn # my[c]
  BY <1>1, MovesUnseen DEF WithConn
<1>2. CASE cn = my[c]
  <2>1. /\ Usable(cn)
         /\ Stage(c, cn) = "sent" /\ Stage(c, cn)' = Stage(c, cn)
         /\ Slot(c, cn) = "empty" /\ Slot(c, cn)' = "answer"
         /\ Gave(c, cn)' = Gave(c, cn)
    BY <1>2, Mine DEF Moves, Alone, Usable, Stage, Slot, Gave, WithConn
  <2>2. Of(cn)!Answer(c)
    BY <1>2, <2>1, OneRow, RowAt DEF Of!Answer, Moves
  <2> QED
    BY <2>2 DEF Of!Next
<1> QED
  BY <1>1, <1>2

\* The call is told to try another connection, this one being dead.
LEMMA SentBackStep ==
  ASSUME TrackInv, NEW c \in Calls, NEW cn \in Conns, IsSentBack(c)
  PROVE  UNCHANGED Of(cn)!vars \/ Of(cn)!Next
<1>1. /\ my[c] \in Conns /\ my[c] \notin tried[c] /\ ~Usable(my[c])
      /\ wrote[c] = {} /\ wrote'[c] = {}
      /\ tried'[c] = tried[c] \cup {my[c]}
      /\ pc'[c] \in {"check", "done"}
  BY Mine DEF IsSentBack, WithConn
<1>2. CASE cn # my[c]
  <2>1. Stage(c, cn)' = Stage(c, cn) /\ Slot(c, cn)' = Slot(c, cn) /\ Gave(c, cn)' = Gave(c, cn)
    BY <1>1, <1>2 DEF IsSentBack, Stage, Slot, Gave
  <2> QED
    BY <2>1, Unseen DEF IsSentBack
<1>3. CASE cn = my[c]
  <2>1. /\ Stage(c, cn)' = "done" /\ Slot(c, cn)' = "empty" /\ Gave(c, cn)' = "resend"
        /\ ~Usable(cn)
    BY <1>1, <1>3 DEF IsSentBack, Stage, Slot, Gave
  <2>2. Of(cn)!Return(c, "resend")
    BY <2>1, OneRow DEF IsSentBack, Of!Return
  <2>3. CASE pc[c] = "register"
    <3>1. Stage(c, cn) = "new"
      BY <1>1, <1>3, <2>3 DEF Stage
    <3> QED
      BY <2>1, <2>2, <3>1, RowAt DEF Of!Refuse, Of!Next
  <2>4. CASE pc[c] = "failed"
    <3>1. Stage(c, cn) = "aborted"
      BY <1>3, <2>4 DEF Stage
    <3> QED
      BY <2>1, <2>2, <3>1, RowAt DEF Of!Resend, Of!Next
  <2> QED
    BY <2>3, <2>4 DEF IsSentBack
<1> QED
  BY <1>2, <1>3

\* The call leaves with what its channel holds, or because its context ended.
LEMMA LeaveStep ==
  ASSUME TrackInv, NEW c \in Calls, NEW cn \in Conns,
         pc[c] \in {"await", "answered"},
         NEW r \in {"answer", "conn", "ctx", "timeout"}, Result(c, r), Leaves(c, r)
  PROVE  UNCHANGED Of(cn)!vars \/ Of(cn)!Next
<1>1. /\ my[c] \in Conns /\ my[c] \notin tried[c] /\ tried'[c] = tried[c]
      /\ wrote[c] = {my[c]} /\ wrote'[c] = {my[c]}
      /\ my'[c] = None /\ None \notin Conns
      /\ pc'[c] = "done" /\ outcome'[c] = r
      /\ Usable(my[c]) <=> my[c] \in up
  BY Mine, ClientAssumption DEF Leaves, WithConn
<1>2. CASE cn # my[c]
  <2>1. Stage(c, cn)' = Stage(c, cn) /\ Slot(c, cn)' = Slot(c, cn) /\ Gave(c, cn)' = Gave(c, cn)
    BY <1>1, <1>2 DEF Stage, Slot, Gave
  <2> QED
    BY <2>1, Unseen DEF Leaves
<1>3. CASE cn = my[c]
  <2>1. /\ Stage(c, cn) = "sent" /\ Stage(c, cn)' = "done" /\ Slot(c, cn)' = "empty"
        /\ Gave(c, cn)' = IF r = "timeout" THEN "ctx" ELSE r
    BY <1>1, <1>3 DEF Stage, Slot, Gave
  <2>2. CASE r \in {"ctx", "timeout"}
    <3>1. Of(cn)!Return(c, "ctx")
      BY <2>1, <2>2, OneRow DEF Leaves, Of!Return
    <3> QED
      BY <2>1, <3>1, RowAt DEF Of!GiveUp, Of!Next
  <2>3. CASE r \in {"answer", "conn"}
    <3>1. Slot(c, cn) = r
      BY <1>1, <1>3, <2>3 DEF Slot, Result
    <3>2. Of(cn)!Return(c, r)
      BY <2>1, <2>3, OneRow DEF Leaves, Of!Return
    <3> QED
      BY <2>1, <2>3, <3>1, <3>2, RowAt DEF Of!Take, Of!Next
  <2> QED
    BY <2>2, <2>3
<1> QED
  BY <1>2, <1>3
-----------------------------------------------------------------------------
(* What is known of the attempts is kept. *)

\* Who is not sent back keeps its list.
LEMMA TriedKept ==
  ASSUME TrackNext, NEW c \in Calls
  PROVE  /\ tried'[c] = IF SentBack(c) THEN tried[c] \cup {my[c]} ELSE tried[c]
         /\ pc'[c] = pc[c] => tried'[c] = tried[c]
BY DEF TrackNext, SentBack

\* A connection that died stays dead.
LEMMA NoRevival ==
  ASSUME TypeOK, Kinds
  PROVE  \A cn : Known(cn) /\ cn \notin up => cn \in 1..dialed' /\ cn \notin up'
<1>1. dialed \in Nat
  BY DEF TypeOK
<1> QED
  BY <1>1 DEF Kinds, Drop, Adopt, Opens, Replies, Accepts, Publishes, Proceeds, Writes,
              Dies, Still, Closes, Same, Known

LEMMA SentBackFromDead ==
  ASSUME TrackInv, Kinds, NEW c \in Calls, SentBack(c)
  PROVE  my[c] \in Conns /\ my[c] \in 1..dialed' /\ my[c] \notin up'
<1>1. TypeOK /\ KnownInv /\ AttemptInv /\ c \in Actors /\ Calls \subseteq Actors
  BY DEF TrackInv, IInv, Actors
<1>2. my[c] \in Conns /\ Known(my[c])
  BY <1>1, KnownConns DEF KnownInv, SentBack, WithConn
<1>3. CASE pc[c] = "failed"
  BY <1>1, <1>2, <1>3, NoRevival DEF AttemptInv
<1>4. CASE pc[c] = "register"
  <2>1. my[c] \notin up' /\ dialed' = dialed
    BY <1>1, <1>4 DEF SentBack, Kinds, Drop, Adopt, Opens, Replies, Accepts, Publishes,
                      Proceeds, Writes, Dies, Still, Closes, Others, Same
  <2> QED
    BY <1>2, <2>1 DEF Known
<1> QED
  BY <1>2, <1>3, <1>4 DEF SentBack

\* Whoever has a connection in hand, and was not sent back, either has had it
\* before or has just got one that no call was ever sent back from.
LEMMA NewInHand ==
  ASSUME TrackInv, Kinds, NEW c \in Calls, pc'[c] \in WithConn
  PROVE  \/ pc[c] \in WithConn /\ my'[c] = my[c]
         \/ my'[c] \notin tried[c]
<1>1. TypeOK /\ KnownInv /\ AttemptInv /\ c \in Actors /\ Calls \subseteq Actors /\ dialed \in Nat
  BY DEF TrackInv, IInv, TypeOK, Actors
<1>2. \A cn \in tried[c] : cn \in 1..dialed /\ cn \notin up
  BY <1>1 DEF AttemptInv, Known
<1> QED
  BY <1>1, <1>2 DEF Kinds, Drop, Adopt, Opens, Replies, Accepts, Publishes, Proceeds, Writes,
                    Dies, Still, Closes, Others, Same, Live, WithConn

LEMMA AttemptNext == TrackInv /\ TrackNext => AttemptInv'
<1> SUFFICES ASSUME TrackInv, TrackNext PROVE AttemptInv'
  OBVIOUS
<1>1. TypeOK /\ KnownInv /\ WroteInv /\ AttemptInv /\ Calls \subseteq Actors
  BY DEF TrackInv, IInv, Actors
<1>2. Kinds
  BY StepKinds DEF TrackInv, TrackNext
<1>3. tried' \in [Calls -> SUBSET Conns]
  BY <1>1, <1>2, SentBackFromDead DEF TrackNext, AttemptInv
<1>4. \A c \in Calls : \A cn \in tried'[c] : Known(cn)' /\ cn \notin up'
  BY <1>1, <1>2, TriedKept, SentBackFromDead, NoRevival DEF AttemptInv, Known
<1>5. \A c \in Calls : pc'[c] \in WithConn => my'[c] \notin tried'[c]
  BY <1>1, <1>2, TriedKept, NewInHand DEF AttemptInv, SentBack, WithConn
<1>6. \A c \in Calls : pc'[c] = "failed" => my'[c] \notin up'
  <2>1. ASSUME NEW c \in Calls, pc[c] = "failed", UNCHANGED <<pc[c], my[c]>>
        PROVE  my'[c] \notin up'
    <3>1. Known(my[c]) /\ my[c] \notin up
      BY <1>1, <2>1 DEF AttemptInv, KnownInv, WithConn
    <3> QED
      BY <1>1, <1>2, <2>1, <3>1, NoRevival
  <2> QED
    BY <1>1, <1>2, <2>1 DEF Kinds, Drop, Adopt, Opens, Replies, Accepts, Publishes, Proceeds,
                            Writes, Dies, Still, Closes, Others, WithConn
<1>7. \A c \in Calls : pc'[c] \in {"await", "answered"} => wrote'[c] = {my'[c]}
  BY <1>1, <1>2 DEF AttemptInv, WroteInv, TypeOK, Kinds, Drop, Adopt, Opens, Replies, Accepts,
                    Publishes, Proceeds, Writes, Dies, Still, Closes, Others, WithConn
<1> QED
  BY <1>3, <1>4, <1>5, <1>6, <1>7 DEF AttemptInv
-----------------------------------------------------------------------------
(* Every step of the client, seen from one of its connections. *)

Seen(cn) == UNCHANGED Of(cn)!vars \/ Of(cn)!Next

\* A goroutine that is not in dispatchOnce.
LEMMA OutsideSeen ==
  ASSUME TrackInv, TrackNext, NEW a \in Actors, Others(a), wrote' = wrote,
         a \in Calls => /\ pc[a] \in Outside /\ pc'[a] \in Outside \cup {"done"}
                        /\ ~SentBack(a),
         NEW cn \in Conns, Usable(cn)' => Usable(cn)
  PROVE  Seen(cn)
<1>1. Calls \subseteq Actors
  BY DEF Actors
<1>2. \A c \in Calls : Quiet(c)
  BY <1>1, TriedKept DEF Others, Quiet
<1> QED
  BY <1>2, QuietStep DEF Seen

\* A step that only changes who is alive, or nothing of interest.
LEMMA StillSeen ==
  ASSUME TrackInv, TrackNext \/ UNCHANGED allVars, UNCHANGED <<pc, my, outcome, wrote>>,
         NEW cn \in Conns, Usable(cn)' => Usable(cn)
  PROVE  Seen(cn)
<1>1. \A c \in Calls : Quiet(c)
  BY TriedKept DEF Quiet, allVars
<1> QED
  BY <1>1, QuietStep DEF Seen

\* Only a dial brings a connection to life, a new one.
LEMMA UsableShrinks ==
  ASSUME up' \subseteq up, dialed' = dialed, NEW cn
  PROVE  Usable(cn)' => Usable(cn)
BY DEF Usable

LEMMA LiveConnSeen ==
  ASSUME TrackInv, TrackNext, NEW cn \in Conns, NEW c \in Calls,
         \/ StartCall(c) \/ Admit(c) \/ Refuse(c) \/ Lock(c)
         \/ LiveConn(c) \/ CtxDone(c) \/ TimerFires(c)
  PROVE  Seen(cn)
<1> USE DEF ctxVars, connVars, histVars
<1>1. TypeOK /\ c \in Actors /\ wrote' = wrote /\ Usable(cn)' = Usable(cn)
  BY DEF TrackInv, IInv, Actors, StartCall, Admit, Refuse, Lock, LiveConn, Check, Peek, Recheck,
         Repeek, CtxDone, TimerFires, Usable
<1>2. CASE CtxDone(c) \/ TimerFires(c)
  BY <1>1, <1>2, StillSeen DEF CtxDone, TimerFires
<1>3. CASE StartCall(c) \/ Admit(c) \/ Lock(c)
  BY <1>1, <1>3, GotoMoves, OutsideSeen
     DEF StartCall, Admit, Lock, Others, SentBack, Outside, Places
<1>4. CASE Refuse(c)
  BY <1>1, <1>4, ReturnMoves, OutsideSeen DEF Refuse, SentBack, Outside, Places
<1>5. CASE Check(c) \/ Recheck(c)
  <2>1. CASE closed
    BY <1>1, <1>5, <2>1, ReturnMoves, OutsideSeen DEF Check, Recheck, SentBack, Outside, Places
  <2>2. CASE ~closed
    BY <1>1, <1>5, <2>2, GotoMoves, OutsideSeen
       DEF Check, Recheck, Others, SentBack, Outside, Places
  <2> QED
    BY <2>1, <2>2
<1>6. CASE Peek(c) \/ Repeek(c)
  <2>1. CASE Live
    BY <1>1, <1>6, <2>1, UseMoves, OutsideSeen DEF Peek, Repeek, SentBack, Outside, Places
  <2>2. CASE ~Live
    BY <1>1, <1>6, <2>2, GotoMoves, OutsideSeen
       DEF Peek, Repeek, Others, SentBack, Outside, Places
  <2> QED
    BY <2>1, <2>2
<1> QED
  BY <1>2, <1>3, <1>4, <1>5, <1>6 DEF LiveConn

LEMMA EstablishSeen ==
  ASSUME TrackInv, TrackNext, NEW cn \in Conns, NEW a \in Actors, Establish(a)
  PROVE  Seen(cn)
<1> USE DEF connVars, histVars
<1>1. TypeOK
  BY DEF TrackInv, IInv
<1>2. CASE DialOK(a)
  <2>1. Usable(cn)' => Usable(cn)
    BY <1>1, <1>2, ClientAssumption DEF DialOK, Usable, TypeOK, Conns
  <2> QED
    BY <1>1, <1>2, <2>1, GotoMoves, OutsideSeen
       DEF DialOK, TypeOK, Others, SentBack, Outside, Places
<1>3. CASE DialFails(a)
  BY <1>1, <1>3, AttemptFailsMoves, OutsideSeen, UsableShrinks
     DEF DialFails, SentBack, Outside, Places
<1>4. CASE ShakeDone(a)
  BY <1>1, <1>4, GotoMoves, OutsideSeen, UsableShrinks
     DEF ShakeDone, Others, SentBack, Outside, Places
<1>5. CASE ShakeOK(a)
  BY <1>1, <1>5, StillSeen DEF ShakeOK, Usable
<1>6. CASE Publish(a)
  <2>1. pc'[a] \in {"done", "register"} /\ Others(a)
    BY <1>1, <1>6, ReturnMoves, GotoMoves DEF Publish, Others
  <2> QED
    BY <1>1, <1>6, <2>1, OutsideSeen, UsableShrinks DEF Publish, SentBack, Outside, Places
<1>7. ASSUME NEW e \in {"auth", "conn", "timeout"}, ShakeFails(a, e) PROVE Seen(cn)
  <2>1. pc[a] = "shake" /\ pc'[a] \in {"done", "dial"} /\ Others(a)
    BY <1>1, <1>7, AttemptFailsMoves DEF ShakeFails, ShakeError, Shaking
  <2> QED
    BY <1>1, <1>7, <2>1, OutsideSeen, UsableShrinks DEF ShakeFails, SentBack, Outside, Places
<1> QED
  BY <1>2, <1>3, <1>4, <1>5, <1>6, <1>7 DEF Establish

LEMMA DispatchSeen ==
  ASSUME TrackInv, TrackNext, NEW cn \in Conns, NEW c \in Calls, DispatchOnce(c)
  PROVE  Seen(cn)
<1> USE DEF ctxVars, connVars, histVars
<1>1. TypeOK /\ c \in Actors /\ Calls \subseteq Actors
  BY DEF TrackInv, IInv, Actors
<1>2. ASSUME UNCHANGED <<up, dialed>>, Others(c), \A d \in Calls \ {c} : wrote'[d] = wrote[d]
      PROVE  Alone(c)
  BY <1>1, <1>2, TriedKept DEF Alone, Others
<1>3. ASSUME NEW l, Goto(c, l), UNCHANGED <<up, dialed, my, outcome>>,
             pc[c] \notin {"register", "failed"} \/ l = "write",
             \A d \in Calls \ {c} : wrote'[d] = wrote[d]
      PROVE  Moves(c, l)
  BY <1>1, <1>2, <1>3, GotoMoves, TriedKept DEF Moves, Others, SentBack
<1>4. ASSUME pc[c] \in {"register", "failed"}, my[c] \notin up, WriteFailed(c),
             UNCHANGED <<up, dialed, wrote>>
      PROVE  IsSentBack(c)
  BY <1>1, <1>2, <1>4, WriteFailedMoves, TriedKept DEF IsSentBack, SentBack
<1>5. CASE Register(c)
  <2>1. CASE my[c] \in up
    BY <1>3, <1>5, <2>1, EnterStep DEF Register, Seen
  <2>2. CASE my[c] \notin up
    BY <1>4, <1>5, <2>2, SentBackStep DEF Register, Seen
  <2> QED
    BY <2>1, <2>2
<1>6. CASE WriteOK(c)
  <2>1. wrote'[c] = wrote[c] \cup {my[c]} /\ \A d \in Calls \ {c} : wrote'[d] = wrote[d]
    BY <1>1, <1>6 DEF WriteOK, TypeOK
  <2> QED
    BY <1>3, <1>6, <2>1, SendStep DEF WriteOK, Seen
<1>7. CASE WriteErr(c)
  BY <1>3, <1>7, AbortStep DEF WriteErr, Seen
<1>8. CASE Kill(c)
  <2>1. pc[c] = "kill" /\ pc'[c] = "failed" /\ \A d \in Calls \ {c} : pc'[d] = pc[d]
    BY <1>1, <1>8, GotoMoves DEF Kill
  <2>2. \A d \in Calls : tried'[d] = tried[d]
    BY <2>1, TriedKept DEF SentBack
  <2>3. \A d \in Calls : Quiet(d)
    BY <1>8, <2>1, <2>2 DEF Kill, Quiet
  <2> QED
    BY <1>8, <2>3, QuietStep, UsableShrinks DEF Kill, Seen
<1>9. CASE Resend(c)
  <2>1. my[c] \notin up
    BY <1>9 DEF Resend, TrackInv, AttemptInv
  <2> QED
    BY <1>4, <1>9, <2>1, SentBackStep DEF Resend, Seen
<1>10. CASE Answered(c)
  BY <1>3, <1>10, AnswerStep DEF Answered, Seen
<1>11. ASSUME NEW r \in {"answer", "conn", "ctx", "timeout"}, Await(c, r) PROVE Seen(cn)
  <2>1. Others(c) /\ pc'[c] = "done" /\ my'[c] = None /\ outcome'[c] = r
    BY <1>1, <1>11, ReturnMoves DEF Await
  <2>2. Leaves(c, r)
    BY <1>1, <1>2, <1>11, <2>1, TriedKept DEF Await, Leaves, SentBack
  <2> QED
    BY <1>11, <2>2, LeaveStep DEF Await, Seen
<1> QED
  BY <1>5, <1>6, <1>7, <1>8, <1>9, <1>10, <1>11 DEF DispatchOnce

LEMMA StepSeen ==
  ASSUME TrackInv, [TrackNext]_allVars, NEW cn \in Conns
  PROVE  Seen(cn)
<1> USE DEF connVars, histVars
<1>1. ASSUME TrackNext, NEW dn \in Conns, ConnDies(dn) PROVE Seen(cn)
  BY <1>1, StillSeen, UsableShrinks DEF ConnDies
<1>2. CASE TrackNext /\ Close
  BY <1>2, StillSeen, UsableShrinks DEF Close, CloseMark, CloseGate, CloseSwap, CloseKill
<1>3. CASE UNCHANGED allVars
  BY <1>3, StillSeen, UsableShrinks DEF allVars, vars
<1> QED
  BY <1>1, <1>2, <1>3, LiveConnSeen, DispatchSeen, EstablishSeen DEF TrackNext, Next
-----------------------------------------------------------------------------
(* The theorem. *)

LEMMA TrackInitInv == TrackInit => TrackInv
<1>1. TrackInit => IInv
  BY InitIInv DEF TrackInit
<1>2. TrackInit => AttemptInv
  BY DEF TrackInit, Init, AttemptInv, WithConn, Actors
<1> QED
  BY <1>1, <1>2 DEF TrackInv

LEMMA TrackNextInv == TrackInv /\ [TrackNext]_allVars => TrackInv'
<1> SUFFICES ASSUME TrackInv, [TrackNext]_allVars PROVE TrackInv'
  OBVIOUS
<1>1. IInv'
  BY NextIInv DEF TrackInv, TrackNext, allVars
<1>2. CASE TrackNext
  BY <1>1, <1>2, AttemptNext DEF TrackInv
<1>3. CASE UNCHANGED allVars
  BY <1>1, <1>3 DEF TrackInv, allVars, vars, connVars, histVars, AttemptInv, Known
<1> QED
  BY <1>2, <1>3

\* CLT-010, CLT-014, CLT-020, for every number of calls, connections and deaths: the
\* client uses each of its connections as Dispatch.tla says, over all the trips of a
\* call through its resend loop (client.go:176-191, :373-426).
THEOREM ClientUsesDispatch == TrackSpec => UsesDispatch
<1>1. TrackInit => \A cn \in Conns : Of(cn)!Init
  <2>1. ASSUME TrackInit, NEW cn \in Conns PROVE Of(cn)!Init
    BY <2>1, ClientAssumption
       DEF TrackInit, Init, Actors, Conns, Of!Init, Stages, Slots, Results, Usable, Stage,
           Slot, Gave
  <2> QED
    BY <2>1
<1>2. TrackInv /\ [TrackNext]_allVars
        => [\A cn \in Conns : UNCHANGED Of(cn)!vars \/ Of(cn)!Next]_allVars
  BY StepSeen DEF Seen
<1>3. TrackSpec => []TrackInv
  BY TrackInitInv, TrackNextInv, PTL DEF TrackSpec
<1> QED
  BY <1>1, <1>2, <1>3, PTL DEF TrackSpec, UsesDispatch
=============================================================================
