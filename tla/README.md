# thunder-go in TLA+

thunder-go is a Go client for the Thunder RPC protocol: one `Client` owns one
TCP connection, sends length-prefixed MessagePack requests on it from any number
of goroutines, and hands each answer to its caller by request id. These modules
model what the client does, TLC checks them on small instances, and TLAPS proves
the central invariants for every instance. Line numbers refer to `src/`.

## The system

| part | state | operations | meets |
|---|---|---|---|
| in-flight gate, `client/gate.go` | channel `sem` of permits, channel `closed` | `acquire`, `release`, `close` | every call passes it; `Client.Close` closes it |
| connection, `conn` in `client/client.go` | `alive`, `pending` (id to waiter), `writeMu`, the socket | `dispatchOnce`, `readerLoop`, `poison`, `kill` | callers, the reader goroutine, `Close` and a failing handshake share it |
| client, `client/client.go` | `conn`, `closed`, `nextID`, `reconnectMu`, `handshakeInfo` | `Connect`, `CallWithTimeout`, `liveConn`, `establish`, `Close` | opens connections, sends a call again when its frame was not written |
| handshake, `client/handshake.go` | none of its own | `runHandshake`, `parseHelloInfo` | calls `dispatchOnce` on a connection nobody else has seen yet |
| configuration, `config.go`, `clientconfig.go` | two records | builders | read by all of the above |
| server errors, `errors.go` | none | `FromServerMessage`, `asHandshakeError` | a call's last step; the handshake |
| endpoint, `endpoint.go` | none | `ParseEndpoint` | `Connect`, before anything is dialled |
| frames, `wire/frame.go` | none | `EncodeFrame`, `TrySplitFrame`, `Decode*` | the writer; the reader has a copy of the splitting logic |
| codec and values, `wire/codec.go`, `value.go` | none | encode and decode of bodies | frames |

What is hard here is concurrency: callers, one reader per connection, killers of
a connection (reader, failed writers, `Close`, a failed handshake) and
reconnecting callers meet under five mutexes, two channels of the gate and one
channel per call, and the server may fail at any point. The properties that
make each part correct:

* **gate**: at most `MaxInFlight` calls at a time, nobody is refused for load,
  nobody is admitted after the close, and no permit is lost where close and
  acquire race.
* **connection**: a call gets one result, and its own; a connection that dies
  fails everybody with one error; no table entry, no permanently blocked
  goroutine and no late answer is left behind a call.
* **codec**: a body is read as a message if and only if it is a form of that message, in
  whole and no further; what goes out is the canonical form of what was meant.
* **client**: no request is written twice; no call travels before the handshake
  is complete; at most one connection is alive; the handshake info is that of
  the connection in use; the work of reconnecting is bounded; calls return.

`PROJECT.json` lists the hazards line by line with the properties that watch them.

## Modules

| module | what it is |
|---|---|
| `InFlight` | what the gate promises: sets of waiting and admitted callers, no channels |
| `Gate` | `gate.go`, one action per channel operation |
| `GateProofs` | proofs about `Gate` |
| `Dispatch` | what a connection promises the calls that use it: no locks, ids or channels |
| `Mux` | one connection, at the grain of its critical sections and channel operations |
| `MuxProofs` | proofs about `Mux` |
| `Client` | the whole client over several connections, using the two promises |
| `ClientProofs` | proofs about `Client` |
| `ClientDispatch` | the client as one of its connections sees it, mapped to `Dispatch` |
| `ClientDispatchProofs` | the proof that it is `Dispatch` |
| `Framing` | the byte stream between `EncodeFrame` and its two receivers |
| `FramingStream`, `FramingProofs` | proofs about `Framing`: its operators and streams of frames; the receivers |
| `MsgPack` | external: the MessagePack library's readers and writers, over tokens |
| `Value`, `Codec` | `value.go` and `codec.go`: values, both encoders and decoders |
| `CodecForms` | every form in which a message may be written: what `Codec` should accept |
| `Hello` | what the frames of a handshake say and what is taken from the reply |
| `ServerError`, `Endpoint` | the two functions on text, next to a definition of what they should give |
| `TextProofs`, `EndpointProofs` | proofs about `ServerError` and `Endpoint`, for the texts of `MCText` and any length |
| `MCGate`, `MCMux`, `MCClient`, `MCClientDispatch`, `MCFraming`, `MCCodec`, `MCText` | values for the constants, for TLC |

### Gate

`sem` is the number of elements in the buffered channel, `closed` whether the
second channel is closed, `pc` where a caller stands between the three selects
of `acquire`. `Enter` is the first select (31-36), `TakePermit`, `SeesClosed` and
`SeesCtxDone` are the three cases of the second (37-54), any ready one of which may
be chosen, and `Recheck` is the last one, which gives the permit back if the gate was
closed meanwhile (39-46). `ctx` is the state of the caller's context, possibly
over before the call begins.

`Gate` implements `InFlight` under the mapping at its end: a caller between its
first select and its last is *waiting*, one for which `acquire` returned nil is a
*holder*.

### Mux

Each member of `Calls` is one run of `dispatchOnce` (373-426). `Register` is the
critical section that looks at `alive` and inserts (382-391), `LockWrite`,
`WriteOK`, `WriteErr` the write under `writeMu` (393-396), `Unregister` the delete after a
failed write (397-399), `Receive`, `Expire`, `Forget` the select and what follows
(405-425). The reader reads a frame (`ReadResp`, `ReadDup`, `ReadPush`, `BadFrame`,
`ReadErr`), then routes it (`PushFrame`, `ReservedPush`, `Demux`, `Deliver`). `kill` is
`KillPoison` (one critical section), one `KillSend` per drained waiter, `KillClose`; the reader,
every call and `Closer` may be in it at the same time. `Closer` stands for
`Client.Close` and for `establish` after a failed handshake.

The server is the environment. It answers requests it got in any order or not
at all, repeats up to `MaxDup` answers, pushes, sends frames that are too large
or do not decode, stops reading (then a write blocks until the socket is closed)
or goes away (then writes may succeed or fail). A socket that failed a write
fails every later one.

`nextID` is the client's: calls on a connection that came before and handshake commands draw from it too. Here every
step of it is one of `Calls`, so a draw for another connection is a call that begins here and goes no further
(a safety property holds of every beginning of a run), and `AllocID` need not know of them.

Ids come round, and `v_id_reuse` shows that nothing in the code keeps one that is still in use from
being handed out. `FreshSpec` leaves those runs out. Its `IdsFresh` asks two things: while a call has its id, from
`allocID` until `dispatchOnce` has no more use for it, no other call has it; and what the server sends under that id
before the call is answered is the answer. The first fails only for a call that stays in `dispatchOnce`
for a whole turn of the counter, the second only for a server that answers, or repeats an answer, a turn late.

`Mux` implements `Dispatch`. The mapping is the interesting part: the result of
a waiter is settled when it leaves the table, so the abstract slot is what is in
the channel, or in the reader's hand, or the error of the killer that drained it.

The push hook is the program's own code and runs on the reader's goroutine. Here it
may make calls on the same connection (`HookCall`, those in `Hooked`), one after the
other, and returns (`HookReturns`) when it has none under way; a panic is recovered
and is a return. While it runs nobody reads, so such a call is never answered
(`HookCallUnanswered`): it ends with its context, with a failed write, or with a death of the
connection that another goroutine brings about. A hooked call whose context never
ends may hold the reader for good, and then a server that goes away is not noticed; with
bounded calls it is (`DeathIsNoticed`). A hook that calls `Close` waits for nothing and is
covered by `Closer`.

### Client

Connections are numbered in the order they are dialled; `up` holds the living
ones. `Admit` and `Refuse` are those of `InFlight` with the members of `InFlight` (the set)
as holders, and the actions from `Register` to `Await` see a connection as
`Dispatch` describes it: `Register` (382-391), `WriteOK` or `WriteErr` (393-399), then after a failed write
`Kill` (401) and `Resend` (402, with the loop's 184-188), and otherwise `Answered`, the reader's send
(473-479), and `Await` (405-425), which finds that answer, the error of a dead connection or the end of
the context. At this level the death of a connection and the delivery of its error to everybody are one
step, as in `Dispatch`; `Mux` is shown to keep that promise with all the steps in between. `Opener` runs
`Connect`; it and the calls share the actions of `establish` and `runHandshake`
(`DialOK`, `DialFails`, `ShakeOK`, `ShakeDone`, `ShakeFails`, `Publish`). The commands of a
handshake are `Plan`. `Check`, `Peek`, `Lock`, `Recheck`, `Repeek` are the
steps of `liveConn` (292-313), `AttemptFails` the rest of its loop. `Close` takes its
four steps one at a time.

`wrote` and `dials` are history variables: the connections on which a call's frame was written and
the number of times it dialled. `dialed < MaxConns` is a bound of the model. With 5, one
connection for `Connect` and two for each of two calls, it would never be what stops a dial, and the two
runs of a disagreement set it so; `client_live` sets it to 4 and `client` to 3, and a dial beyond that can only fail.

`ClientDispatch` closes the circle: it adds a history variable, the connections that sent a call back, and
maps the client to `Dispatch` once per connection. `Usable` is its liveness; a call is *new* to a
connection until it registers there and *done* when it was sent back or has returned; in its slot is
the answer, or the error from the moment of the death on. `UsesDispatch` says that every step of the
client, whoever makes it, is for every connection a step of `Dispatch` or none, so that the promise `Mux`
keeps is the one the client relies on. In particular the resend loop never tries one connection twice.
Handshake commands are not attempts of the mapping: they travel before any call can see the connection.

### Framing

A byte is a digit below `Base` and the prefix has `HeaderLen` of them, so 2 and 2 stand for
256 and 4. The same stream goes to `readerLoop` (`ReadHeader`, `ReadBody`, `ReadErr`: a `ReadFull` takes
all it was asked for or nothing) and to a program that keeps a buffer and calls
`DecodeRequest` or `DecodeResponse` on it whenever it likes (`Decode`, around `TrySplitFrame`).
`Expected` and `Fault` say what a receiver should make of the frames had they come in one
piece. Bodies are opaque; `Undecodable` are those the codec refuses. `EncodeFrame` does not
check that the prefix can say how long a body is: `LE` is the length modulo `Width`, and one
body is longer than that. `TypeOK` also says that the reader never sets out to read a body over the
cap: the length is looked at before anything is allocated for it. The properties then claim what is left of them: the bodies before it
arrive, and what follows is whatever its bytes happen to say (`InStep`).

### MsgPack, Value, Codec and Hello

A body is a sequence of tokens, a scalar or a header each. A reader takes a position
and gives a value and the next position, or fails, as the functions over
`msgpack.Decoder` do; `Then` is their `if err != nil`. The library is external: what it
lets pass (nil for a zero value, bin and str for each other, a short float for a long one, an unsigned integer over
the greatest i64, which wraps) is in `MsgPack`, so that `Codec` holds the code's own checks and no
others. Extensions are left out. Text is a sequence of symbols, and a float is the name of its bits.

`CodecForms` says the same from the other end: for a message, the set of bodies that mean
it. `RequestsRight` and `ResponsesRight` ask that each body that is read is such a form of what
was read, that every form of that message is read as it, that no proper prefix is, and that what
stands behind it is not looked at (the code ignores trailing bytes). `RoundTrip` sends what was
read out again.

`Hello` builds the frames of `runHandshake` and reads the reply; `Client` has the order
of these commands and their failures. `CredentialsArrive` decodes the frames with `Codec` as a server would and
looks the credential up.

### ServerError and Endpoint

Texts are sequences of symbols that stand for what the functions tell apart (a separator, a
run of digits, an auth word). Each module has the function as the code computes it and, below the line, a
definition by form, and `MCText` compares them on every short text. `https` takes the same branch as `http`
and is left out.

For a message the forms are `Coded` and `Denies`; the convention `none` looks for neither. For an endpoint,
`ListedBare` and `ListedWithScheme` are the list in the comment of `ParseEndpoint` and nothing else: a host is
in brackets or has no colon (`Reads`), and a scheme is one the Config names. What the code does besides is named apart. `Beyond` is
what it accepts without its being listed, `Answers` is what a Config's scheme must be for a listed text to be accepted
(see *Disagreements*). `AppConfigs` has a Config with a scheme, one whose scheme is in capitals and
`Standard()` with none. The code looks at no letter of a host except the separators, so a host is any text, in the
forms too. That is why `DialsRight` says nothing of a host with brackets or blanks in it: of `[[x]:80` the host is `[x`, and
`[x:80` is dialled.

### Faults

Every property of a passing run comes with a deliberate fault: an operator,
placed before the definition it stands in for and named after it
(`RecheckLeaks`, `DemuxKeeps`, `RepeekBlind`, ...), that changes it as a
plausible bug would. With the fault in place TLC finds that property violated.
No specification uses these operators.

## Runs

| run | instance | shows |
|---|---|---|
| `gate` | 3 callers, 2 permits, fair | `TypeOK`, `PermitAccounting`, refinement of `InFlight`, `AcquireReturns`; deadlock is checked |
| `mux` | 2 calls, both open to the push hook, 4 ids starting at 2, both push policies, all misbehaviours of the server, 1 repeated answer | the safety of a connection and the refinement of `Dispatch` |
| `mux_live` | 2 calls, one with a context that ends and open to the push hook, fair, server may stall | dead connections release everybody; awaiting calls heed their context; a server that goes is noticed |
| `client` | 2 calls, HELLO then AUTH or credentials that HELLO cannot carry, 3 connections, 2 permits, both contexts may end | safety of the client; every connection of it is a `Dispatch` |
| `client_live` | 2 calls, one timed and one that may be cancelled, HELLO then AUTH, 4 connections, fair | an admitted call with a timeout returns; a call dials twice at most |
| `framing` | 2-valued bytes, 2-byte prefix, cap 2, bodies up to one too long for the prefix, 2 frames and a torn one | what both receivers make of any stream |
| `codec` | i64 to 3, u32 to 2, bytes to 1; bodies of up to 14 tokens for values, 9 and 8 for requests, 7 for responses; replies of up to 3 pairs; all setups of a handshake | bodies mean what they should, both ways; credentials and replies arrive |
| `text` | messages of up to 6 symbols; endpoints of up to 4 after a beginning, under three Configs | errors and endpoints are read as documented, but for the departures that `Endpoint` names; an accepted host without brackets or blanks is dialled as such |
| `v_close_leak`, `v_id_reuse`, `v_stalled_write`, `v_timeout_gate` | see *Disagreements* | each refutes a sentence of the source's comments |

Why the bounds are enough. *Gate*: three callers for two permits is the least
number with one admitted, one waiting and one in the race with close. *Mux*: a
connection has one reader, and all interplay of calls is through the table, the
write lock and the killers; two calls give every pair of them, with two and
more killers at once (either call's failed write, the reader, `Close`). The counter starts one below
`PushID` (3), so the second call meets the skip and the wrap. With three calls the state space is
beyond ten million states and was not exhausted. *Client*: two calls compete for
`reconnectMu` and the published connection. The two configurations of `client` take the longest path
of `Plan`, two commands with a deadline, and the one that is refused locally; sending nothing is in the runs of the
disagreements. A third call would add more of the same waiters behind the lock. `ClientProofs` and
`ClientDispatchProofs` cover any number of calls and connections and every configuration, also those without a
deadline or with one command. With four connections one call can dial twice
and the other once, or exceed its budget if it could. With three a call can be sent back, renew the connection
and be sent back again, and with two calls one can be waiting for the first death while the other causes it.

*Framing*: the cap is 2 and lengths go to 3, and one to 5, so there are bodies below, at and over it, and one that the prefix announces as 1; two
frames and a torn third one let a receiver lose its place and show it. *Text*: six symbols hold a
code, an auth word and what follows it; the beginnings with an open bracket or a colon let four more symbols complete
every documented form.

*Codec*: a body is grown token by token only while the decoder asks for more, because it
reads from left to right and its verdict on the tokens it has seen is final. Fourteen tokens hold a map
of two pairs or an array of two tagged values in a response; requests carry a value; map-shaped
requests have up to four entries, so that a field can be missing, come twice or stand beside
an unknown key. The order of the integer bounds is that of the code (byte, u32, i64, u64), and the
integers offered lie on both sides of each.

Deadlock is checked for the gate. The other specifications end when all calls
have returned, so there it is not.

## Fairness

Assumed of the Go runtime: a goroutine that can run does; a mutex is not withheld
for ever from one waiter (Go's mutexes hand over to a waiter that starves), hence
strong fairness of `LockWrite` and `Lock`; senders blocked on a channel are served in FIFO
order, hence strong fairness of `TakePermit`. Assumed of timers and the kernel: a
context with a deadline ends; a read on a closed or reset socket returns an error sooner or later, since
what a server left behind when it went is finite (strong fairness of `ReadErr`); a dial
returns (`ConnectTimeout`). Assumed of the program: a push hook that waits for nothing returns. In `Framing`, bytes that were written arrive. In `Client` alone, writes return, which is what a server
that reads guarantees; `Mux` shows what happens without that. Nothing is assumed
of the server otherwise, and not that `Close` is called. Strong fairness of `Lock`
helps only because whoever holds `reconnectMu` lets it go: that is what
`AdmittedReturns` depends on, with a deadline on handshake commands.

## Proofs

The theorems hold for any sets of callers, limits, ids, configurations and numbers of
connections, and for bytes and prefixes of any size; they use only the assumptions named in `Gate`,
`Mux`, `Client` and `Framing` (finite sets of goroutines, distinct names, a base above 1). Four theorems of
`MuxProofs` are about `FreshSpec` and not about `Spec`.

*Gate.* `PermitAccounting`, with `TypeOK`, is inductive; the work is in cardinalities, and
in `sem <= Capacity`. For the refinement, holders are a subset of occupants, so the
bound on `sem` gives the guard of the abstract `Admit` (a caller at its last select already
occupies a place, hence fewer than `Capacity` others hold one).

*Mux.* `CoreInv` is inductive whatever the ids are, also when the counter has come round to
an id that is still pending:

* `KillInv`: who is in `kill`, and that a killer holds waiters only between its poison and its
  last send, when the connection is dead already;
* `PendInv`: an entry of the table has its call's id, its call has not left `dispatchOnce`, and the
  table of a dead connection is empty: `NoPendingLeak` follows;
* `PlaceInv`: a waiter is in the table, in the reader's hand, in the hands of one killer, or has its
  result. `SendsOnce` counts these places, so it is this invariant and arithmetic. An entry that
  is deleted (`Unregister`, `Forget`) or overwritten (`Register`) is in no other place;
* `BlameInv`: nobody is failed while the connection is alive, and from the first poison on there is
  one error in channels, results and killers' hands: later poisons find an empty table;
* `HookInv`: while the hook waits for its call the reader is in the hook, and that call has no answer.

What is said of answers is false without a word on ids (`v_id_reuse`), so it is said of `FreshSpec`. There
`WaitInv` (an entered call is in one of the four places) and `ReplyInv` (an answer that was read is in the
reader's hand, in its own call's channel or thrown away, and its call is in the table only while the
frame is being routed) are inductive, and `NoLostWaiter`, `RightAnswer` and `LostOnlyIfGone` follow.
`IdsFresh` is used in four steps only: where `Register` inserts and `Unregister` and `Forget` delete under an
id, so that they touch nobody else's entry, and where `Demux` finds an entry, so that the call it finds is the one
the frame answers. With `PendInv` and `ReplyInv` that is enough, whatever earlier calls with the same id have left. (TLC
finds `WaitInv` and `ReplyInv` invariant, and the refinement true, in the runs of `FreshSpec`, `FreshRuns` of `MCMux`, with
three calls that share one id or two.)

`FewCallsAreFresh` gives a case where nothing has to be assumed: with fewer calls than ids, every run of `Spec` is
one of `FreshSpec`. The calls are all that draw from `nextID`, those of other connections and handshake commands included: a
client that sends no more than 2^32 - 1 requests in its life. There `CountInv` says that the n calls that began have the first
n ids in turn from some id on, also across the wrap, hence no two have the same.

For the refinement each action is shown to be the step of `Dispatch` that the mapping suggests or
none: `Register` enters or refuses, `Demux` answers, `Deliver` and `KillSend` change nothing because
the slot was settled before, and `KillPoison` fails everybody at once if the connection
was alive. `WaitInv` is what makes that step reach everybody.

*Client.* None of its safety properties is inductive. `IInv` adds:

* `LockInv`: the holder of `reconnectMu` is the call at one of the steps under it;
* `OpenInv`: until `Connect` has returned no call has begun, nothing is published and
  `Close` has not started;
* `KnownInv`: a connection in anybody's hands has been dialled, so the next one dialled is new;
* `ShakeInv`: no connection has seen more than the plan, and one that is published, about to be,
  in use by a call or written on has seen all of it, which also tells it from one that is still shaking;
* `WroteInv`: a call that can still write has written nothing;
* `BudgetInv`: dials made and budget left sum to the budget at the start;
* `SoleInv`: a living connection is the published one, the one `Close` took, or in the hands
  of the goroutine that is establishing it, and while anybody establishes one the published
  one is dead;
* `InfoInv`: the handshake info is that of a living published connection, and already that of
  one about to be published.

TLC finds `IInv` invariant on the instance of run `client` too. The actions are first sorted
by what they may change into eleven kinds (lemma `StepKinds`), so that each conjunct is proved
against a few kinds of step and not against some thirty actions.

*Client and Dispatch.* `ClientUsesDispatch` needs `IInv` and `AttemptInv`: a connection that sent a call
back is dead and known, and not the one the call works with; a call whose kill is through finds its
connection dead; a call that waits has written on the connection it works with and no other. (TLC finds it
invariant too.) From `NoRevival`, that a dead connection stays dead, follows that whatever connection a call takes
up is one it was never sent back from, which is the abstract *new*. A step is then one of two sorts. Most
change nothing a connection can see of any call (`Quiet`): if connection cn dies in it, that is the abstract
`Fail`, which fails whoever is registered with an empty slot, and otherwise it is no step (`QuietStep`). The rest are steps of
`dispatchOnce`, where nobody dies and one call moves (`Alone`): the step of `Dispatch` with that name for the
connection in its hands, and none for the others. The error of a dead connection is one value here; that
it is the same error for everybody is `OneError` of `MuxProofs`.

*Framing.* A receiver is in step (`Follows`) or `Done`. In step, the bytes it holds and those on
the wire are the frames of the bodies it does not have yet and then less than a frame: nothing, part of a
header, or the header and part of the body of the frame that was cut off (`Layout`, with a function from
each body to the place where its frame ends). The reader's share includes the header it has consumed
(`Held`). Done, it has what it should and stopped for the right reason, or it was told a wrong length by
a prefix too short for it, and then whatever it takes comes after what it should have. `ReaderInv` and
`BufferInv` are this for the two receivers; each is inductive with `TypeOK`, and the lemmas about
headers, bodies and ends of the stream serve both. The theorems hold for the code's 256 and 4
as for the instance's 2 and 2. They rest on `HeaderReadBack`, that `PutUint32` and `Uint32` are inverse
modulo `Width`, an induction over the digits: the library's induction takes a predicate, which
the provers here cannot instantiate, so `Induction` says the same of a set.

The proof found a cap for which `Fault` was wrong: a limit of -2 or less is below the -1 that stands for
no torn frame. Nothing in the code excludes a negative limit, so `Fault` now asks for a torn frame first.

*Server errors.* `ErrorsAlwaysRight` is `ErrorsRight` for messages of every length: an `AuthError` exactly
where the message denies access and the convention is not `none`, and a code exactly where there is one that the convention
asks for. The invariant is only that
a message is made of its symbols; the work is in the two readings of it. `AtIs` and `AtUnique` say
what a search finds; a message is "[c] r" with a c that has neither "]" nor blanks if and only if the first "]"
is where c ends and a blank follows (`CodedIffSplits`), so there is at most one code (`CodesAre`), and
`splitBracketCode` finds it (`SplitIs`).

*Endpoints.* `EndpointsAlwaysRight` and `DialsAlwaysRight` are `EndpointsRight` and `DialsRight` for texts of
every length, with the departures and the exempt hosts that these two name. Again the invariant is only that the text is made of its symbols, and the work is in showing that the code
takes apart what the forms put together, and nothing else. The forms the code takes, listed or not, are `Taken`. A text that is
taken as a host and a port, in brackets or bare (`TakenIs`), is split into just these by the first "]" or the last ":" (`HostPort`), so there is one such reading at most, and
every text that `splitHostPort` accepts has one (`HostPortIs`). The same pair of lemmas holds for what follows a scheme, with its
optional "/" (`RestRead`, `RestIs`), and, since a scheme ends at the first "://" (`SchemeEndUnique`), for the whole text
(`TextParsed`, `TextIs`). `MeantIs` sorts what is taken into the list and the departures. `Parsed` and `Dialled`, from which the theorems follow, hold of any set of symbols that
has the separators and of any configuration whose scheme has no colon, which is more than the three of `AppConfigs`.
For the address that is dialled, its brackets are put round just the hosts that have a colon, so it
reads as that host and port (`Dialled`). There is no "://" in it, since a bare host has no colon and a host from behind a
scheme no "/" (`NoMarkPlain`, `NoMarkBracket`), and a bracketed literal without a scheme is dialled as it was written; and no blanks that
`TrimSpace` would take.

Only model-checked: the codec and `Hello` (`Codec` and `CodecForms` are recursive over values), and all
liveness (`AllArrive`, `AcquireReturns`, `DeathReleasesAll`, `AwaitIsBounded`, `DeathIsNoticed`,
`AdmittedReturns`), which the prover does not handle.

## Disagreements between the code and its comments

* **Close may leave a connection open** (`v_close_leak`). A call in `liveConn` past its second
  look at `closed` (304) publishes its new connection (335-338) after `Close` has
  swapped out the old one (208-211). It stays alive with its reader.
* **An id that is pending may be handed out again** (`v_id_reuse`) once the
  32-bit counter has wrapped: `pending[id] = w` (390) then evicts a waiter, which
  is never sent anything. It takes a call that stays pending for 2^32 others.
* **A write is not bounded by the call's context** (`v_stalled_write`): 393-395,
  against the comment at 156-157.
* **The wait at the gate is not bounded by the timeout** (`v_timeout_gate`): 163
  comes before 168-173, against the same comment.

Three more concern `ParseEndpoint`. They are departures of one function from a list in a comment, each visible in a
single call, so they have no run of their own: `Endpoint` names them next to the list, and `EndpointsRight` pins what the
code does in each (run `text`, and `EndpointsAlwaysRight` for every text).

* **A Config without a scheme accepts more than host:port.** config.go:181-183 says of `Standard()` that "a Config that never
  sets them is only usable with an explicit host:port endpoint", but the text `://x` has the empty scheme, which is
  `config.Scheme` (39), and no port, which gives `DefaultPort`: it is accepted as host x with port 0 (`Beyond`).
* **An IPv6 literal behind a scheme need not be in brackets.** The list (endpoint.go:20-23) has `[v6::addr]`, and
  `app://::1` is accepted as host `::1` with the default port (104-107, whose comment says so) (`Beyond`).
* **A capital in `config.Scheme` shuts out every text with a scheme.** The list has "scheme://host[:port] where scheme is
  config.Scheme"; the text's scheme is lowered (31) and `config.Scheme` is not (39), so that a Config with scheme `App` refuses
  `App://x` and `app://x` alike (`Answers`).

## Not modelled

* A request that cannot be encoded (377-379) returns before anything is shared; it is left
  out of `Mux`. A `Value` of an unknown kind cannot be built with the constructors.
* Which width the encoder gives an integer and a length: the library chooses, and the decoders take
  all. The memory a decoder takes for the lengths a body announces.
* `AsBytes`, `AsInt`, `AsFloat`, `IsNull`, `Kind`: one field or a conversion of it, used by nobody
  in the client. The message of a `DecodeError`: all failures of a decoder are one.
* A push hook's call that waits at the gate or in `liveConn` while the reader waits for the
  hook: `Mux` has the part of it on this connection.
* `IsAlive`, `Capabilities`, `Config`, the builders and `String` methods: single reads
  and writes. `Config.Tls` is read nowhere.
* The lengths of backoffs and timeouts: time is only what may or must end.
* Tests.

## Plan

Done, in this order: the gate and its promise; the connection and `Dispatch`; the client over
both promises; their proofs; framing; errors and endpoints; codec, values and handshake
contents; the push hook; the proofs about the connection and its refinement; the proofs about framing, server errors and endpoints;
the proof that the client uses every connection as `Dispatch` says; ids that are handed out again.

Left:

* the push hook in `Client`, where its call may also wait at the gate or dial;
* a decoder written without RECURSIVE operators, so that at least its bounds on single tokens could be proved.
