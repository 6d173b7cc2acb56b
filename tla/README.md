# TLA+ models of xmip-core-transport

The crate is the transport capability of Xmip: the contract every transport
technology implements, and the machinery several of them share. Nothing in it
names a protocol. What is hard in it is not a protocol either, but what runs at
once: nodes racing for one file, verdicts told on other threads than the
receive's, sessions and connections kept and let go meanwhile.

This directory models that machinery in TLA+, checks it with TLC on small
instances and proves the main invariants with TLAPS for every size. Every
definition says in `PROJECT.json` (`map`) which lines of the source it stands
for; every hazard, run, property, mutant and theorem is listed there too.

## Inventory

Component, its state, its operations, and what makes it correct:

| Part (`src/.src/`) | State | Operations | Hard because | Correct when |
| --- | --- | --- | --- | --- |
| `claim/`, `refused.rs`, `acknowledgement.rs` | the far end's names and turns; per Location `recovering`, `listed`, `refused`, `held` | `take`, `recover`, `settle`, `told`, `give_back` | several nodes, producers, verdicts on other threads, failing calls, deaths | nothing lost or doubled, one holder, nothing left claimed, refusals remembered |
| `serving.rs`, `answer.rs` | the listener, the list of open connections, each one's busy flag, the word of freed ones | `next`, `Answer::write`/`shut`/drop | answers on other threads race the wait; a list indexed across a removal | the right connection is served, none is forgotten, every taken request ends |
| `pool.rs` | sessions kept by key | `exchange`, `kept`, `delivered` | threads share keys; far ends close sessions kept | a delivery is answered on its session; reuse is at least once and never less |
| `kept.rs` | one bound listener | `bound` | first receives race | bound once |
| `contiguous.rs`, `together.rs` | a place in a log; a tally of verdicts | `advance`, `advancing`; `together` | verdicts in any order, dropped ones | the place never passes what was not accepted; settled exactly once |
| `listed.rs`, `sql/accept.rs` | `Refused` over a bucket or a table | listing, fetching when read, deleting when accepted | overwritten meanwhile; one unreadable fails them all | only what was accepted is deleted |
| `claim/unfinished.rs` | names of sends in flight | `sending`, `remove_unfinished` | a start beside new sends | never another's, never one being written |
| `sender.rs` | one socket per address family | `exchange` | answers that come late | an answer is its request's |
| `pinned.rs`, `standing.rs`, `concurrent.rs`, `loopback.rs` | a file of keys; sessions by address; a far end's clients; two threads of a round | `hold`, `stand`/`session`, `start`/drop, `round`, `both_ends` | several processes or threads, one end failing, an append cut short | a far end held to its first key; nobody waits for a peer that never comes |
| `outgoing.rs`, `body.rs`, `stuffed.rs` | a reader and what it gave so far | `pieces`, `gather`, `stuff` | boundaries | bytes read are the bytes written |
| `guard.rs`, `socket.rs` | a connection's wait; a listener's mode | `answer`, `accept_within` | peers that vanish, a deadline, a mode several ways out must restore | handed back as it was, and in time |
| `sited.rs`, `error.rs`, `secured.rs`, `configured.rs`, `node.rs`, `headers.rs`, ... | none of their own | pure functions, calls to the system, declarations | - | see Not modelled |

How they interact: a technology's receive calls `Claiming::take` or
`Serving::next` and hands the runtime what it took, each with an
`Acknowledgement`. The runtime carries it through a cycle on a pool of threads
and tells the verdict, which calls back into `Claiming::told` or gives the
`Answer`. `Arrivals` says whether the next receive waits for these verdicts
(`Ordered`) or not. A sender goes through `Pool` or `Sender`.

## Modules

| Module | What it is |
| --- | --- |
| `Claim` | the file family's claim: several nodes, one far end, producers |
| `MCClaim` | `Claim` with model values for TLC |
| `ClaimProofs`, `ClaimReceiveProofs` | theorems about `Claim`: its versions and turns; its receives and cycles |
| `Custody` | what a claim promises of each version, abstractly |
| `CustodyProofs` | that `Claim` implements `Custody` |
| `Serving` | one Location's kept listener and connections, the answers, the peers |
| `MCServing` | `Serving` with model values for TLC |
| `Pool` | the sessions kept between exchanges, their threads and far ends |
| `PoolProofs` | theorems about `Pool` |
| `MCPool` | `Pool` with model values for TLC |
| `ServingProofs` | theorems about `Serving` |
| `Contiguous` | a place in a log verdicts move only contiguously |
| `Together` | arrivals settled together, by the last verdict |
| `Store` | a bucket or a table: no lock, deleted when accepted |
| `Listener` | a listener bound once, accepted on within a wait, guarded or not |
| `Concurrent` | a far end serving many clients until it is let go |
| `ReceivesProofs` | theorems about `Contiguous`, `Together`, `Store` and `Listener` |
| `SendFile` | sent files not yet in place, and their removal at a start |
| `Sender` | the datagram socket kept per address family |
| `Pinned` | the file of keys far ends presented |
| `Outgoing` | one send's body, held to its length |
| `Arrival` | one arrival: its body, its verdict, its far end told |
| `Stuffed` | the dot-stuffed block of mail |
| `Loopback` | rounds of both ends of one exchange, several at once |
| `MCParts` | `Contiguous` to `Loopback`, these twelve, for TLC |
| `SendsProofs` | theorems about `SendFile`, `Sender` and `Pinned` |
| `BodiesProofs` | theorems about `Outgoing`, `Arrival` and `Stuffed` |

The parts in `MCParts` share no state in the code. Each is therefore explored
alone in the one run: `under`, chosen at the start and never changed, says whose
steps are taken, and the others stay as they began.

### Claim

One action per call to the far end (`ClaimSite`), since any two calls may have
another node's, a producer's or a verdict's between them. `rx[n].pc` is the
place in `Claiming::take`: `recover`, `turns`, `giveback`, `hold` are
`Claiming::recover`; `settle`, `settling` the settle before the listing;
`list`, `sift`, `examine`, `still`, `rename`, `untake` the listing and
`Claimant::claim` for each artifact of it. The other fields of `rx[n]` are its
locals: what recovery is to return (`left`), the listing (`found`), what of it
is still to be examined (`rest`), the artifact at hand (`name`), the claimed
name just won or just returned (`won`), what was claimed (`taken`) and whether
a call failed (`broken`). `jobs[n]` are the artifacts in their cycle, each at
the stage its verdict has come to; `settling[n]` is the lock on `held`, which a
settle keeps while it asks the far end.

An artifact's contents and its stamp are one number, the version: a write
stamps anew, a rename keeps the stamp. A claimed name is the dropped name, the
claimant and a time; times are few, and a claim takes one no name has, which
is what nanoseconds and a name of the node's own give. `Refused::sift` is one
step: its stamps come from the listing, and what is remembered between its two
locks is kept, as if it had been remembered after. Where the far end tells
whether a writer holds a file (`Tells`), it may say so of any. A rename may be
refused, as one of a file a producer holds open is. A call in `Failing` may
fail, carried out or not. `restore` is what `claim/memory.rs` and the trait's
contract say, and the other operations likewise; a technology's own site is in
its own repository.

A recovery lists, removes the unfinished sent files (`remove_unfinished`), drops
the turns this node left and returns its claims. Where one of the first three
fails, `take` goes on to list and to claim, and recovers at a later take. Of the
removal this module has only that it may fail, at the listing's step; what it
removes is in `SendFile`.

History variables: `consumed`, `replaced`, `verdicts`, `setAside`. No action
reads them.

Left out: `ResourceClaim` of one artifact by address (`sited.rs`), and the
retry of a whole operation on a new connection, which is the technology's
`with_site`. Sends not yet in place are `SendFile`.

### Custody

The abstract specification of the claim. A version lies under its name or is in
the hands of the one node that claimed it; a producer writes, a node claims,
returns or consumes, and nothing else happens. `Claim` maps to it by `Hands`:
which node holds which version is read off the claimed names, whatever their
times. Every call that does not move a version, every failure and every death
is a step custody does not see.

### Serving

`rx.pc` is the place in `Serving::next`: `look` the search for a connection
whose next exchange is read already, `read` the busy flags read one at a time
into the wait's sources (`rx.on`), `poll` the wait, `hear` and `accept` the rest
of `Waiting::spoken`, `turn` the exchange, `within` one whose reader reads on. The
list `open` is locked throughout, so there is one receive at a time. What an
exchange is belongs to the technology: as in `lines.rs`, a buffered reader takes
all that lies in the socket and hands one request or one part of one, and the
rest is served before the next wait. Where what was read ends within an exchange
it may read on in the same turn (`ReadOn`), and a peer that stops there keeps the
receive until the connection's own timeout, where there is one (`StopsWithin`).
Each taken request is answered at once or its answer is owed. An answer goes
`owed`, `free` (written or shut, the flag yet to be stored), `tell` (stored, the
wait yet to be told).

Requests on a connection are numbered; a part is 0. A connection is used once,
so a peer let go that connects again is another connection. The write of
an answer may fail, the peer there or not; the connection is then freed and not
shut. Taken, answered and unwritten requests are history.

### Pool

`th[t].pc` is the place of a thread in `Pool::exchange` or `Pool::kept`: `take`
the pop under the lock, `check` the look at the session outside it, `letgo` the
unusable ones let go, `open` a new session, `write` and `read` the exchange on
it, `keep` the look in `put_back`, `push` the session kept under the lock.
`fresh` says that the session is new, so that a failure is the end.

A session carries words in order. A send writes its request and reads one
answer (as `echo.rs` does); a receive is `delivered`; an acknowledgement is
`kept` and only writes. Far ends carry requests out late or never, deliver,
and close, with an unasked word (a timeout's 408) or without; what was written
to one that closed is not read, and the writer need not notice. `Usable` is
what `alive` or `quiet` finds: a closed session whose far end said something
before is `alive` until that is read. An exchange may fail at any point of it.
A session let go needs no more of its far end than the requests it may still
carry out. A subscription is one Location's, asked by one receive at a time.

Left out: the delivery made again by the far end of a session let go, which is
the far end's.

### Contiguous

`place` is `Contiguous`'s; `SetPlace` is `set`, `LookAt` a receive asking `at`,
`ReadOn` what it then reads from there, one acknowledgement a record.
`TellRecord` is the advancing acknowledgement: a record accepted or refused for
good moves the place where it is the next, and is else passed over, to be read
again. Between `LookAt` and `ReadOn` verdicts may come, so a record may be out
more than once (`out`).

### Together

An acknowledgement goes `held`, `each` (its own verdict is told to the far
end), `count` (the tally, under its lock), and the last one counted `settle`,
outside the lock. A dropped one is counted without running `each`.

### Store

`listing` is what a receive listed; `HandOver` is `Refused::sift` and the window
of `most` taken after it. Each arrival is a record of `cycles`: of a bucket the
body is fetched by name when first read, of a table it came with the query.
`Delete` is by the name, whatever lies there then; where a table has no
statement it deletes nothing. One version may be `illegible`: a row whose value
its technology refuses, a listed entry without its name or its stamp. Where it
is listed the whole receive fails (`ReceiveFails`). `Die` forgets what was
refused. Receives are `Ordered` here.

### Listener

`idle` to `bound` is `Kept::bound`: a look, the lock, a second look, the bind,
the keeping. `accept` to `back` is `accept_within`: `try` the accept, `ready`
the wait until one is there or the rest of the wait has passed, `back` the mode
restored. `greet`, `handshake`, `content` are a guard's answer and the read.
`wait` is the read timeout of the connection at hand. A peer may vanish between
the readiness and the accept, which then finds nobody. The system may refuse to
set the mode back (`unset`): the listener is then left non-blocking, who was
accepted is let go, and the next bounded accept sets it again. Settling who was
accepted may fail too. `AtOnce` is how many receives accept on the listener at
once.

### Concurrent

`accepting` is the thread `start` makes, `letting` the `Drop`: `stop`, the
poke's connection, the join. A connection accepted is looked at for the stop,
then served on a thread of its own. An accept that fails, and a client whose
thread cannot be started, are left out: the loop goes on to the next.

### SendFile

A name is who wrote it and in which life of the process. `named` is the name
held in `IN_FLIGHT` before its file is there, `writing` the file, `put` the
rename over the target (or the removal after a failure, or neither where the
far end refuses), `over` the name dropped. A start lists the site, keeps of
that its own names not in flight, and removes these one by one. A removal refused
ends that recovery, and the next take recovers again. Another node's files lie
there all along.

### Sender

`TakeSocket` takes the lock of the target's family and binds its socket where
none is kept, or `NoSocket` can be had; `drain` drops what waits there, `MOST` at
most; `ask` and `await` are the request and its first answer, and any of the
three may fail (`GiveUp`). Answers come late, after their exchange gave up, or
never.

### Pinned

`file` is the file's whole lines, and `tail` what follows them: nothing, part of a
line as far as its key or its name, or a line without its end, which is read as
a line all the same. `BeginHold` takes the lock and reads the file where this
process had not; `Judge` holds, refuses, or finds none pinned; `AppendPin`
appends, syncs and pins. `AppendFails` fails before the line is there, after it
is, or anywhere within it, since `write_all` may. What is appended next becomes
one line with that part: one that pins nothing (`Torn`), or pins under a key that
is part of one and another behind it (`SpoiltKey`). `joined` remembers, as history,
whose line met with that. No far end's name begins another's here.

### Outgoing and Arrival

`Outgoing`: `was` and `handed` count the bytes read and handed on; `way` says
whether the body is written on a piece at a time, gathered, or held whole. The
reader is asked past its length, and whether the send is still its sender's is
asked before the first byte goes.

`Arrival`: `opening`, `next`, `unread` are `Opened` and `Chunked`; `cycle` and
`verdict` the arrival taken whole, or refused or failed unread; `told` what the
far end's acknowledgement was run with. Bytes are counted, not told apart: no
property of these two depends on which they are.

### Stuffed

`Stuff` doubles a dot that starts a line and ends the block; `ReadLine` adds a
line to `block` until the terminator, then undoes the doubling. Bytes are CR, LF
and the dot here, in every order: any other byte neither starts nor ends a line,
as a CR with no LF behind it does not. Several blocks follow each other on one
wire, and the peer may close within one.

### Loopback

`near[r]` is the round's own thread, `far[r]` its far end's: the address is
numbered, the session stood up, the payload given, the far end joined and both
judged. Where the giving failed, a stream's far end is released by a poke
(`unblock`), a datagram's by its own timeout; `order` is the round on one
thread. `mail[a]` is what came to an address.

## Runs

`Claim`, all with module `MCClaim`:

| Run | Instance | Shows |
| --- | --- | --- |
| `claim_race` | two nodes, one name, producers do not overwrite, one death, the stability check | the turn excludes and is dropped; nobody takes another's claim; what a cycle carries stays claimed for it; no claim is forgotten; the artifact claimed is the one listed; what a node refused it does not receive again |
| `claim_failures` | one node, `Unordered`, one name, producers overwrite, every operation failing, one death | no version is lost or doubled; every step is one `Custody` allows |
| `claim_live` | one node, two names, one death, fair | everything is received in the end; no claim stays while its name is free |
| `claim_recovered_again`, `claim_turn_not_dropped`, `claim_stamped_late` | see Findings | a promise the code does not keep |

Two names are where a full receive (`Most`) leaves one to the next listing; two
nodes are what a race needs, a third meets the same turn; two versions of a name
are a claimed one and a newer one in its way. Three times let a node hold two
claims of a name and make a third; `claim_failures` has two. One death shows a
recovery, and a node that starts is one that died before it did anything. What
fails in `claim_live` and `claim_race` is a node or a rename, not a call: with
calls failing for ever nothing need ever be received. `NotReceivedAgain` is a
promise of `Ordered` arrivals: where a receive goes on while a refusal is told,
its listing is older than the refusal and the artifact is received once more.
`EveryArtifactIsReceived` is one of `Ordered` arrivals and of producers that do
not overwrite: in either other case a version may be remembered as refused that
no cycle had, which is the finding of `claim_stamped_late`.

`Serving`, all with module `MCServing`:

| Run | Instance | Shows |
| --- | --- | --- |
| `serving_evict` | three peers, two kept; one says parts, and two requests ahead of the answers, one a request, one only connects; timeouts, peers that leave, accepts, turns and writes that fail | no turn on a quiet or busy connection; one answer out at a time; no freed connection is slept on; whoever is taken is answered or shut off, but for one whose answer failed to be written |
| `serving_live` | the same three peers, a request each, two words in one read, nobody leaving, no timeout; fair | everything said on a kept connection gets its turn; every peer is accepted where readers run dry |

`MOST_KEPT` is 64 in the code; 2 with three peers reaches the limit and leaves
one connection beside the one that goes. The connection let go there may be one
just found speaking; its peer hears the end. `Speakers` are the connections whose
peers say anything, `Talkers` those whose peers say parts and requests ahead: one
that does, one it may keep waiting, and one that comes when two are kept. The
first two connect in either order. `MaxInbox` is 2 in `serving_live`: two words lie in one read, so
that one is left in the reader when the first is taken, and is served before the
next wait. There nobody leaves (`Leaves`) and the wait has no bound (`Timed`): a
peer that leaves or a receive that gives up ends a wait that a forgotten
connection would make endless. And `CHECK_DEADLOCK` is `FALSE`: such a receive
really waits once the peers have said all they will.

`EverythingSaidIsTaken` assumes that peers do not send parts for ever
(`PartsEnd`): else TLC shows a peer that does so keeping the turn from those
behind it, since `serving.rs:231` leaves the connection where it is and the first
ready one goes first. It assumes too that no turn stays within an exchange for
good (`TurnsEnd`), as one does with a peer that stops there where nothing bounds
the reads. `AcceptedOnceReadersRunDry` assumes that again and again nothing already
read is left in a free connection (`ReadersRunDry`). Without that,
`EveryPeerIsAccepted`, it is false: see Findings.

`Pool`, with module `MCPool`:

| Run | Instance | Shows |
| --- | --- | --- |
| `pool_exchange` | two threads, one key that sends and one subscribed, three sessions, three requests, one delivery, `Ordered`, `quiet` | a session is one thread's at a time; an answer is its request's, and a request carried out at most twice; a delivery is acknowledged on its session, and not lost |

Two threads at once make two sessions kept under one key, and a third session
and request are what a request carried out a third time would need.
`CHECK_DEADLOCK` is `FALSE`: the requests end. Where the next receive does not
wait (`Ordered` FALSE) an acknowledgement may go on another session than its
delivery came on: see Findings.

The rest:

| Run | Module | Shows |
| --- | --- | --- |
| `parts` | `MCParts` | the place passes only what was accepted or refused for good, and comes to the end; a group is settled once, after the last; a store loses nothing, and everything in it comes to a verdict once all can be read; one listener is bound, is handed back blocking, and its bounded receives return; a far end let go ends, and its clients wait for nobody; a start removes nothing being written and leaves nothing over; an exchange takes nothing of what waited before it, short of a flood; a far end is trusted under one key unless its line was joined with another; a body goes whole or not at all; only what was read whole is accepted; blocks read back; a round is judged and took its own |
| `store_overwritten`, `pinned_torn` | `MCParts` | see Findings |

Their bounds, and why they reach the cases:

- `Contiguous`: three records, two read at once, each out twice at most, two
  verdicts undone, set once more: a verdict may come behind, at and past the
  place, and again for a record passed.
- `Together`: three arrivals, so that one is told between two others.
- `Store`: two places, one handed over at a time, three versions, one failure or
  death: one refused may lie before the one to be received, and one unreadable
  be written again.
- `Listener`: two receives, two peers, one fault: a bind fails while another
  waits for the lock, or the mode is refused, and a peer vanishes under a wait.
  `AtOnce` is 1: see Limits.
- `Concurrent`: two clients, a backlog of two: the poke finds it full.
- `SendFile`: two sends, two starts, one death, one refusal: a start of the
  second life beside a send of the second life and files of the first.
- `Sender`: three exchanges, two families, `MOST` 2 (64 in the code): two late
  answers wait for the third exchange.
- `Pinned`: two far ends, two keys, four lines, two failures or deaths: an append
  is cut anywhere within its line, another line joins it, and the process starts
  again.
- `Outgoing`: bodies and lengths of 0 to 5 bytes in pieces of 0 to 3, so that
  both differ either way and a length is, and is not, a whole number of pieces.
- `Arrival`: up to three chunks of 0 to 2 bytes, empty ones anywhere.
- `Stuffed`: every body of up to three bytes, two blocks, the maximum 3, so that a
  block may be too long, ten bytes on the wire. Three are the shortest with a dot
  behind a CR LF, and with the end's own bytes.
- `Loopback`: two rounds of each kind; they meet only in the numbering of
  sessions and in what stands, so two show what three would.

It has `CHECK_DEADLOCK FALSE`: a log read to its end, a group settled, a
round judged or a wire closed is where these stop.

Every module also has a type invariant (`TypeOK`, or `<Module>TypeOK`). Only
`Claim`'s is a property of a run; TLC finds the others to hold of the same
instances when they are named as an `INVARIANT`.

## Fairness

No fairness is assumed of producers, peers, failures or deaths.

- `Claim`: weak fairness of each node's receive, settles and verdicts, since the
  runtime asks every transport again and each cycle ends in a verdict or drops
  its acknowledgement, which `hold.rs` makes one; strong fairness of the rename
  that succeeds, since no producer holds a file for ever.
- `Serving`: weak fairness of the receive and of each connection's answers, for
  the same reasons. What is asked of peers is in the properties themselves:
  `PartsEnd`, `TurnsEnd`, `ReadersRunDry`.
- `Contiguous`, `Together`, `Store`: weak fairness of receives and of each
  cycle's verdict. Verdicts undone and failures are bounded: failing for ever,
  nothing need ever be accepted. That nothing unreadable lies in a store for
  good is said in its property.
- `Listener`: weak fairness of each receive once it began and of its deadline;
  strong fairness of the binding's lock, which a thread that waits for it gets in
  the end. Peers need never come.
- `Concurrent`: weak fairness of the accepting thread and of the drop.
- `Loopback`: weak fairness of both threads. A far end's timeout is counted on
  only where nothing else can release it: for a datagram, to which no poke is
  made, and where a poke missed.

`Pool`, `SendFile`, `Sender`, `Pinned`, `Outgoing`, `Arrival` and `Stuffed` have
safety properties only.

## Proofs

Each theorem holds for every value of the constants that its module's `ASSUME`
allows - any number of nodes, names, threads, sessions, connections, sends or
bytes, any set of failing calls, any bound - under no other condition than the
theorem states. Each condition was tried: where it is left out, TLC finds the
property broken on an instance no larger than the runs'.

| Module | Theorem | Property | Condition |
| --- | --- | --- | --- |
| `ClaimProofs` | `TypeCorrect` | `TypeOK` | |
| | `NothingLost` | `Conservation` | |
| | `TurnExcludes` | `InTurn` | |
| `CustodyProofs` | `ClaimKeepsCustody` | `KeepsCustody` | |
| `ClaimReceiveProofs` | `AlwaysTidy` | `Tidy`, a lemma of the next | |
| | `NoTurnIsLeft` | `NoTurnLeft` | `take_turn`, `drop_turn` do not fail |
| | `ClaimsAsFound` | `ClaimsWhatItFound` | `~Overwrites` |
| | `CyclesHold` | `HeldByItsCycle` | `Ordered`, or `list`, `drop_turn`, `delete` do not fail |
| | `NoClaimIsLeft` | `NoClaimLeft` | `rename`, `drop_turn`, `delete` do not fail |
| | `RefusedStaysAside` | `NotReceivedAgain` | `Ordered`; `stamp`, `restore` do not fail |
| `ServingProofs` | `ReadyTurns`, `OneAtATime`, `WordIsKept`, `NobodyElseIsLeft` | `TurnIsReady`, `OneAnswerOwed`, `NoWordLost`, `LeftByAFailedWriteOnly` | |
| `PoolProofs` | `PoolTyped`, `OneThreadASession` | `TypeOK`, `OneUser` | |
| | `AnswersAreOwn` | `AnsweredItsOwn` | |
| | `AcknowledgedWhereItCame`, `NoneIsLost` | `AckedOnItsSession`, `NoDeliveryLost` | `Ordered` |
| `ReceivesProofs` | `PlaceNeverSkips` | `NeverSkips` | |
| | `SettledOnce` | `SettledAfterTheLast` | |
| | `OneListener`, `HandsBack` | `BoundOnce`, `HandedBackAsItWas` | |
| | `DeletesTheAccepted` | `DeletedWasAccepted` | `~Overwrites` |
| `SendsProofs` | `NoneWritingIsRemoved`, `RecoveredLeavesNothing` | `WritingIsNotRemoved`, `NothingLeftOver` | |
| | `TakesNothingFromBefore` | `NothingFromBefore` | |
| | `KeyIsForGood` | `OneKeyUnlessJoined` | |
| `BodiesProofs` | `SendsTheWhole`, `AcceptsTheWhole` | `SentWhole`, `AcceptedWasReadWhole` | |
| | `ReadsBack` | `BlocksReadBack` | |

These are all the safety properties that the passing runs check.
`DeletesTheAccepted` is false without its condition: the run
`store_overwritten`. `NoClaimIsLeft` and `CyclesHold` say where the two promises of
`claim_turn_not_dropped` and `claim_recovered_again` are kept.

How they go. In each, an inductive invariant is shown to hold at first, to be
kept by each action, and to give the property; the temporal step is PTL.

**Claim: versions and turns.** `TypeOK` is inductive as it stands. Its last
three parts are not types: a node knows only claims of its own (`KeepsItsOwn`),
is at an artifact from asking for its turn to dropping it (`AtAnArtifact`), and
waits for a settle it began (`SettlesInTake`). For `Conservation` the lemma
`NextMoves` says what any step does to where the versions are - nothing, or one
restore, rename, delete or write - and each of these four is a lemma of its own.
`Written` (nothing is numbered beyond the last write) is needed for a new
version to be new. It rests on `restore` finding the dropped name free in the
same step in which it moves: a far end that only looks first could replace.
`Claim` implements `Custody` because of `Conservation`: a claimed name emptied
takes its version out of its node's hands only because no other name holds it.
A recovering node removes only turns it holds itself, and it is then at none.

**Claim: receives and cycles.** All five rest on `Tidy`: what a receive has in
its hands is let go with the step it was for, a settle tries only what is held,
and an ordered Location is not asked while a cycle of its last receive is on. To
it each adds what its property needs of one node at a time; `OthersStay` says
that a step of one node changes nothing another remembers. `ClaimsWhatItFound`
needs that what is to be renamed lies as found (`FoundLies`): the turn keeps the
other nodes off, and only a producer that writes over it could change it.
`HeldByItsCycle` needs that the claims a node recovers, has just won, carries
and holds are different ones (`HandsApart`), so that no return of one takes
another away: this fails where a node recovers with cycles under way.
`NoClaimLeft` needs that a cycle which only has to remember or settle has
nothing claimed left. `NotReceivedAgain` needs that what is set aside is
remembered with the stamp it lies under, and a verdict given is one of what lies
there, from the return to the settle that remembers it.

**Serving.** The invariant is the types with the list's connections told apart
(`OnePerConn`); that the connection found stays ready until its turn, though the
list moves up under its index (`FoundStays`); that whatever the wait left out is
busy still, or word of it is there or on its way (`Covered`); and that a request
taken has its answer to come, or failed to be written, or its connection is shut
(`LeftByAFailedWriteOnly`). What carries them is that
only a turn makes a connection busy and reads from it, and only the receive
removes one from the list.

**Pool.** `PoolInv` is `TypeOK`; where each exchange stands (`AllWell`: it has out
a session opened for its key, and what it read came on that one); what is on the
sessions (`Wires`: only sends ask, a delivery is in one inbox once, and is in none
once read); and that what is kept, and out, is apart (`Apart`: kept once, under
its key, in nobody's hands). `OneUser` follows from `Apart`.

To it `AckedOnItsSession` and `NoDeliveryLost` add `Orderly`, which needs
arrivals told before the next receive: for each Location there is one exchange
and one session, kept or in the hands of that exchange, and a delivery owed or
being acknowledged came on that one if it is there still. Where `take` finds
none, the session has been let go.

`AnsweredItsOwn` adds `Clean`: a session for sends that is kept is at rest, with
nothing asked and nothing said but a closing far end's word, and so is one taken
until it is written on and once it is read; in between nothing is on it but the
one request or its answer. That is so because whatever fails is let go. And it
adds `Spent`: how often a request was carried out, on how many sessions it is
asked, and how often it may still be written are two at most together.

**The smaller parts.** `NeverSkips` is inductive with the types: a verdict moves
the place only over the record next to it, which that verdict ends.
`SettledAfterTheLast`: `left` is the number of arrivals not counted yet, so the
one that counts it to nothing is the last, and stands at `settle` alone.
`BoundOnce`: the binding's turn is one receive's, which binds only where it
looked again and found nothing. `HandedBackAsItWas`: the listener is
non-blocking only while a bounded accept is at it, or the system refused its
mode. `DeletedWasAccepted`: what is listed or carried lies there as it was
found, and one name is carried once. `WritingIsNotRemoved`, `NothingLeftOver`: a
send's name is in flight while it is at it and on no list before it is written,
and what earlier lives left is on the list of every start under way.
`NothingFromBefore`: each datagram dropped was there before, so what is left of
these is fewer than the drain may still drop, and where no more than that waited
none is left when it ends. `OneKeyUnlessJoined`: who is trusted, and met with no
joined line, is trusted under the key of the last line for it, which a process
that read the file has pinned. `SentWhole`: what was read is in the piece at
hand or was handed on in whole pieces, and so many pieces is what the length
takes. `AcceptedWasReadWhole`: what was given is read or at hand, and the end is
said after the last chunk only.

**Mail's block.** `Marks` says where each byte of a body stands on the wire, and
that nothing else is there but the period put before one that starts a line.
`LineStarts`: a byte starts a line on the wire where it does in the body, since
a doubled period ends none. So a period alone on its line is the terminator's,
and no beginning of a body on the wire ends a block (`NoEndBefore`), whatever
line ends and periods the body has; and the periods undone are those put in
(`UnstuffedBack`). The invariant is then that what was read of the block under
way, and what was not read, are the next bytes written (`StreamAhead`), that it
is not whole, and that the bodies read back are the first written (`ReadSoFar`).
As a block's last byte ends a line, a line read never reaches into the next
block.

**Induction over data.** The library's induction theorems take an operator,
which the provers here cannot instantiate. Where a proof needs what a recursive
function gives, it uses the set of the numbers for which that holds, and that
`Nat` is well founded: `AllNumbers` in `PoolProofs`, by which `UsableOfIsSome` says
what letting go of the unusable leaves, and `EveryNumber` in `BodiesProofs`, by
which `FlatBegins` unfolds a flattening part by part and `StuffIs` and
`UnstuffedBack` follow a body byte by byte.

**Model-checked only.** Liveness: the prover does neither fairness nor `ENABLED`.
`Concurrent` and `Loopback` have liveness properties alone.

## Findings

Where the code does not do what it says, each shown by a run:

1. A recovery whose listing fails is put off to a later `take`, by when the
   node holds claims again, and gives those back (`claim_recovered_again`).
2. A claim won whose turn could not be dropped is lost to the node until it
   starts again (`claim_turn_not_dropped`).
3. The stamp of a returned artifact is asked after its return: what a producer
   wrote there between the two is remembered as refused and never received:
   `claiming.rs:310` against `refused.rs:11`, "one written again under its name is
   another stamp, and a new arrival" (`claim_stamped_late`).
4. An object written over between the read of its body and its acceptance is
   deleted by its name, unread: `listed.rs:85` against `listed.rs:18`, "one
   written again under its name is a new arrival" (`store_overwritten`). Where
   producers write again only what was refused, nothing is lost.
5. An append cut within its line joins the next one to it, and who is pinned by
   that line is trusted under another key once the node starts again:
   `pinned.rs:126` against `pinned.rs:13`, "a node started again holds its far
   ends to the keys they presented before" (`pinned_torn`).

And without a run of their own; TLC shows each where its property, which the
module defines, is named in that run's cfg instead of the others:

6. A peer that always leaves something read is served before every wait, and so
   before every accept: `serving.rs:213` against `serving.rs:255`, "busy
   connections never keep one waiting" (`EveryPeerIsAccepted`, in `serving_live`).
7. The write of an answer that fails frees its connection without shutting it,
   and a peer still there hears nothing: `answer.rs:127` against `answer.rs:12`,
   "the peer is never left waiting on a request nobody will answer"
   (`NoPeerLeftWaiting`, in `serving_evict`).
8. Where the next receive does not wait for verdicts, an acknowledgement may be
   made on a session put back since under the same key: `pool.rs:137` against
   `pool.rs:120`, it "belongs to the session it came on" (`AckedOnItsSession`, in
   `pool_exchange` with `Ordered` FALSE).
9. An answer that comes once the next exchange's drain is over is taken for the
   answer to that one: `sender.rs:73` against `sender.rs:57`, "an answer that came
   after its own request gave up is not taken for the answer to the next"
   (`NoLateAnswer`, in `parts`).

## Limits

What the checks do not say:

- Two bounded accepts on one listener at once (`AtOnce` 2) share its mode: the
  first to end hands it back blocking under the other, which may then wait past
  its deadline. A transport's receives are one at a time, so the run has 1.
- `Concurrent`'s poke is assumed to reach a listener whose backlog has room (a
  full one wakes the accept by itself). A poke that failed otherwise would leave
  the join waiting for the next client.
- `Concurrent` leaves out an accept that fails and a client whose thread cannot be
  started; both go on to the next client.
- A receive without a time limit waits with a peer that stops within its
  exchange, where the technology reads on there; `TurnsEnd` says that none does.
- Where the system refuses to set a listener's mode back, it stays non-blocking
  until the next bounded accept sets it; an unbounded one on it is told at once
  that nobody is there.
- More than `MOST` datagrams waiting outlast `Sender`'s drain: `NothingFromBefore`
  says nothing of such a flood.
- `Pinned` leaves out far ends whose names begin one another's, and a file cut
  within a character.
- `NotReceivedAgain` says nothing of `Unordered` arrivals, which may receive once
  more what was refused while they listed.
- `Store` is without overwriting in `parts`; with it, see Findings.

## Not modelled

- `claim/sited.rs`, `claim.rs`: a claim of one artifact by its address makes the
  calls of `Claimant::claim` and `give_back`, which `Claim` has, without a
  listing. What else there is, a second connection to retry on, is in the
  technology's `with_site`, which is not in this repository.
- The contract - traits, settings, declarations - and `node.rs`, `headers.rs`,
  `file_name.rs`: no state that a step changes.
- The XML of a bucket's listing and the SQL of a table's statements: text
  parsed and composed, tested by example in the repository. `Store` begins where
  they end.
- The classification of I/O errors and what a guard answers for each: pure
  functions of one value, tested row by row.
- Binding, connecting and TLS: calls to the operating system and a library. What
  the crate does around them is in `Listener` and `Serving`.
- Test support: peers and payloads. `lines.rs` and `echo.rs` are read for the
  exchange that `Serving` and `Pool` leave to a technology.
- The delivery made again by the far end of a session let go.
