------------------------------ MODULE Serving ------------------------------
(***************************************************************************)
(* A Receive Location's kept listener and the connections its peers keep   *)
(* open on it (serving.rs), and the answers given on other threads         *)
(* (answer.rs).  A receive (Serving::next) holds the list of connections   *)
(* and goes round: a connection whose next exchange is read already is     *)
(* served first; else it waits on the listener, on the word of answers     *)
(* just given, and on every connection that owes no answer; accepts who    *)
(* came, letting the front connection go where too many are kept; and      *)
(* takes a turn on the first that spoke.                                   *)
(*                                                                         *)
(* Peers, answers and the receive interleave between any two steps.  Each  *)
(* busy flag is read in a step of its own.  What an exchange is belongs to *)
(* the technology: here, as in lines.rs, a buffered reader reads what the  *)
(* socket has, and takes one request or a part that is no exchange yet, or *)
(* reads on where what it read ends within an exchange.                    *)
(***************************************************************************)
EXTENDS Naturals, Sequences, SequencesExt

CONSTANTS
  Conns,     \* the connections peers open, each once
  MostKept,  \* MOST_KEPT
  Parts,     \* whether peers also say what is no exchange yet
  Leaves,    \* whether peers close their end
  Timed,     \* whether a receive waits only so long
  Breaks,    \* whether accepting, opening, exchanging and answering may fail
  MaxSaid,   \* bound: requests a peer says on its connection
  Speakers,  \* bound: the connections whose peers say anything
  Talkers,   \* bound: those whose peers say parts, and requests ahead
  MaxInbox   \* bound: what lies unread in one socket

ASSUME ServingAssumption ==
  /\ MostKept \in Nat \ {0}
  /\ Parts \in BOOLEAN /\ Leaves \in BOOLEAN /\ Timed \in BOOLEAN /\ Breaks \in BOOLEAN
  /\ MaxSaid \in Nat /\ MaxInbox \in Nat

VARIABLES
  queue,    \* connections the listener has not accepted yet
  open,     \* Serving::open, the list of connections kept
  peer,     \* each connection's far end: "away", "there" or "left"
  said,     \* how many requests the peer said on it
  inbox,    \* what lies in its socket: requests by number, 0 for a part
  read,     \* what its buffered reader read and did not take yet
  busy,     \* Owed::busy
  shut,     \* whether this side shut it, its answer let go
  told,     \* whether a freed connection's word waits to be heard
  owed,     \* the answers held: whose, to which request, and how far
  answered, \* history: the requests answered
  unwritten, \* history: the requests whose answer failed to be written
  taken,    \* history: the requests taken
  rx        \* the receive: where it stands, and its locals

conns   == <<queue, open, peer, said, inbox, read>>
answers == <<busy, shut, told, owed, answered, unwritten>>
vars    == <<queue, open, peer, said, inbox, read, busy, shut, told, owed, answered,
             unwritten, taken, rx>>

Requests == 1..MaxSaid

\* An answer is owed; given or let go, its connection is freed and then the
\* wait is told.
Owed == [conn : Conns, to : Requests, stage : {"owed", "free", "tell"}]

\* Where next stands: at is the connection in the list it looks at, on the ones
\* it waits on; spoke, new and word are what the wait found ready.
Idle   == [pc |-> "idle", at |-> 1, on |-> {}, spoke |-> 0, new |-> FALSE, word |-> FALSE]

Init ==
  /\ queue = <<>>
  /\ open  = <<>>
  /\ peer  = [c \in Conns |-> "away"]
  /\ said  = [c \in Conns |-> 0]
  /\ inbox = [c \in Conns |-> <<>>]
  /\ read  = [c \in Conns |-> <<>>]
  /\ busy  = [c \in Conns |-> FALSE]
  /\ shut  = [c \in Conns |-> FALSE]
  /\ told  = FALSE
  /\ owed  = {}
  /\ answered  = [c \in Conns |-> {}]
  /\ unwritten = [c \in Conns |-> {}]
  /\ taken     = [c \in Conns |-> {}]
  /\ rx = Idle

Open   == ToSet(open)
Queued == ToSet(queue)

\* The connection was let go of: nothing is read from it any more.
Gone(c) == peer[c] # "away" /\ c \notin Open \cup Queued

\* A wait finds the connection ready: something was said, or it ended.
Readable(c) == inbox[c] # <<>> \/ peer[c] = "left" \/ shut[c]

\* MUTANT of Owing: the flag is not asked.
OwingNothing(c) == FALSE

\* Whether the connection waits on this side now.
Owing(c) == busy[c]

\* Whether something already read lies in its reader.
Waiting(c) == read[c] # <<>>

-----------------------------------------------------------------------------
(* The peers.                                                              *)

Connect(c) ==
  /\ peer[c] = "away"
  /\ peer'  = [peer EXCEPT ![c] = "there"]
  /\ queue' = Append(queue, c)
  /\ UNCHANGED <<open, said, inbox, read, answers, taken, rx>>

Say(c) ==
  /\ peer[c] = "there" /\ ~Gone(c) /\ ~shut[c]
  /\ c \in Speakers /\ said[c] < MaxSaid /\ (said[c] = 0 \/ c \in Talkers)
  /\ Len(inbox[c]) < MaxInbox
  /\ said'  = [said EXCEPT ![c] = @ + 1]
  /\ inbox' = [inbox EXCEPT ![c] = Append(@, said[c] + 1)]
  /\ UNCHANGED <<queue, open, peer, read, answers, taken, rx>>

\* A setting, a ping, the first half of a frame.
SayPart(c) ==
  /\ Parts /\ c \in Talkers
  /\ peer[c] = "there" /\ ~Gone(c) /\ ~shut[c]
  /\ Len(inbox[c]) < MaxInbox
  /\ inbox' = [inbox EXCEPT ![c] = Append(@, 0)]
  /\ UNCHANGED <<queue, open, peer, said, read, answers, taken, rx>>

Leave(c) ==
  /\ Leaves
  /\ peer[c] = "there"
  /\ peer' = [peer EXCEPT ![c] = "left"]
  /\ UNCHANGED <<queue, open, said, inbox, read, answers, taken, rx>>

-----------------------------------------------------------------------------
(* next: the round.                                                        *)

Start ==
  /\ rx.pc = "idle"
  /\ rx' = [Idle EXCEPT !.pc = "look"]
  /\ UNCHANGED <<conns, answers, taken>>

\* The round begun again.
Again == [Idle EXCEPT !.pc = "look"]

\* What is already read goes first.
Look ==
  /\ rx.pc = "look"
  /\ rx' = IF rx.at > Len(open) THEN [rx EXCEPT !.pc = "read", !.at = 1]
           ELSE IF ~Owing(open[rx.at]) /\ Waiting(open[rx.at])
           THEN [rx EXCEPT !.pc = "turn", !.spoke = rx.at]
           ELSE [rx EXCEPT !.at = @ + 1]
  /\ UNCHANGED <<conns, answers, taken>>

\* The deadline has passed: nothing arrived.
NothingWithin ==
  /\ Timed
  /\ rx.pc = "read" /\ rx.at = 1
  /\ rx' = Idle
  /\ UNCHANGED <<conns, answers, taken>>

\* Each connection that owes no answer is waited on.
Read ==
  /\ rx.pc = "read"
  /\ LET c == open[rx.at]
     IN  rx' = IF rx.at > Len(open) THEN [rx EXCEPT !.pc = "poll"]
               ELSE [rx EXCEPT !.at = @ + 1, !.on = IF Owing(c) THEN @ ELSE @ \cup {c}]
  /\ UNCHANGED <<conns, answers, taken>>

\* Where the connections that are waited on and ready stand in the list.
Spoken == {i \in 1..Len(open) : open[i] \in rx.on /\ Readable(open[i])}

\* The wait ends with what it finds ready, or with nothing in time.
Poll ==
  /\ rx.pc = "poll"
  /\ Spoken # {} \/ queue # <<>> \/ told \/ Timed
  /\ rx' = [rx EXCEPT !.pc = "hear", !.new = queue # <<>>, !.word = told,
                      !.spoke = IF Spoken = {} THEN 0 ELSE Min(Spoken)]
  /\ UNCHANGED <<conns, answers, taken>>

\* Every word told so far is read off.
Hear ==
  /\ rx.pc = "hear"
  /\ told' = IF rx.word THEN FALSE ELSE told
  /\ rx' = [rx EXCEPT !.pc = "accept"]
  /\ UNCHANGED <<conns, busy, shut, owed, answered, unwritten, taken>>

\* The turn of the connection at spoke, or the next round.
Turns(spoke) == IF spoke = 0 THEN Again ELSE [rx EXCEPT !.pc = "turn", !.spoke = spoke]

\* MUTANT of Moved: the place is kept though the list moved up.
MovedNot(at) == at

\* Where the connection at this place stands once the front one is let go.
Moved(at) == IF at = 0 THEN 0 ELSE at - 1

Full == Len(open) = MostKept

\* The list without the front connection, where no more are kept.
Room == IF Full THEN Tail(open) ELSE open

\* MUTANT of Comes: who spoke is served before anybody is accepted.
ComesLast == rx.new /\ rx.spoke = 0

\* The listener was ready.
Comes == rx.new

\* Nobody came; or who came is accepted and kept, or failed to be.
Accept ==
  /\ rx.pc = "accept"
  /\ \/ /\ ~Comes
        /\ rx' = Turns(rx.spoke)
        /\ UNCHANGED <<queue, open>>
     \/ /\ Comes
        /\ queue' = Tail(queue)
        /\ open'  = Append(Room, Head(queue))
        /\ rx' = Turns(IF Full THEN Moved(rx.spoke) ELSE rx.spoke)
     \/ /\ Comes /\ Breaks
        /\ queue' = Tail(queue)
        /\ open' \in {open, Room}
        /\ rx' = Idle
  /\ UNCHANGED <<peer, said, inbox, read, answers, taken>>

\* What the technology reads on c: what was read before, or what lies there.
Words(c) == IF Waiting(c) THEN read[c] ELSE inbox[c]

\* The first of it taken, the rest left in the reader.
ReadOne(c) ==
  /\ Words(c) # <<>>
  /\ read'  = [read EXCEPT ![c] = Tail(Words(c))]
  /\ inbox' = IF Waiting(c) THEN inbox ELSE [inbox EXCEPT ![c] = <<>>]

Without(i) == RemoveAt(open, i)

\* An exchange taken, answered at once or its answer owed; the connection
\* goes to the back, or was let go with its last exchange.
Taken(c) ==
  /\ Words(c)[1] # 0
  /\ taken' = [taken EXCEPT ![c] = @ \cup {Words(c)[1]}]
  /\ open' \in {Append(Without(rx.spoke), c), Without(rx.spoke)}
  /\ \/ /\ answered' = [answered EXCEPT ![c] = @ \cup {Words(c)[1]}]
        /\ UNCHANGED <<busy, owed>>
     \/ /\ busy' = [busy EXCEPT ![c] = TRUE]
        /\ owed' = owed \cup {[conn |-> c, to |-> Words(c)[1], stage |-> "owed"]}
        /\ UNCHANGED answered
  /\ rx' = Idle

\* No exchange yet: the connection stays where it is.
Nothing(c) ==
  /\ Words(c)[1] = 0
  /\ rx' = Again
  /\ UNCHANGED <<open, busy, owed, answered, taken>>

\* The turn failed: the connection is let go.
Failed ==
  /\ Breaks
  /\ open' = Without(rx.spoke)
  /\ rx' = Idle
  /\ UNCHANGED <<busy, owed, answered, taken>>

\* A turn, begun or gone on with.
InTurn == rx.pc \in {"turn", "within"}

\* A turn on the connection that spoke.  One that has nothing to read and
\* did not end keeps the receive there.
Exchange ==
  /\ InTurn
  /\ LET c == open[rx.spoke]
     IN  ReadOne(c) /\ (Taken(c) \/ Nothing(c) \/ Failed)
  /\ UNCHANGED <<queue, peer, said, shut, told, unwritten>>

\* What was read ends within an exchange, and the reader reads on in the same
\* turn: the rest may lie in the socket, or be waited for.
ReadOn ==
  /\ InTurn
  /\ LET c == open[rx.spoke]
     IN  Words(c) = <<0>> /\ ReadOne(c)
  /\ rx' = [rx EXCEPT !.pc = "within"]
  /\ UNCHANGED <<queue, open, peer, said, answers, taken>>

\* A peer that stops within its exchange is let go: the connection's own
\* timeout on its reads is the receive's.
StopsWithin ==
  /\ Timed
  /\ rx.pc = "within" /\ Words(open[rx.spoke]) = <<>>
  /\ open' = Without(rx.spoke)
  /\ rx' = Idle
  /\ UNCHANGED <<queue, peer, said, inbox, read, answers, taken>>

Closed ==
  /\ InTurn
  /\ LET c == open[rx.spoke]
     IN  Words(c) = <<>> /\ (peer[c] = "left" \/ shut[c])
  /\ open' = Without(rx.spoke)
  /\ rx' = Again
  /\ UNCHANGED <<queue, peer, said, inbox, read, answers, taken>>

-----------------------------------------------------------------------------
(* The answers, each on the thread that carried its exchange.              *)

At(a, stage) == owed' = (owed \ {a}) \cup {[a EXCEPT !.stage = stage]}

\* The answer written; or the write fails, the peer gone or not, and the
\* connection is freed all the same.
Write(a) ==
  /\ a.stage = "owed"
  /\ At(a, "free")
  /\ \/ answered' = [answered EXCEPT ![a.conn] = @ \cup {a.to}] /\ UNCHANGED unwritten
     \/ /\ Breaks \/ peer[a.conn] = "left"
        /\ unwritten' = [unwritten EXCEPT ![a.conn] = @ \cup {a.to}]
        /\ UNCHANGED answered
  /\ UNCHANGED <<conns, busy, shut, told, taken, rx>>

\* MUTANT of Shut: let go, the connection is only freed.
ShutNot(c) == UNCHANGED shut

Shut(c) == shut' = [shut EXCEPT ![c] = TRUE]

\* The protocol's negative answer, or the answer let go: the connection shut.
LetGo(a) ==
  /\ a.stage = "owed"
  /\ At(a, "free")
  /\ Shut(a.conn)
  /\ UNCHANGED <<conns, busy, told, answered, unwritten, taken, rx>>

\* MUTANT of Frees: the wait is told first.
FreesTelling(c, stage) ==
  IF stage = "tell" THEN busy' = [busy EXCEPT ![c] = FALSE] /\ UNCHANGED told
  ELSE told' = TRUE /\ UNCHANGED busy

\* The flag is stored, then the wait told.
Frees(c, stage) ==
  IF stage = "free" THEN busy' = [busy EXCEPT ![c] = FALSE] /\ UNCHANGED told
  ELSE told' = TRUE /\ UNCHANGED busy

Free(a) ==
  /\ a.stage \in {"free", "tell"}
  /\ Frees(a.conn, a.stage)
  /\ IF a.stage = "free" THEN At(a, "tell") ELSE owed' = owed \ {a}
  /\ UNCHANGED <<conns, shut, answered, unwritten, taken, rx>>

-----------------------------------------------------------------------------

Peers(c)  == Connect(c) \/ Say(c) \/ SayPart(c) \/ Leave(c)
Receive   == Start \/ Look \/ NothingWithin \/ Read \/ Poll \/ Hear \/ Accept \/ Exchange
             \/ ReadOn \/ StopsWithin \/ Closed
Answer(c) == \E a \in owed : a.conn = c /\ (Write(a) \/ LetGo(a) \/ Free(a))

Next == Receive \/ \E c \in Conns : Peers(c) \/ Answer(c)

Spec == Init /\ [][Next]_vars

\* The receive goes on and is asked again; every cycle ends in a verdict or
\* lets its answer go.
Fairness == WF_vars(Receive) /\ \A c \in Conns : WF_vars(Answer(c))

LiveSpec == Spec /\ Fairness

-----------------------------------------------------------------------------
(* What serving promises.                                                  *)

Places == {"idle", "look", "read", "poll", "hear", "accept", "turn", "within"}
TypeOK ==
  /\ queue \in Seq(Conns) /\ IsInjective(queue)
  /\ open \in Seq(Conns) /\ IsInjective(open) /\ Open \cap Queued = {}
  /\ peer \in [Conns -> {"away", "there", "left"}]
  /\ said \in [Conns -> 0..MaxSaid]
  /\ inbox \in [Conns -> Seq(0..MaxSaid)]
  /\ read \in [Conns -> Seq(0..MaxSaid)]
  /\ busy \in [Conns -> BOOLEAN] /\ shut \in [Conns -> BOOLEAN] /\ told \in BOOLEAN
  /\ owed \in SUBSET Owed
  /\ answered \in [Conns -> SUBSET Requests] /\ unwritten \in [Conns -> SUBSET Requests]
  /\ taken \in [Conns -> SUBSET Requests]
  /\ rx \in [pc : Places, at : Nat, on : SUBSET Conns, spoke : 0..MostKept,
             new : BOOLEAN, word : BOOLEAN]
  /\ Len(open) <= MostKept

\* A turn is made only on a connection that spoke or ended, and that owes no
\* answer: no receive is kept by a quiet peer while others speak, and no
\* exchange is taken before the one before it was answered (serving.rs).
TurnIsReady ==
  rx.pc = "turn" =>
    /\ rx.spoke \in DOMAIN open
    /\ LET c == open[rx.spoke] IN ~busy[c] /\ (Waiting(c) \/ Readable(c))

\* Never are two answers of one connection out at once: the verdicts come in
\* any order, and each answer would go to the other's request (answer.rs).
OneAnswerOwed ==
  \A a, b \in owed : a.stage = "owed" /\ b.stage = "owed" /\ a.conn = b.conn => a = b

\* A wait left no free connection out unless word of it is there or still on
\* its way: so nothing said on one waits for another peer (serving.rs).
NoWordLost ==
  rx.pc = "poll" =>
    \A c \in Open : \/ busy[c] \/ c \in rx.on \/ told
                    \/ \E a \in owed : a.conn = c /\ a.stage = "tell"

\* The peer hears its connection end: it is shut, or neither kept nor held by
\* an answer still to be given.
Ended(c) == shut[c] \/ (Gone(c) /\ \A a \in owed : a.conn = c => a.stage # "owed")

\* Whoever had an exchange taken was answered, will be, or hears the
\* connection end, let go meanwhile or not: what answer.rs says, "the peer is
\* never left waiting on a request nobody will answer".  A failed write frees
\* the connection without shutting it (Answer::with).
NoPeerLeftWaiting ==
  \A c \in Conns : \A k \in taken[c] :
    \/ k \in answered[c] \/ Ended(c) \/ peer[c] = "left"
    \/ \E a \in owed : a.conn = c /\ a.to = k /\ a.stage = "owed"

\* Nothing but that failed write leaves a peer waiting: not an answer let go
\* on another thread, a connection made to go while its answer is owed, nor a
\* receive that fails with a request taken (answer.rs, serving.rs).
LeftByAFailedWriteOnly ==
  \A c \in Conns : \A k \in taken[c] :
    \/ k \in answered[c] \cup unwritten[c] \/ shut[c]
    \/ \E a \in owed : a.conn = c /\ a.to = k /\ a.stage = "owed"

\* Peers stop sending what is no exchange, some time.
PartsEnd == <>[][\A c \in Conns : ~SayPart(c)]_vars

\* No peer stops for good within an exchange its turn waits for.
TurnsEnd == []<>(rx.pc # "within")

\* Again and again nothing already read is left in a free connection's reader.
ReadersRunDry ==
  []<>(rx.pc \in {"look", "poll"} /\ \A c \in Open : Owing(c) \/ ~Waiting(c))

\* Something said on c is not taken yet.
Unheard(c) == inbox[c] # <<>> \/ Waiting(c)

\* Whatever is said on a kept connection gets its turn, or the connection is
\* let go, whoever else speaks, pipelines, comes or fails to be kept: where
\* parts end and no turn waits for ever, nothing sleeps in a socket the wait
\* left out or in a reader (serving.rs).
EverythingSaidIsTaken ==
  PartsEnd /\ TurnsEnd =>
    \A c \in Conns : (c \in Open /\ Unheard(c)) ~> (Gone(c) \/ ~Unheard(c))

\* Who connects is accepted: serving.rs says "a new peer is accepted and kept
\* whenever the listener is ready, so busy connections never keep one
\* waiting".  What is already read goes before the wait, though.
EveryPeerIsAccepted ==
  TurnsEnd => \A c \in Conns : c \in Queued ~> c \notin Queued

\* Who connects is accepted, however many keep speaking or owe an answer, if
\* again and again nothing read before is left: the wait puts the listener
\* before every connection (serving.rs).
AcceptedOnceReadersRunDry ==
  ReadersRunDry => \A c \in Conns : c \in Queued ~> c \notin Queued

=============================================================================
