-------------------------------- MODULE Pool --------------------------------
(***************************************************************************)
(* The sessions a transport keeps between exchanges (pool.rs), used by     *)
(* several threads at once: sends that wait for their answer, receives     *)
(* that drain a subscription (delivered), and acknowledgements, each on a  *)
(* session kept under its key or, for the first two, on a new one.  Far    *)
(* ends answer late or never, say something unasked, and close sessions    *)
(* at any time.  One step is one hold of the pool's lock, one look at a    *)
(* session (usable), or one read or write on it.                           *)
(***************************************************************************)
EXTENDS Naturals, FiniteSets, SequencesExt

CONSTANTS
  Threads,
  Sends,       \* keys of sessions that carry requests and their answers
  Receives,    \* keys of sessions subscribed to deliveries, one per Location
  Quiet,       \* whether usable is quiet on those, or else alive
  Ordered,     \* Arrivals::Ordered: deliveries acknowledged before the next receive
  Most,        \* the room a receive is given
  MaxOpened,   \* bound: sessions the far ends accept
  MaxRequests, \* bound: requests sent
  MaxDelivered \* bound: deliveries made

Keys       == Sends \cup Receives
Sessions   == 1..MaxOpened
Requests   == 1..MaxRequests
Deliveries == 1..MaxDelivered
None       == 0

ASSUME PoolAssumption ==
  /\ Sends \cap Receives = {}
  /\ Quiet \in BOOLEAN /\ Ordered \in BOOLEAN
  /\ Most \in Nat \ {0}
  /\ MaxOpened \in Nat /\ MaxRequests \in Nat /\ MaxDelivered \in Nat

VARIABLES
  kept,      \* Pool::kept, the sessions under each key, the last put back last
  opened,    \* Pool::opened; the last one's number
  key,       \* the key each session was opened for
  far,       \* whether each session's far end has it open
  asked,     \* requests written on each session and not yet carried out
  inbox,     \* what each far end said and nobody has read: words, in order
  requests,  \* requests begun so far
  delivered, \* deliveries made so far
  owed,      \* deliveries handed over and not yet acknowledged
  th,        \* each thread: where its exchange stands, and its locals
  carried,   \* history: how often each request was carried out
  answered,  \* history: what each request was answered
  came,      \* history: the session each delivery was read on
  acked      \* history: the session each delivery was acknowledged on

wire  == <<key, far, asked, inbox>>
past  == <<carried, answered, came, acked>>
count == <<opened, requests, delivered>>
vars  == <<kept, opened, key, far, asked, inbox, requests, delivered, owed, th,
           carried, answered, came, acked>>

\* Something the far end says unasked before it closes: a timeout's 408.
Notice == 0
Places == {"idle", "take", "check", "letgo", "open", "write", "read", "keep", "push"}
Idle   == [pc |-> "idle", op |-> "none", key |-> "none", on |-> None, fresh |-> FALSE,
           id |-> 0, got |-> {}]

Init ==
  /\ kept   = [k \in Keys |-> <<>>]
  /\ opened = 0 /\ requests = 0 /\ delivered = 0
  /\ key    = [s \in Sessions |-> "none"]
  /\ far    = [s \in Sessions |-> FALSE]
  /\ asked  = [s \in Sessions |-> <<>>]
  /\ inbox  = [s \in Sessions |-> <<>>]
  /\ owed   = {}
  /\ th     = [t \in Threads |-> Idle]
  /\ carried  = [r \in Requests |-> 0]
  /\ answered = {}
  /\ came     = [d \in Deliveries |-> None]
  /\ acked    = {}

\* A look at the socket that does not wait: what was said before the end is
\* found before the end (alive), and is not an answer (quiet).
Usable(s) ==
  IF key[s] \in Sends /\ Quiet THEN far[s] /\ inbox[s] = <<>>
  ELSE far[s] \/ inbox[s] # <<>>

\* The thread t goes on as r.
Goes(t, r) == th' = [th EXCEPT ![t] = r]
Ends(t)    == Goes(t, Idle)

\* Where an exchange begins on its session.
Begins(t) == IF th[t].op = "receive" THEN "read" ELSE "write"

-----------------------------------------------------------------------------
(* exchange and kept begin.                                                *)

Busy(k) == \E t \in Threads : th[t].key = k

Send(t, k) ==
  /\ th[t].pc = "idle"
  /\ requests < MaxRequests
  /\ requests' = requests + 1
  /\ Goes(t, [Idle EXCEPT !.pc = "take", !.op = "send", !.key = k, !.id = requests + 1])
  /\ UNCHANGED <<kept, opened, delivered, wire, owed, past>>

\* A Location is asked by one receive at a time; an ordered one once all it
\* handed over is acknowledged.
Receive(t, k) ==
  /\ th[t].pc = "idle"
  /\ \A u \in Threads : th[u].key = k => th[u].op = "ack" /\ ~Ordered
  /\ Ordered => \A d \in owed : key[came[d]] # k
  /\ Goes(t, [Idle EXCEPT !.pc = "take", !.op = "receive", !.key = k])
  /\ UNCHANGED <<kept, count, wire, owed, past>>

Acknowledge(t, d) ==
  /\ th[t].pc = "idle"
  /\ Ordered => ~Busy(key[came[d]])
  /\ owed' = owed \ {d}
  /\ Goes(t, [Idle EXCEPT !.pc = "take", !.op = "ack", !.key = key[came[d]], !.id = d])
  /\ UNCHANGED <<kept, count, wire, past>>

-----------------------------------------------------------------------------
(* take.                                                                   *)

\* MUTANT of Taken: the session is read and stays kept.
TakenNot(k) == kept[k]

\* What take leaves of the sessions kept under k.
Taken(k) == Front(kept[k])

\* What is kept under the key asked for.
Found(t) == kept[th[t].key]

\* MUTANT of NoneFound: an acknowledgement goes on a new session too.
NoneFoundOpens(t) == [th[t] EXCEPT !.pc = "letgo"]

\* None kept is for an acknowledgement the end (gone), else a new session.
NoneFound(t) == IF th[t].op = "ack" THEN Idle ELSE [th[t] EXCEPT !.pc = "letgo"]

\* The last session put back taken.
Pop(t) ==
  LET k == th[t].key
  IN  /\ th[t].pc = "take"
      /\ IF Found(t) # <<>>
         THEN /\ kept' = [kept EXCEPT ![k] = Taken(k)]
              /\ Goes(t, [th[t] EXCEPT !.pc = "check", !.on = Last(kept[k])])
         ELSE UNCHANGED kept /\ Goes(t, NoneFound(t))
      /\ UNCHANGED <<count, wire, owed, past>>

\* One that cannot carry an exchange is let go, and the next is taken.
Check(t) ==
  /\ th[t].pc = "check"
  /\ Goes(t, IF Usable(th[t].on) THEN [th[t] EXCEPT !.pc = Begins(t)]
             ELSE [th[t] EXCEPT !.pc = "take", !.on = None])
  /\ UNCHANGED <<kept, count, wire, owed, past>>

-----------------------------------------------------------------------------
(* A new session.                                                          *)

\* Those of these sessions that can carry an exchange, in their order: what
\* SelectSeq gives, as a function that proofs can expand.
UsableOf(sessions) ==
  LET rest[i \in 0..Len(sessions)] ==
        IF i = 0 THEN <<>>
        ELSE IF Usable(sessions[i]) THEN Append(rest[i - 1], sessions[i]) ELSE rest[i - 1]
  IN  rest[Len(sessions)]

LetGoUnusable(t) ==
  /\ th[t].pc = "letgo"
  /\ kept' = [k \in Keys |-> UsableOf(kept[k])]
  /\ Goes(t, [th[t] EXCEPT !.pc = "open"])
  /\ UNCHANGED <<count, wire, owed, past>>

Open(t) ==
  /\ th[t].pc = "open"
  /\ opened < MaxOpened
  /\ opened' = opened + 1
  /\ far' = [far EXCEPT ![opened + 1] = TRUE]
  /\ key' = [key EXCEPT ![opened + 1] = th[t].key]
  /\ Goes(t, [th[t] EXCEPT !.pc = Begins(t), !.on = opened + 1, !.fresh = TRUE])
  /\ UNCHANGED <<kept, asked, inbox, requests, delivered, owed, past>>

OpenFails(t) ==
  /\ th[t].pc = "open"
  /\ Ends(t)
  /\ UNCHANGED <<kept, count, wire, owed, past>>

-----------------------------------------------------------------------------
(* The exchange itself.                                                    *)

\* Written: a far end that has closed reads none of it, which the writer
\* need not notice.
Write(t) ==
  LET s == th[t].on
  IN  /\ th[t].pc = "write"
      /\ IF th[t].op = "ack"
         THEN /\ acked' = acked \cup {<<th[t].id, s>>}
              /\ UNCHANGED asked
              /\ Goes(t, [th[t] EXCEPT !.pc = "keep"])
         ELSE /\ asked' = IF far[s] THEN [asked EXCEPT ![s] = Append(@, th[t].id)] ELSE asked
              /\ UNCHANGED acked
              /\ Goes(t, [th[t] EXCEPT !.pc = "read"])
      /\ UNCHANGED <<kept, count, key, far, inbox, owed, carried, answered, came>>

ReadAnswer(t) ==
  LET s == th[t].on
  IN  /\ th[t].pc = "read" /\ th[t].op = "send"
      /\ inbox[s] # <<>>
      /\ answered' = answered \cup {<<th[t].id, Head(inbox[s])>>}
      /\ inbox' = [inbox EXCEPT ![s] = Tail(@)]
      /\ Goes(t, [th[t] EXCEPT !.pc = "keep"])
      /\ UNCHANGED <<kept, count, key, far, asked, owed, carried, came, acked>>

\* delivered: one more, where there is room.
ReadDelivery(t) ==
  LET s == th[t].on
  IN  /\ th[t].pc = "read" /\ th[t].op = "receive"
      /\ Cardinality(th[t].got) < Most
      /\ inbox[s] # <<>>
      /\ came' = [came EXCEPT ![Head(inbox[s])] = s]
      /\ inbox' = [inbox EXCEPT ![s] = Tail(@)]
      /\ Goes(t, [th[t] EXCEPT !.got = @ \cup {Head(inbox[s])}])
      /\ UNCHANGED <<kept, count, key, far, asked, owed, carried, answered, acked>>

\* delivered: full, or the far end closed, or nothing came in time (a
\* session still usable, or something arrived before).
HandOver(t) ==
  /\ th[t].pc = "read" /\ th[t].op = "receive"
  /\ Cardinality(th[t].got) = Most \/ inbox[th[t].on] = <<>>
  /\ owed' = owed \cup th[t].got
  /\ Goes(t, [th[t] EXCEPT !.pc = "keep", !.got = {}])
  /\ UNCHANGED <<kept, count, wire, past>>

\* MUTANT of AfterFailure: the exchange goes again on the next session kept.
AfterFailureTakes(t) ==
  IF th[t].fresh \/ th[t].op = "ack" THEN Idle
  ELSE [th[t] EXCEPT !.pc = "take", !.on = None, !.got = {}]

\* MUTANT of AfterFailure: the session an exchange failed on is put back.
AfterFailureKeeps(t) == [th[t] EXCEPT !.pc = "keep", !.got = {}]

\* The session let go; an exchange that failed on a kept one goes again, on
\* a new one.
AfterFailure(t) ==
  IF th[t].fresh \/ th[t].op = "ack" THEN Idle
  ELSE [th[t] EXCEPT !.pc = "letgo", !.on = None, !.got = {}]

\* No write that arrives, no answer in time, no delivery, a far end that
\* closed, or something a session cannot go on from: what was read goes with
\* the session, whose far end delivers it again.
Fail(t) ==
  /\ th[t].pc \in {"write", "read"}
  /\ Goes(t, AfterFailure(t))
  /\ UNCHANGED <<kept, count, wire, owed, past>>

-----------------------------------------------------------------------------
(* put_back.                                                               *)

PutBack(t) ==
  /\ th[t].pc = "keep"
  /\ IF Usable(th[t].on) THEN Goes(t, [th[t] EXCEPT !.pc = "push"]) ELSE Ends(t)
  /\ UNCHANGED <<kept, count, wire, owed, past>>

Push(t) ==
  /\ th[t].pc = "push"
  /\ kept' = [kept EXCEPT ![th[t].key] = Append(@, th[t].on)]
  /\ Ends(t)
  /\ UNCHANGED <<count, wire, owed, past>>

-----------------------------------------------------------------------------
(* The far ends.                                                           *)

\* The threads that have the session s out, and whether it is kept; one that
\* is neither is let go, and its far end finds out.
Users(s)  == {t \in Threads : th[t].on = s}
IsKept(s) == \E k \in Keys : s \in Range(kept[k])
Stands(s) == IsKept(s) \/ Users(s) # {}

\* A request carried out, the answer on its way.
Answer(s) ==
  /\ far[s] /\ asked[s] # <<>>
  /\ asked'   = [asked EXCEPT ![s] = Tail(@)]
  /\ carried' = [carried EXCEPT ![Head(asked[s])] = @ + 1]
  /\ inbox'   = [inbox EXCEPT ![s] = Append(@, Head(asked[s]))]
  /\ UNCHANGED <<kept, count, key, far, owed, th, answered, came, acked>>

Deliver(s) ==
  /\ far[s] /\ Stands(s) /\ key[s] \in Receives
  /\ delivered < MaxDelivered
  /\ delivered' = delivered + 1
  /\ inbox' = [inbox EXCEPT ![s] = Append(@, delivered + 1)]
  /\ UNCHANGED <<kept, opened, requests, key, far, asked, owed, th, past>>

\* The session closed, with a word or without; what was asked is not carried.
Close(s) ==
  /\ far[s] /\ Stands(s)
  /\ far'   = [far EXCEPT ![s] = FALSE]
  /\ asked' = [asked EXCEPT ![s] = <<>>]
  /\ \/ UNCHANGED inbox
     \/ key[s] \in Sends /\ inbox' = [inbox EXCEPT ![s] = Append(@, Notice)]
  /\ UNCHANGED <<kept, count, key, owed, th, past>>

-----------------------------------------------------------------------------

Take(t)     == Pop(t) \/ Check(t) \/ LetGoUnusable(t) \/ Open(t) \/ OpenFails(t)
Exchange(t) == Write(t) \/ ReadAnswer(t) \/ ReadDelivery(t) \/ HandOver(t) \/ Fail(t)
Return(t)   == PutBack(t) \/ Push(t)

Next ==
  \/ \E t \in Threads :
       \/ \E k \in Sends : Send(t, k)
       \/ \E k \in Receives : Receive(t, k)
       \/ \E d \in owed : Acknowledge(t, d)
       \/ Take(t) \/ Exchange(t) \/ Return(t)
  \/ \E s \in Sessions : Answer(s) \/ Deliver(s) \/ Close(s)

Spec == Init /\ [][Next]_vars

-----------------------------------------------------------------------------
(* What the pool promises.                                                 *)

Threadings ==
  [pc : Places, op : {"none", "send", "receive", "ack"}, key : Keys \cup {"none"},
   on : Sessions \cup {None}, fresh : BOOLEAN, id : Nat, got : SUBSET Deliveries]

\* The types of the state, and where a thread's exchange stands: it has a
\* session out from finding one until it is put back or let go, and opens
\* none to acknowledge (pool.rs, kept: "never on a new one").
TypeOK ==
  /\ kept \in [Keys -> Seq(Sessions)]
  /\ opened \in 0..MaxOpened /\ requests \in 0..MaxRequests /\ delivered \in 0..MaxDelivered
  /\ key \in [Sessions -> Keys \cup {"none"}]
  /\ far \in [Sessions -> BOOLEAN]
  /\ asked \in [Sessions -> Seq(Requests)]
  /\ inbox \in [Sessions -> Seq(Nat)]
  /\ owed \subseteq Deliveries
  /\ th \in [Threads -> Threadings]
  /\ carried \in [Requests -> Nat]
  /\ answered \subseteq Requests \X Nat
  /\ came \in [Deliveries -> Sessions \cup {None}]
  /\ acked \subseteq Deliveries \X Sessions
  /\ \A t \in Threads :
       /\ th[t].on # None <=> th[t].pc \in {"check", "write", "read", "keep", "push"}
       /\ th[t].op = "ack" => th[t].pc \notin {"letgo", "open"} /\ ~th[t].fresh

\* A session is one thread's at a time: nobody has out what is kept, and it
\* is kept once, under the key it was opened for (pool.rs: "taken for one
\* exchange and put back after").
OneUser ==
  \A s \in Sessions :
    /\ Cardinality(Users(s)) <= 1
    /\ IsKept(s) => Users(s) = {}
    /\ \A k \in Keys : \A i, j \in DOMAIN kept[k] :
         kept[k][i] = s /\ kept[k][j] = s => i = j /\ key[s] = k

\* An exchange is answered what its own request was, or what the far end
\* said unasked as it closed, never what an earlier exchange on its session
\* gave up waiting for; and its request is carried out at most twice, once on
\* a kept session and once on a new one, however many kept sessions would
\* fail (pool.rs: a session an exchange failed on is let go).
AnsweredItsOwn ==
  /\ \A e \in answered : e[2] \in {e[1], Notice}
  /\ \A r \in Requests : carried[r] <= 2

\* A delivery is acknowledged on the session it came on, or not at all
\* (pool.rs, kept: "belongs to the session it came on").  The session is taken
\* by its key alone: where arrivals are not told before the next receive, that
\* one may have put back another.
AckedOnItsSession == \A e \in acked : came[e[1]] = e[2]

\* A delivery read is on its way to its acknowledgement, or has it, or its
\* session is let go, whose far end then delivers it again (pool.rs,
\* delivered: "rather than lose it"; kept: "it delivers again").
NoDeliveryLost ==
  \A d \in Deliveries :
    came[d] # None =>
      \/ d \in owed
      \/ \E t \in Threads : d \in th[t].got \/ (th[t].op = "ack" /\ th[t].id = d)
      \/ \E s \in Sessions : <<d, s>> \in acked
      \/ ~Stands(came[d])

=============================================================================
