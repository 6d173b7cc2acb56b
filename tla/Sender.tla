------------------------------- MODULE Sender -------------------------------
(***************************************************************************)
(* The datagram socket a transport keeps and sends from (sender.rs), bound *)
(* once per address family, by however many threads.  An exchange has the  *)
(* socket for itself: it drains what waits there, sends its request, and   *)
(* takes the first datagram as its answer, or gives up.  An answer may     *)
(* come late, after its exchange gave up, or never; and every call of the  *)
(* system may fail, which ends the exchange.                               *)
(***************************************************************************)
EXTENDS Naturals, Sequences, FiniteSets, SequencesExt

CONSTANTS
  Exchanges,  \* the exchanges made, each a thread's
  Families,   \* the address families their targets are of
  DrainMost   \* MOST: how many datagrams a drain reads at most

ASSUME SenderAssumption == IsFiniteSet(Exchanges) /\ DrainMost \in Nat \ {0}

VARIABLES
  family,   \* the family of each exchange's target
  sockets,  \* how often a socket of each family was bound
  has,      \* the families whose socket is kept
  holder,   \* who holds each family's lock: at most one
  stands,   \* where each exchange stands
  waiting,  \* each socket's datagrams: the request each answers
  drained,  \* how many datagrams each exchange dropped before it sent
  asked,    \* the requests at the far ends, not answered yet
  before,   \* history: what had come before each exchange began
  took      \* what each exchange took: {} for none

senderVars == <<family, sockets, has, holder, stands, waiting, drained, asked, before, took>>

SenderInit ==
  /\ family \in [Exchanges -> Families]
  /\ sockets = [f \in Families |-> 0] /\ has = {}
  /\ holder = [f \in Families |-> {}]
  /\ stands = [e \in Exchanges |-> "idle"]
  /\ waiting = [f \in Families |-> <<>>]
  /\ drained = [e \in Exchanges |-> 0]
  /\ asked = {} /\ before = [e \in Exchanges |-> {}]
  /\ took = [e \in Exchanges |-> {}]

ExchangeGoes(e, from, to) == stands[e] = from /\ stands' = [stands EXCEPT ![e] = to]

\* Its target does not resolve, or no socket could be bound and set up: none is
\* kept.
NoSocket(e) ==
  /\ ExchangeGoes(e, "idle", "over")
  /\ UNCHANGED <<family, sockets, has, holder, waiting, drained, asked, before, took>>

\* The lock of its family is taken, and a socket bound where none is kept.
TakeSocket(e) ==
  LET f == family[e] IN
  /\ ExchangeGoes(e, "idle", "drain")
  /\ holder[f] = {} /\ holder' = [holder EXCEPT ![f] = {e}]
  /\ has' = has \cup {f}
  /\ sockets' = IF f \in has THEN sockets ELSE [sockets EXCEPT ![f] = @ + 1]
  /\ before' = [before EXCEPT ![e] = ToSet(waiting[f])]
  /\ UNCHANGED <<family, waiting, drained, asked, took>>

\* MUTANT of StopsDraining: one datagram at most.
StopsDrainingAtOne(e) == drained[e] = 1

\* So many were dropped that a flood would hold the send.
StopsDraining(e) == drained[e] = DrainMost

\* One more datagram dropped, whether it could be read or not.
DrainOne(e) ==
  LET f == family[e] IN
  /\ stands[e] = "drain" /\ ~StopsDraining(e) /\ waiting[f] # <<>>
  /\ waiting' = [waiting EXCEPT ![f] = Tail(@)]
  /\ drained' = [drained EXCEPT ![e] = @ + 1]
  /\ UNCHANGED <<family, sockets, has, holder, stands, asked, before, took>>

\* Nothing waits any more, or enough was dropped.
Drained(e) ==
  /\ ExchangeGoes(e, "drain", "ask")
  /\ waiting[family[e]] = <<>> \/ StopsDraining(e)
  /\ UNCHANGED <<family, sockets, has, holder, waiting, drained, asked, before, took>>

\* The request is sent.
AskFarEnd(e) ==
  /\ ExchangeGoes(e, "ask", "await")
  /\ asked' = asked \cup {e}
  /\ UNCHANGED <<family, sockets, has, holder, waiting, drained, before, took>>

\* The lock is dropped with the exchange.
LetsGo(e) == holder' = [holder EXCEPT ![family[e]] = @ \ {e}]

\* The first datagram that came is the answer.
TakeAnswer(e) ==
  LET f == family[e] IN
  /\ ExchangeGoes(e, "await", "over") /\ waiting[f] # <<>>
  /\ took' = [took EXCEPT ![e] = {Head(waiting[f])}]
  /\ waiting' = [waiting EXCEPT ![f] = Tail(@)]
  /\ LetsGo(e)
  /\ UNCHANGED <<family, sockets, has, drained, asked, before>>

\* The socket could not be drained, the request not be sent, or no answer came
\* in its time.
GiveUp(e) ==
  /\ \/ ExchangeGoes(e, "drain", "over")
     \/ ExchangeGoes(e, "ask", "over")
     \/ ExchangeGoes(e, "await", "over")
  /\ LetsGo(e)
  /\ UNCHANGED <<family, sockets, has, waiting, drained, asked, before, took>>

\* An answer comes, late or not.
AnswerComes(e) ==
  /\ e \in asked /\ asked' = asked \ {e}
  /\ waiting' = [waiting EXCEPT ![family[e]] = Append(@, e)]
  /\ UNCHANGED <<family, sockets, has, holder, stands, drained, before, took>>

\* It never comes.
AnswerLost(e) ==
  /\ e \in asked /\ asked' = asked \ {e}
  /\ UNCHANGED <<family, sockets, has, holder, stands, waiting, drained, before, took>>

OneExchange(e) ==
  NoSocket(e) \/ TakeSocket(e) \/ DrainOne(e) \/ Drained(e) \/ AskFarEnd(e) \/ TakeAnswer(e)
  \/ GiveUp(e)

SenderNext == \E e \in Exchanges : OneExchange(e) \/ AnswerComes(e) \/ AnswerLost(e)

SenderSpec == SenderInit /\ [][SenderNext]_senderVars

-----------------------------------------------------------------------------

SenderTypeOK ==
  /\ family \in [Exchanges -> Families]
  /\ sockets \in [Families -> 0..1] /\ has = {f \in Families : sockets[f] = 1}
  /\ holder \in [Families -> SUBSET Exchanges]
  /\ stands \in [Exchanges -> {"idle", "drain", "ask", "await", "over"}]
  /\ waiting \in [Families -> Seq(Exchanges)]
  /\ drained \in [Exchanges -> 0..DrainMost]
  /\ asked \in SUBSET Exchanges
  /\ before \in [Exchanges -> SUBSET Exchanges]
  /\ took \in [Exchanges -> SUBSET Exchanges]

\* Where no more waited on the socket when an exchange began than a drain drops,
\* the exchange takes none of it, and it takes what came on its own family's
\* socket (sender.rs, MOST: a flood alone gets past the drain).  What comes once
\* the drain is over is another matter: NoLateAnswer.
NothingFromBefore ==
  \A e \in Exchanges :
    /\ Cardinality(before[e]) <= DrainMost => took[e] \cap before[e] = {}
    /\ \A d \in took[e] : family[d] = family[e]

\* "an answer that came after its own request gave up is not taken for the
\* answer to the next" (sender.rs).
NoLateAnswer == \A e, d \in Exchanges : d \in took[e] => d = e

=============================================================================
