----------------------------- MODULE Concurrent -----------------------------
(***************************************************************************)
(* A far end that serves every client its listener accepts, each on a      *)
(* thread of its own, until it is let go (concurrent.rs).  Letting it go   *)
(* says it is stopped, connects once more so that a waiting accept sees    *)
(* it, and joins the thread that accepts.                                  *)
(***************************************************************************)
EXTENDS Naturals, Sequences, SequencesExt

CONSTANTS
  Clients,   \* the clients that connect
  Poke,      \* the connection made to be seen
  MaxQueue   \* the listener's backlog

ASSUME ConcurrentAssumption == Poke \notin Clients /\ MaxQueue \in Nat \ {0}

VARIABLES
  lined,      \* who connected and is not accepted yet
  came,       \* history: the clients that connected
  stopped,    \* Concurrent::stopped
  accepting,  \* the accepting thread: "accept", "look", "ended"
  letting,    \* letting it go: "up", "stop", "poke", "join", "gone"
  atHand,     \* the connection just accepted: at most one
  served      \* the clients being served, each on its thread

concurrentVars == <<lined, came, stopped, accepting, letting, atHand, served>>

ConcurrentInit ==
  /\ lined = <<>> /\ came = {} /\ stopped = FALSE
  /\ accepting = "accept" /\ letting = "up"
  /\ atHand = {} /\ served = {}

ClientConnects(c) ==
  /\ c \notin came /\ Len(lined) < MaxQueue /\ accepting # "ended"
  /\ lined' = Append(lined, c) /\ came' = came \cup {c}
  /\ UNCHANGED <<stopped, accepting, letting, atHand, served>>

\* A client leaves, whenever it likes.
ClientLeaves(c) ==
  /\ c \in served
  /\ served' = served \ {c}
  /\ UNCHANGED <<lined, came, stopped, accepting, letting, atHand>>

\* The accept waits for a client.
AcceptNext ==
  /\ accepting = "accept" /\ lined # <<>>
  /\ atHand' = {Head(lined)} /\ lined' = Tail(lined)
  /\ accepting' = "look"
  /\ UNCHANGED <<came, stopped, letting, served>>

\* MUTANT of CanServe: one client at a time.
CanServeOne == served = {}

\* A thread of its own serves each client.
CanServe == TRUE

\* Stopped meanwhile: accepting ends, and who was accepted is let go.  Else it
\* is served.
LookStopped ==
  /\ accepting = "look"
  /\ \/ /\ stopped
        /\ accepting' = "ended" /\ UNCHANGED served
     \/ /\ ~stopped /\ CanServe
        /\ accepting' = "accept" /\ served' = served \cup atHand
  /\ atHand' = {}
  /\ UNCHANGED <<lined, came, stopped, letting>>

LetGoBegins ==
  /\ letting = "up" /\ letting' = "stop"
  /\ UNCHANGED <<lined, came, stopped, accepting, atHand, served>>

SayStopped ==
  /\ letting = "stop" /\ letting' = "poke"
  /\ stopped' = TRUE
  /\ UNCHANGED <<lined, came, accepting, atHand, served>>

\* One more client, unless the backlog is full, which wakes the accept too.
Reaches == lined' = IF Len(lined) < MaxQueue /\ accepting # "ended"
                    THEN Append(lined, Poke) ELSE lined

PokeAccept ==
  /\ letting = "poke" /\ letting' = "join"
  /\ Reaches
  /\ UNCHANGED <<came, stopped, accepting, atHand, served>>

JoinAccepting ==
  /\ letting = "join" /\ accepting = "ended"
  /\ letting' = "gone"
  /\ UNCHANGED <<lined, came, stopped, accepting, atHand, served>>

LettingGo == SayStopped \/ PokeAccept \/ JoinAccepting
AcceptsOn == AcceptNext \/ LookStopped

ConcurrentNext ==
  \/ AcceptsOn \/ LettingGo \/ LetGoBegins
  \/ \E c \in Clients : ClientConnects(c) \/ ClientLeaves(c)

ConcurrentSpec == ConcurrentInit /\ [][ConcurrentNext]_concurrentVars

\* Threads go on; no client need ever come or leave.
ConcurrentFairness == WF_concurrentVars(AcceptsOn) /\ WF_concurrentVars(LettingGo)

-----------------------------------------------------------------------------

ConcurrentTypeOK ==
  /\ lined \in Seq(Clients \cup {Poke}) /\ Len(lined) <= MaxQueue
  /\ came \in SUBSET Clients /\ served \in SUBSET came
  /\ stopped = (letting \in {"poke", "join", "gone"})
  /\ accepting \in {"accept", "look", "ended"}
  /\ letting \in {"up", "stop", "poke", "join", "gone"}
  /\ atHand \in SUBSET (Clients \cup {Poke})
  /\ (accepting = "look") = (atHand # {})

\* Letting it go never waits for a client, and a client waits neither for the
\* others nor for one that stays: it is served, or the far end is let go
\* (concurrent.rs).
StopEndsAndAllAreServed ==
  /\ letting = "stop" ~> letting = "gone"
  /\ \A c \in Clients : c \in ToSet(lined) ~> c \in served \/ letting # "up"

=============================================================================
