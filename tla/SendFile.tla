------------------------------ MODULE SendFile ------------------------------
(***************************************************************************)
(* Sent files not yet in place (claim/unfinished.rs): a send of the file   *)
(* family writes beside its target under a name of its own, then renames   *)
(* it over the target, while other Locations of the node start and remove  *)
(* what the node's earlier sends left there.  The node dies and starts     *)
(* again; another node sends into the same place.                          *)
(*                                                                         *)
(* A name is who wrote it and the process, by its start, that did: no two  *)
(* sends of a process share one, for the count in it.                      *)
(***************************************************************************)
EXTENDS Naturals, FiniteSets

CONSTANTS
  Sends,        \* the node's threads that send, one send at a time each
  Starts,       \* the Locations that start
  MaxDeaths,    \* bound: deaths of the node
  MaxRefusals   \* bound: calls the far end refuses

ASSUME SendFileAssumption ==
  /\ IsFiniteSet(Sends) /\ IsFiniteSet(Starts)
  /\ MaxDeaths \in Nat /\ MaxRefusals \in Nat

VARIABLES
  life,       \* the process, counted
  lies,       \* the unfinished files that lie there
  inFlight,   \* IN_FLIGHT: the names held
  send,       \* where each send stands
  start,      \* where each start stands
  listed,     \* the names each start listed, then those it is to remove
  refusals    \* count, for the bound

sendFileVars == <<life, lies, inFlight, send, start, listed, refusals>>

\* A name: by this node or another, from a send of one of its processes.
UnfinishedNames == [mine : BOOLEAN, of : Sends, life : 0..MaxDeaths]
NameOf(s) == [mine |-> TRUE, of |-> s, life |-> life]

\* What another node's send is writing, all along.
Others == {[mine |-> FALSE, of |-> s, life |-> 0] : s \in Sends}

SendFileInit ==
  /\ life = 0 /\ lies = Others /\ inFlight = {}
  /\ send = [s \in Sends |-> "idle"]
  /\ start = [l \in Starts |-> "idle"] /\ listed = [l \in Starts |-> {}]
  /\ refusals = 0

Refused == refusals < MaxRefusals /\ refusals' = refusals + 1

SendGoes(s, from, to) == send[s] = from /\ send' = [send EXCEPT ![s] = to]
StartGoes(l, from, to) == start[l] = from /\ start' = [start EXCEPT ![l] = to]

-----------------------------------------------------------------------------
(* One send.  A name is new each time: a thread sends once in a life.      *)

\* MUTANT of HoldsName: named, and not held.
HoldsNameNot(s) == UNCHANGED inFlight

\* In flight from before its file is there.
HoldsName(s) == inFlight' = inFlight \cup {NameOf(s)}

Sending(s) ==
  /\ SendGoes(s, "idle", "named")
  /\ HoldsName(s)
  /\ UNCHANGED <<life, lies, start, listed, refusals>>

\* The file is created and written, wholly or until a call fails.
WriteFile(s) ==
  /\ \/ SendGoes(s, "named", "writing")
     \/ SendGoes(s, "named", "failed")
  /\ lies' = lies \cup {NameOf(s)}
  /\ UNCHANGED <<life, inFlight, start, listed, refusals>>

\* Renamed over the target, or removed where a call failed before.
PutInPlace(s) ==
  /\ \/ SendGoes(s, "writing", "put")
     \/ SendGoes(s, "failed", "put")
  /\ lies' = lies \ {NameOf(s)}
  /\ UNCHANGED <<life, inFlight, start, listed, refusals>>

\* Neither could be done: the file stays.
LeaveFile(s) ==
  /\ \/ SendGoes(s, "writing", "put")
     \/ SendGoes(s, "failed", "put")
  /\ Refused
  /\ UNCHANGED <<life, lies, inFlight, start, listed>>

\* The name is dropped.
DropName(s) ==
  /\ SendGoes(s, "put", "over")
  /\ inFlight' = inFlight \ {NameOf(s)}
  /\ UNCHANGED <<life, lies, start, listed, refusals>>

-----------------------------------------------------------------------------
(* One start: what the node's sends left is removed.                       *)

\* The site is listed.
ListUnfinished(l) ==
  /\ StartGoes(l, "idle", "listed")
  /\ listed' = [listed EXCEPT ![l] = lies]
  /\ UNCHANGED <<life, lies, inFlight, send, refusals>>

\* MUTANT of SentByMe: by this process, not by this node.
SentByThisLife(name) == name.mine /\ name.life = life

\* The name carries this node.
SentByMe(name) == name.mine

\* Of the names listed, its own, and no send's that is writing.
Retain(l) ==
  /\ StartGoes(l, "listed", "remove")
  /\ listed' = [listed EXCEPT ![l] = {name \in @ : SentByMe(name)} \ inFlight]
  /\ UNCHANGED <<life, lies, inFlight, send, refusals>>

\* One more is deleted; one already gone is deleted.
RemoveLeft(l) ==
  /\ start[l] = "remove"
  /\ \E name \in listed[l] :
       /\ lies' = lies \ {name}
       /\ listed' = [listed EXCEPT ![l] = @ \ {name}]
  /\ UNCHANGED <<life, inFlight, send, start, refusals>>

\* A removal refused ends this recovery: its Location goes on to list and claim,
\* not recovered, and recovers again at its next take.
RemovalRefused(l) ==
  /\ StartGoes(l, "remove", "idle") /\ listed[l] # {}
  /\ listed' = [listed EXCEPT ![l] = {}]
  /\ Refused
  /\ UNCHANGED <<life, lies, inFlight, send>>

Recovered(l) ==
  /\ StartGoes(l, "remove", "recovered") /\ listed[l] = {}
  /\ UNCHANGED <<life, lies, inFlight, send, listed, refusals>>

-----------------------------------------------------------------------------

\* The node dies with its sends, starts and set, and runs again.
NodeDies ==
  /\ life < MaxDeaths
  /\ life' = life + 1
  /\ inFlight' = {}
  /\ send' = [s \in Sends |-> "idle"]
  /\ start' = [l \in Starts |-> "idle"] /\ listed' = [l \in Starts |-> {}]
  /\ UNCHANGED <<lies, refusals>>

OneSend(s) == Sending(s) \/ WriteFile(s) \/ PutInPlace(s) \/ LeaveFile(s) \/ DropName(s)
OneStart(l) ==
  ListUnfinished(l) \/ Retain(l) \/ RemoveLeft(l) \/ RemovalRefused(l) \/ Recovered(l)

SendFileNext ==
  \/ \E s \in Sends : OneSend(s)
  \/ \E l \in Starts : OneStart(l)
  \/ NodeDies

SendFileSpec == SendFileInit /\ [][SendFileNext]_sendFileVars

-----------------------------------------------------------------------------

SendFileTypeOK ==
  /\ life \in 0..MaxDeaths
  /\ lies \in SUBSET UnfinishedNames /\ inFlight \in SUBSET UnfinishedNames
  /\ send \in [Sends -> {"idle", "named", "writing", "failed", "put", "over"}]
  /\ start \in [Starts -> {"idle", "listed", "remove", "recovered"}]
  /\ listed \in [Starts -> SUBSET UnfinishedNames]
  /\ refusals \in 0..MaxRefusals

\* A start removes no file a send is still writing, whatever was listed while
\* it was, and never another node's (unfinished.rs: "A send in flight is never
\* removed", "It removes no other node's file").
WritingIsNotRemoved ==
  /\ \A s \in Sends : send[s] \in {"writing", "failed"} => NameOf(s) \in lies
  /\ Others \subseteq lies

\* A Location that has recovered leaves nothing there of what the node's sends
\* left before it died, in whichever life it was (unfinished.rs).
NothingLeftOver ==
  \A l \in Starts : start[l] = "recovered" =>
    \A name \in lies : name.mine => name.life = life

=============================================================================
