------------------------------ MODULE Listener ------------------------------
(***************************************************************************)
(* A listener a Receive Location binds once and keeps (kept.rs), and the   *)
(* one bounded accept made on it (socket.rs): receives race to bind it,    *)
(* then each accepts one connection within its wait, or as long as it      *)
(* takes.  Peers connect and may vanish before they are accepted.  A       *)
(* bounded accept puts the listener into non-blocking mode, which is the   *)
(* listener's, not the receive's, and hands it back blocking.  The         *)
(* connection a guarded Location accepts is answered in TLS under the      *)
(* guard's own wait first (guard.rs).                                      *)
(***************************************************************************)
EXTENDS Naturals, FiniteSets

CONSTANTS
  Receives,    \* the receives made on the one transport
  AtOnce,      \* how many of them accept on it at once
  MaxBacklog,  \* bound: peers waiting to be accepted
  MaxFaults    \* bound: calls to the system that fail

ASSUME ListenerAssumption ==
  /\ IsFiniteSet(Receives) /\ AtOnce \in Nat \ {0}
  /\ MaxBacklog \in Nat /\ MaxFaults \in Nat

VARIABLES
  binds,     \* how often a listener was bound
  bound,     \* Kept::bound is there
  binding,   \* Kept::binding: who holds it, at most one
  blocking,  \* the listener's mode
  unset,     \* history: the last to hand it back could not set its mode
  backlog,   \* peers connected and not accepted
  recv,      \* where each receive stands
  bounded,   \* whether its wait is bounded
  expired,   \* whether its deadline has passed
  wait,      \* the wait on the reads of the connection it accepted
  faults     \* count, for the bound

listenerVars == <<binds, bound, binding, blocking, unset, backlog, recv, bounded, expired, wait,
                  faults>>

ListenerInit ==
  /\ binds = 0 /\ bound = FALSE /\ binding = {}
  /\ blocking = TRUE /\ unset = FALSE /\ backlog = 0
  /\ recv = [r \in Receives |-> "idle"]
  /\ bounded \in [Receives -> BOOLEAN]
  /\ expired = [r \in Receives |-> FALSE]
  /\ wait = [r \in Receives |-> "none"]
  /\ faults = 0

Fault == faults < MaxFaults /\ faults' = faults + 1
Recv(r, from, to) == recv[r] = from /\ recv' = [recv EXCEPT ![r] = to]

keptOf   == <<binds, bound, binding>>
modeOf   == <<blocking, unset>>
acceptOf == <<blocking, unset, backlog, bounded, expired, wait>>

-----------------------------------------------------------------------------
(* The peers.                                                              *)

PeerConnects ==
  /\ bound /\ backlog < MaxBacklog
  /\ backlog' = backlog + 1
  /\ UNCHANGED <<keptOf, modeOf, recv, bounded, expired, wait, faults>>

PeerVanishes ==
  /\ backlog > 0
  /\ backlog' = backlog - 1
  /\ UNCHANGED <<keptOf, modeOf, recv, bounded, expired, wait, faults>>

-----------------------------------------------------------------------------
(* Kept::bound.                                                            *)

\* Bound already, or the binding's turn is asked for.
FindBound(r) ==
  /\ recv[r] = "idle"
  /\ recv' = [recv EXCEPT ![r] = IF bound THEN "bound" ELSE "lock"]
  /\ expired' = [expired EXCEPT ![r] = FALSE]
  /\ wait' = [wait EXCEPT ![r] = "none"]
  /\ UNCHANGED <<keptOf, modeOf, backlog, bounded, faults>>

\* Nobody binds.
Unheld == binding = {}

LockBinding(r) ==
  /\ Recv(r, "lock", "again")
  /\ Unheld /\ binding' = binding \cup {r}
  /\ UNCHANGED <<binds, bound, acceptOf, faults>>

\* MUTANT of FoundBound: not looked for once more.
FoundNothing == FALSE

\* The one who held the turn before may have bound it.
FoundBound == bound

\* Looked for once more: the turn is let go, or something is to be bound.
LookAgain(r) ==
  /\ recv[r] = "again"
  /\ recv' = [recv EXCEPT ![r] = IF FoundBound THEN "bound" ELSE "bind"]
  /\ binding' = IF FoundBound THEN binding \ {r} ELSE binding
  /\ UNCHANGED <<binds, bound, acceptOf, faults>>

\* A listener is bound, not kept yet.
BindNow(r) ==
  /\ Recv(r, "bind", "keep")
  /\ binds' = binds + 1
  /\ UNCHANGED <<bound, binding, acceptOf, faults>>

\* It could not be: the next receive tries again.
BindFails(r) ==
  /\ Recv(r, "bind", "idle") /\ Fault
  /\ binding' = binding \ {r}
  /\ UNCHANGED <<binds, bound, acceptOf>>

\* Kept, and the turn let go.
KeepBound(r) ==
  /\ Recv(r, "keep", "bound")
  /\ bound' = TRUE /\ binding' = binding \ {r}
  /\ UNCHANGED <<binds, acceptOf, faults>>

-----------------------------------------------------------------------------
(* accept_within.                                                          *)

Accepting == {r \in Receives : recv[r] \in {"accept", "try", "ready", "back"}}

\* MUTANT of Unblocks: the listener is left blocking.
UnblocksNot == UNCHANGED blocking

Unblocks == blocking' = FALSE

\* A bounded accept goes by readiness; an unbounded one just accepts.
BeginAccept(r) ==
  /\ recv[r] = "bound" /\ Cardinality(Accepting) < AtOnce
  /\ \/ /\ bounded[r] /\ Unblocks
        /\ recv' = [recv EXCEPT ![r] = "try"]
        /\ UNCHANGED faults
     \/ /\ bounded[r] /\ Fault
        /\ recv' = [recv EXCEPT ![r] = "idle"]
        /\ UNCHANGED blocking
     \/ /\ ~bounded[r]
        /\ recv' = [recv EXCEPT ![r] = "accept"]
        /\ UNCHANGED <<blocking, faults>>
  /\ UNCHANGED <<keptOf, unset, backlog, bounded, expired, wait>>

\* The deadline passes.
Expire(r) ==
  /\ bounded[r] /\ ~expired[r] /\ recv[r] \in {"try", "ready"}
  /\ expired' = [expired EXCEPT ![r] = TRUE]
  /\ UNCHANGED <<keptOf, modeOf, backlog, recv, bounded, wait, faults>>

\* One accept: whoever is there, or nobody, which a blocking listener waits out.
TryAccept(r) ==
  /\ recv[r] = "try"
  /\ \/ /\ backlog > 0
        /\ backlog' = backlog - 1
        /\ wait' = [wait EXCEPT ![r] = "accepted"]
        /\ recv' = [recv EXCEPT ![r] = "back"]
        /\ UNCHANGED faults
     \/ /\ backlog = 0 /\ ~blocking
        /\ recv' = [recv EXCEPT ![r] = IF expired[r] THEN "back" ELSE "ready"]
        /\ UNCHANGED <<backlog, wait, faults>>
     \/ /\ Fault
        /\ recv' = [recv EXCEPT ![r] = "back"]
        /\ UNCHANGED <<backlog, wait>>
  /\ UNCHANGED <<keptOf, modeOf, bounded, expired>>

\* Waited until a peer is there, what is left has passed, or the wait was
\* interrupted; a wait that failed ends the accept.
WaitReady(r) ==
  /\ recv[r] = "ready"
  /\ \/ /\ backlog > 0 \/ expired[r]
        /\ recv' = [recv EXCEPT ![r] = "try"]
        /\ UNCHANGED faults
     \/ /\ Fault
        /\ recv' \in {[recv EXCEPT ![r] = "back"], [recv EXCEPT ![r] = "try"]}
  /\ UNCHANGED <<keptOf, acceptOf>>

\* MUTANT of Reblocks: only where a connection was accepted.
ReblocksAccepted(r) == blocking' = IF wait[r] = "accepted" THEN TRUE ELSE blocking

Reblocks(r) == blocking' = TRUE

\* Handed back blocking, or the system refused that and what was accepted is
\* let go; then what was accepted is settled with the Location's wait, or let
\* go where that fails.
HandBack(r) ==
  /\ recv[r] = "back"
  /\ \/ /\ Reblocks(r) /\ unset' = FALSE
        /\ \/ /\ wait[r] = "accepted" /\ wait' = [wait EXCEPT ![r] = "location"]
              /\ recv' = [recv EXCEPT ![r] = "greet"]
              /\ UNCHANGED faults
           \/ /\ wait[r] = "accepted" /\ Fault /\ wait' = [wait EXCEPT ![r] = "none"]
              /\ recv' = [recv EXCEPT ![r] = "idle"]
           \/ /\ wait[r] # "accepted"
              /\ recv' = [recv EXCEPT ![r] = "idle"]
              /\ UNCHANGED <<wait, faults>>
     \/ /\ Fault /\ UNCHANGED blocking /\ unset' = TRUE
        /\ wait' = [wait EXCEPT ![r] = "none"]
        /\ recv' = [recv EXCEPT ![r] = "idle"]
  /\ UNCHANGED <<keptOf, backlog, bounded, expired>>

\* The accept of a listening Location that waits as long as it runs; on a
\* listener left non-blocking it is told at once that nobody is there.
JustAccept(r) ==
  /\ recv[r] = "accept"
  /\ \/ /\ backlog > 0
        /\ backlog' = backlog - 1
        /\ wait' = [wait EXCEPT ![r] = "location"]
        /\ recv' = [recv EXCEPT ![r] = "greet"]
        /\ UNCHANGED faults
     \/ /\ backlog = 0 /\ ~blocking
        /\ recv' = [recv EXCEPT ![r] = "idle"]
        /\ UNCHANGED <<backlog, wait, faults>>
     \/ /\ Fault
        /\ recv' = [recv EXCEPT ![r] = "idle"]
        /\ backlog' \in {backlog} \cup (IF backlog > 0 THEN {backlog - 1} ELSE {})
        /\ UNCHANGED wait
  /\ UNCHANGED <<keptOf, modeOf, bounded, expired>>

-----------------------------------------------------------------------------
(* Guard::answer, and the content read.                                    *)

\* The connection is read as it is, or its handshake under the guard's wait.
Greet(r) ==
  /\ \/ /\ Recv(r, "greet", "content") /\ UNCHANGED wait
     \/ /\ Recv(r, "greet", "handshake") /\ wait' = [wait EXCEPT ![r] = "guard"]
  /\ UNCHANGED <<keptOf, modeOf, backlog, bounded, expired, faults>>

\* The wait the connection came with.
PutBack(r) == wait' = [wait EXCEPT ![r] = "location"]

\* The handshake is done and the Location's wait put back, or the client is
\* let go, for it alone.
Handshaken(r) ==
  /\ \/ /\ Recv(r, "handshake", "content") /\ PutBack(r)
     \/ /\ Recv(r, "handshake", "idle") /\ wait' = [wait EXCEPT ![r] = "none"]
  /\ UNCHANGED <<keptOf, modeOf, backlog, bounded, expired, faults>>

ReadContent(r) ==
  /\ Recv(r, "content", "idle")
  /\ UNCHANGED <<keptOf, acceptOf, faults>>

-----------------------------------------------------------------------------

Binds(r)     == LookAgain(r) \/ BindNow(r) \/ BindFails(r) \/ KeepBound(r)
KeptBound(r) == FindBound(r) \/ LockBinding(r) \/ Binds(r)
AcceptWithin(r) ==
  BeginAccept(r) \/ TryAccept(r) \/ WaitReady(r) \/ HandBack(r) \/ JustAccept(r)
Answered(r) == Greet(r) \/ Handshaken(r) \/ ReadContent(r)

ListenerNext ==
  \/ PeerConnects \/ PeerVanishes
  \/ \E r \in Receives : KeptBound(r) \/ AcceptWithin(r) \/ Expire(r) \/ Answered(r)

ListenerSpec == ListenerInit /\ [][ListenerNext]_listenerVars

\* Threads go on and time passes; no peer need ever come.
ListenerFairness ==
  \A r \in Receives :
    /\ WF_listenerVars(Binds(r) \/ AcceptWithin(r) \/ Answered(r))
    /\ SF_listenerVars(LockBinding(r))
    /\ WF_listenerVars(Expire(r))

-----------------------------------------------------------------------------

ListenerTypeOK ==
  /\ binds \in Nat /\ bound \in BOOLEAN /\ binding \in SUBSET Receives
  /\ Cardinality(binding) <= 1
  /\ blocking \in BOOLEAN /\ unset \in BOOLEAN /\ backlog \in 0..MaxBacklog
  /\ recv \in [Receives -> {"idle", "lock", "again", "bind", "keep", "bound",
                            "accept", "try", "ready",
                            "back", "greet", "handshake", "content"}]
  /\ bounded \in [Receives -> BOOLEAN] /\ expired \in [Receives -> BOOLEAN]
  /\ wait \in [Receives -> {"none", "accepted", "location", "guard"}]
  /\ faults \in 0..MaxFaults

\* However many receives race to bind, and whatever binds failed before, one
\* listener is bound: none listens where nobody looks (kept.rs: "bound once").
BoundOnce == binds <= 1 /\ (bound => binds = 1)

\* Whatever way an accept ended, nobody at one the listener is blocking, as it
\* was, unless the system itself refused the last who handed it back, and then
\* the next bounded accept mends it; and content is read under the Location's
\* own wait, guarded or not (socket.rs, guard.rs).
HandedBackAsItWas ==
  /\ Accepting = {} => blocking \/ unset
  /\ \A r \in Receives : recv[r] = "content" => wait[r] = "location"

\* A receive whose wait is bounded comes back though no peer ever connects, or
\* every one vanishes again (socket.rs).
BoundedReceiveReturns ==
  \A r \in Receives : recv[r] = "try" ~> recv[r] \in {"idle", "greet"}

=============================================================================
