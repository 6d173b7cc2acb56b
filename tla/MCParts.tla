------------------------------- MODULE MCParts -------------------------------
(***************************************************************************)
(* The smaller parts for TLC.  On the receiving side the log read in       *)
(* order, the group settled together, the store without a lock, the        *)
(* listener bound once, and the far end that serves many; on the sending   *)
(* side unfinished sent files, the kept datagram socket and the pinned     *)
(* keys; the bodies of a send, of an arrival and of mail; and rounds of    *)
(* both ends.  They share nothing, so each is explored alone, the others   *)
(* as they began.                                                          *)
(***************************************************************************)
EXTENDS Contiguous, Together, Store, Listener, Concurrent,
        SendFile, Sender, Pinned, Outgoing, Arrival, Stuffed, Loopback, TLC

CONSTANTS r1, r2, k1, k2, s1, s2, l1, l2, e1, e2, e3, v4, v6, f1, f2, a, b

VARIABLE under  \* the one that goes

receiveVars == <<contiguousVars, togetherVars, storeVars, listenerVars, concurrentVars>>
sendVars    == <<sendFileVars, senderVars, pinnedVars>>
bodyVars    == <<outgoingVars, arrivalVars, stuffedVars, loopbackVars>>
vars        == <<under, receiveVars, sendVars, bodyVars>>

\* What may begin in several ways does so where it is the one that goes.
Init ==
  /\ under \in {"log", "group", "store", "listener", "many", "file", "sender",
                "pinned", "outgoing", "arrival", "mail", "rounds"}
  /\ ContiguousInit /\ TogetherInit /\ StoreInit /\ ListenerInit /\ ConcurrentInit
  /\ under # "store" => table = (CHOOSE t \in Tables : TRUE) /\ accepts
  /\ under # "listener" => \A r \in Receives : bounded[r]
  /\ SendFileInit /\ PinnedInit /\ StuffedInit
  /\ SenderInit
  /\ under # "sender" => \A e \in Exchanges : family[e] = CHOOSE f \in Families : TRUE
  /\ OutgoingInit
  /\ under # "outgoing" => way = "held" /\ length = 0 /\ size = 0
  /\ ArrivalInit
  /\ under # "arrival" => chunks = <<>> /\ defers
  /\ LoopbackInit
  /\ under # "rounds" => \A r \in Rounds : kind[r] = "order"

LogAlone ==
  /\ under = "log"
  /\ UNCHANGED <<under, togetherVars, storeVars, listenerVars, concurrentVars,
                        sendVars, bodyVars>>
GroupAlone ==
  /\ under = "group"
  /\ UNCHANGED <<under, contiguousVars, storeVars, listenerVars, concurrentVars,
                        sendVars, bodyVars>>
StoreAlone ==
  /\ under = "store"
  /\ UNCHANGED <<under, contiguousVars, togetherVars, listenerVars, concurrentVars,
                        sendVars, bodyVars>>
ListenerAlone ==
  /\ under = "listener"
  /\ UNCHANGED <<under, contiguousVars, togetherVars, storeVars, concurrentVars,
                        sendVars, bodyVars>>
ManyAlone ==
  /\ under = "many"
  /\ UNCHANGED <<under, contiguousVars, togetherVars, storeVars, listenerVars,
                        sendVars, bodyVars>>
FileAlone ==
  /\ under = "file"
  /\ UNCHANGED <<under, senderVars, pinnedVars, receiveVars, bodyVars>>
SenderAlone ==
  /\ under = "sender"
  /\ UNCHANGED <<under, sendFileVars, pinnedVars, receiveVars, bodyVars>>
PinnedAlone ==
  /\ under = "pinned"
  /\ UNCHANGED <<under, sendFileVars, senderVars, receiveVars, bodyVars>>
OutgoingAlone ==
  /\ under = "outgoing"
  /\ UNCHANGED <<under, arrivalVars, stuffedVars, loopbackVars, receiveVars, sendVars>>
ArrivalAlone ==
  /\ under = "arrival"
  /\ UNCHANGED <<under, outgoingVars, stuffedVars, loopbackVars, receiveVars, sendVars>>
MailAlone ==
  /\ under = "mail"
  /\ UNCHANGED <<under, outgoingVars, arrivalVars, loopbackVars, receiveVars, sendVars>>
RoundsAlone ==
  /\ under = "rounds"
  /\ UNCHANGED <<under, outgoingVars, arrivalVars, stuffedVars, receiveVars, sendVars>>

Next ==
  \/ ContiguousNext /\ LogAlone
  \/ TogetherNext /\ GroupAlone
  \/ StoreNext /\ StoreAlone
  \/ ListenerNext /\ ListenerAlone
  \/ ConcurrentNext /\ ManyAlone
  \/ SendFileNext /\ FileAlone
  \/ SenderNext /\ SenderAlone
  \/ PinnedNext /\ PinnedAlone
  \/ OutgoingNext /\ OutgoingAlone
  \/ ArrivalNext /\ ArrivalAlone
  \/ StuffedNext /\ MailAlone
  \/ LoopbackNext /\ RoundsAlone

\* The fairness of each that promises something in the end.
Fairness ==
  /\ WF_contiguousVars(under = "log" /\ Reads)
  /\ \A r \in Log : WF_contiguousVars(under = "log" /\ Verdict(r))
  /\ TogetherFairness
  /\ StoreFairness
  /\ ListenerFairness
  /\ ConcurrentFairness
  /\ \A r \in Rounds :
       /\ WF_loopbackVars(under = "rounds" /\ NearEnd(r))
       /\ WF_loopbackVars(FarTakes(r) \/ FarForgets(r))
       /\ WF_loopbackVars((kind[r] = "datagram" \/ missed[r]) /\ FarTimesOut(r))

Spec == Init /\ [][Next]_vars

LiveSpec == Spec /\ Fairness

=============================================================================
