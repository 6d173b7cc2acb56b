------------------------------ MODULE Loopback ------------------------------
(***************************************************************************)
(* Rounds of a transport that stands at both ends of one exchange          *)
(* (loopback.rs), several driven at once.  A round stands its far end up   *)
(* under an address of its own (standing.rs, held.rs; a socket's is the    *)
(* system's: listening.rs, bound.rs), sends to it from a near end, and     *)
(* judges what both ends came to.  The far end takes on a thread of its    *)
(* own and is released by a poke where the near end failed, or the two     *)
(* exchange in order on one thread.                                        *)
(***************************************************************************)
EXTENDS Naturals, FiniteSets

CONSTANTS Rounds  \* the rounds driven at once

ASSUME LoopbackAssumption == IsFiniteSet(Rounds)

VARIABLES
  kind,      \* "order" on one thread, "stream", or "datagram"
  near,      \* where the round's own thread stands
  far,       \* its far end's: "none", "waits", "forget", "over"
  address,   \* where the far end listens, 0 before
  session,   \* NEXT_SESSION
  standing,  \* Standing::sessions, the addresses that stand
  mail,      \* what came to each address and is not taken: payloads, or a poke
  sent,      \* what the giving came to: "none", "ok", "failed"
  taken,     \* what the taking came to: "none", "failed", "panicked", or a payload
  missed,    \* whether a poke did not reach the far end
  judged     \* what the round came to

loopbackVars == <<kind, near, far, address, session, standing, mail, sent, taken, missed, judged>>

Addresses == 1..Cardinality(Rounds)

\* No round: the poke's empty connection.
Poked == "poke"

LoopbackInit ==
  /\ kind \in [Rounds -> {"order", "stream", "datagram"}]
  /\ near = [r \in Rounds |-> "idle"] /\ far = [r \in Rounds |-> "none"]
  /\ address = [r \in Rounds |-> 0] /\ session = 1
  /\ standing = {} /\ mail = [a \in Addresses |-> {}]
  /\ sent = [r \in Rounds |-> "none"] /\ taken = [r \in Rounds |-> "none"]
  /\ missed = [r \in Rounds |-> FALSE]
  /\ judged = [r \in Rounds |-> "none"]

NearGoes(r, from, to) == near[r] = from /\ near' = [near EXCEPT ![r] = to]

Numbers == session' = session + 1

\* A fresh address, numbered.
NumberSession(r) ==
  /\ NearGoes(r, "idle", "stand")
  /\ address' = [address EXCEPT ![r] = session]
  /\ Numbers
  /\ UNCHANGED <<kind, far, standing, mail, sent, taken, missed, judged>>

\* The session stands under it, and where the two ends do not exchange in
\* order the far end waits on its own thread.
StandSession(r) ==
  /\ NearGoes(r, "stand", "give")
  /\ standing' = standing \cup {address[r]}
  /\ far' = [far EXCEPT ![r] = IF kind[r] = "order" THEN "none" ELSE "waits"]
  /\ UNCHANGED <<kind, address, session, mail, sent, taken, missed, judged>>

\* MUTANT of AfterFailing: the far end is waited on all the same.
AfterFailingWaits(r) == IF kind[r] = "order" THEN "over" ELSE "join"

\* In order, the far end is let go untaken; a datagram's is left to its own
\* timeout; any other is released.
AfterFailing(r) ==
  IF kind[r] = "order" THEN "over" ELSE IF kind[r] = "datagram" THEN "join" ELSE "unblock"

AfterGiving(r) == IF kind[r] = "order" THEN "take" ELSE "join"

\* The near end sends: the payload comes to the far end, or fails before or
\* after it did, or a datagram is lost.
GiveOk(r) ==
  /\ near[r] = "give" /\ address[r] \in standing
  /\ near' = [near EXCEPT ![r] = AfterGiving(r)]
  /\ sent' = [sent EXCEPT ![r] = "ok"]
  /\ mail' \in {[mail EXCEPT ![address[r]] = @ \cup {r}]}
               \cup (IF kind[r] = "datagram" THEN {mail} ELSE {})
  /\ UNCHANGED <<kind, far, address, session, standing, taken, missed, judged>>

GiveFails(r) ==
  /\ near[r] = "give"
  /\ near' = [near EXCEPT ![r] = AfterFailing(r)]
  /\ sent' = [sent EXCEPT ![r] = "failed"]
  /\ mail' \in {mail} \cup (IF address[r] \in standing
                            THEN {[mail EXCEPT ![address[r]] = @ \cup {r}]} ELSE {})
  /\ judged' = [judged EXCEPT ![r] = IF kind[r] = "order" THEN "failed" ELSE @]
  /\ UNCHANGED <<kind, far, address, session, standing, taken, missed>>

\* A throwaway connect, which need not reach the far end.
Unblock(r) ==
  /\ NearGoes(r, "unblock", "join")
  /\ \/ /\ mail' = [mail EXCEPT ![address[r]] = @ \cup {Poked}]
        /\ UNCHANGED missed
     \/ /\ missed' = [missed EXCEPT ![r] = TRUE]
        /\ UNCHANGED mail
  /\ UNCHANGED <<kind, far, address, session, standing, sent, taken, judged>>

-----------------------------------------------------------------------------
(* The far end's thread.                                                   *)

FarGoes(r, to) == far' = [far EXCEPT ![r] = to]

\* It takes the one exchange that came: a poke is none.
FarTakes(r) ==
  /\ far[r] = "waits" /\ FarGoes(r, "forget")
  /\ \E m \in mail[address[r]] :
       /\ mail' = [mail EXCEPT ![address[r]] = @ \ {m}]
       /\ taken' = [taken EXCEPT ![r] = IF m = Poked THEN "failed" ELSE m]
  /\ UNCHANGED <<kind, near, address, session, standing, sent, missed, judged>>

\* Nothing came in its time.
FarTimesOut(r) ==
  /\ far[r] = "waits" /\ FarGoes(r, "forget")
  /\ taken' = [taken EXCEPT ![r] = "failed"]
  /\ UNCHANGED <<kind, near, address, session, standing, mail, sent, missed, judged>>

\* Its thread panics: a failed take.
FarPanics(r) ==
  /\ far[r] = "waits" /\ FarGoes(r, "over")
  /\ taken' = [taken EXCEPT ![r] = "panicked"]
  /\ UNCHANGED <<kind, near, address, session, standing, mail, sent, missed, judged>>

\* The session is forgotten, whatever the taking came to.
Forgets(r) == standing' = standing \ {address[r]}

FarForgets(r) ==
  /\ far[r] = "forget" /\ FarGoes(r, "over")
  /\ Forgets(r)
  /\ UNCHANGED <<kind, near, address, session, mail, sent, taken, missed, judged>>

-----------------------------------------------------------------------------
(* The judging.                                                            *)

\* Whether the arrival carries every name the technology says it does.
Identified == {"ok", "failed"}

\* The far end's thread is joined and both ends judged.
JoinFar(r) ==
  /\ NearGoes(r, "join", "over")
  /\ far[r] = "over"
  /\ \E identified \in Identified :
       judged' = [judged EXCEPT ![r] =
         IF sent[r] = "failed" \/ taken[r] \in {"failed", "panicked"}
         THEN "failed" ELSE identified]
  /\ UNCHANGED <<kind, far, address, session, standing, mail, sent, taken, missed>>

\* In order: what was left is taken or the taking fails, the session is
\* forgotten, and what was taken must be what was sent.
TakeInOrder(r) ==
  /\ NearGoes(r, "take", "over")
  /\ Forgets(r)
  /\ \E m \in mail[address[r]] \cup {"failed"}, identified \in Identified :
       /\ mail' = [mail EXCEPT ![address[r]] = @ \ {m}]
       /\ taken' = [taken EXCEPT ![r] = m]
       /\ judged' = [judged EXCEPT ![r] = IF m = r THEN identified ELSE "failed"]
  /\ UNCHANGED <<kind, far, address, session, sent, missed>>

NearEnd(r) ==
  \/ NumberSession(r) \/ StandSession(r) \/ GiveOk(r) \/ GiveFails(r)
  \/ Unblock(r) \/ JoinFar(r) \/ TakeInOrder(r)
FarEnd(r) == FarTakes(r) \/ FarTimesOut(r) \/ FarPanics(r) \/ FarForgets(r)

LoopbackNext == \E r \in Rounds : NearEnd(r) \/ FarEnd(r)

LoopbackSpec == LoopbackInit /\ [][LoopbackNext]_loopbackVars

\* Threads go on.  A far end's timeout is counted on only where nothing else
\* can release it: no poke is made to a datagram's, and one may miss.
LoopbackFairness ==
  \A r \in Rounds :
    /\ WF_loopbackVars(NearEnd(r))
    /\ WF_loopbackVars(FarTakes(r) \/ FarForgets(r))
    /\ WF_loopbackVars((kind[r] = "datagram" \/ missed[r]) /\ FarTimesOut(r))

-----------------------------------------------------------------------------

LoopbackTypeOK ==
  /\ kind \in [Rounds -> {"order", "stream", "datagram"}]
  /\ near \in [Rounds -> {"idle", "stand", "give", "take", "unblock", "join", "over"}]
  /\ far \in [Rounds -> {"none", "waits", "forget", "over"}]
  /\ address \in [Rounds -> 0..Cardinality(Rounds)] /\ session \in Nat
  /\ standing \in SUBSET Addresses
  /\ mail \in [Addresses -> SUBSET (Rounds \cup {Poked})]
  /\ sent \in [Rounds -> {"none", "ok", "failed"}]
  /\ taken \in [Rounds -> Rounds \cup {"none", "failed", "panicked"}]
  /\ missed \in [Rounds -> BOOLEAN] /\ judged \in [Rounds -> {"none", "ok", "failed"}]

\* Whatever fails, at either end, in whatever order, the round is judged rather
\* than waited on; and of rounds driven at once none reads another's: one that
\* is well took what it sent itself (loopback.rs, standing.rs).
RoundIsJudged ==
  \A r \in Rounds :
    /\ near[r] = "give" ~> judged[r] # "none"
    /\ [](judged[r] = "ok" => sent[r] = "ok" /\ taken[r] = r)

=============================================================================
