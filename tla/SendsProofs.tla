---------------------------- MODULE SendsProofs ----------------------------
(***************************************************************************)
(* What is proved of the sending side's smaller parts, each for every      *)
(* value of its constants: unfinished sent files, the kept datagram        *)
(* socket, and the pinned keys.                                            *)
(***************************************************************************)
EXTENDS SendFile, Sender, Pinned, TLAPS, FiniteSetTheorems, SequenceTheorems

-----------------------------------------------------------------------------
(* Unfinished sent files: no start removes what a send is writing, or what *)
(* another node's is, and one that recovered left nothing over.            *)

\* A send holds its name while it is at it; no other is held.
HeldInFlight ==
  /\ \A s \in Sends : send[s] \in {"named", "writing", "failed", "put"} => NameOf(s) \in inFlight
  /\ \A name \in inFlight : name.life = life

\* A name is nowhere before its send writes it: no file, and on no list.
NotWritten ==
  \A s \in Sends : send[s] \in {"idle", "named"} =>
    /\ NameOf(s) \notin lies
    /\ \A l \in Starts : NameOf(s) \notin listed[l]

\* What is to be removed is the node's own, of no send that may still write it.
Removable ==
  \A l \in Starts : start[l] = "remove" =>
    /\ \A name \in listed[l] : name.mine
    /\ \A s \in Sends : NameOf(s) \in listed[l] => send[s] \in {"put", "over"}

\* What lies there is of this life or an earlier one, and the earlier ones' is
\* all on the list of every start under way.
LeftListed ==
  \A name \in lies : name.mine =>
    /\ name.life <= life
    /\ name.life < life => \A l \in Starts : start[l] \in {"listed", "remove"} => name \in listed[l]

SendFileInv ==
  /\ SendFileTypeOK
  /\ HeldInFlight /\ NotWritten /\ Removable /\ LeftListed
  /\ WritingIsNotRemoved /\ NothingLeftOver

LEMMA NameIs ==
  ASSUME SendFileTypeOK, NEW s \in Sends
  PROVE  /\ NameOf(s) \in UnfinishedNames
         /\ NameOf(s).mine /\ NameOf(s).life = life /\ NameOf(s).of = s
         /\ NameOf(s) \notin Others
         /\ life \in Nat
<1>1. life \in 0..MaxDeaths
  BY DEF SendFileTypeOK
<1>2. NameOf(s) = [mine |-> TRUE, of |-> s, life |-> life]
  BY DEF NameOf
<1>3. NameOf(s).mine /\ NameOf(s).life = life /\ NameOf(s).of = s /\ life \in Nat
  BY <1>1, <1>2, SendFileAssumption
<1>4. NameOf(s) \in UnfinishedNames
  BY <1>1, <1>2 DEF UnfinishedNames
<1>5. NameOf(s) \notin Others
  BY <1>3 DEF Others
<1>6. QED BY <1>3, <1>4, <1>5

LEMMA NamesApart ==
  ASSUME SendFileTypeOK, NEW s \in Sends, NEW t \in Sends, s # t PROVE NameOf(s) # NameOf(t)
BY NameIs

LEMMA SameLife == ASSUME life' = life, NEW s \in Sends PROVE NameOf(s)' = NameOf(s)
BY DEF NameOf

LEMMA SendFileStarts == SendFileInit => SendFileInv
<1> SUFFICES ASSUME SendFileInit PROVE SendFileInv
  OBVIOUS
<1>1. life = 0 /\ lies = Others /\ inFlight = {}
  BY DEF SendFileInit
<1>2. /\ \A s \in Sends : send[s] = "idle"
      /\ \A l \in Starts : start[l] = "idle" /\ listed[l] = {}
  BY DEF SendFileInit
<1>3. ASSUME NEW name \in Others PROVE name \in UnfinishedNames /\ ~name.mine
  <2>1. PICK s \in Sends : name = [mine |-> FALSE, of |-> s, life |-> 0]
    BY DEF Others
  <2>2. 0 \in 0..MaxDeaths
    BY SendFileAssumption
  <2>3. QED BY <2>1, <2>2 DEF UnfinishedNames
<1>4. SendFileTypeOK
  <2>1. lies \in SUBSET UnfinishedNames /\ life \in 0..MaxDeaths /\ refusals \in 0..MaxRefusals
    BY <1>1, <1>3, SendFileAssumption DEF SendFileInit
  <2>2. QED BY <1>1, <2>1 DEF SendFileInit, SendFileTypeOK
<1>5. \A s \in Sends : NameOf(s) \notin lies
  BY <1>1, <1>4, NameIs
<1>6. HeldInFlight /\ NotWritten
  BY <1>1, <1>2, <1>5 DEF HeldInFlight, NotWritten
<1>7. Removable /\ LeftListed
  BY <1>1, <1>2, <1>3 DEF Removable, LeftListed
<1>8. WritingIsNotRemoved /\ NothingLeftOver
  BY <1>1, <1>2 DEF WritingIsNotRemoved, NothingLeftOver
<1>9. QED BY <1>4, <1>6, <1>7, <1>8 DEF SendFileInv

LEMMA SendingKeeps == ASSUME SendFileInv, NEW s \in Sends, Sending(s) PROVE SendFileInv'
<1>1. /\ send[s] = "idle" /\ send' = [send EXCEPT ![s] = "named"]
      /\ inFlight' = inFlight \cup {NameOf(s)}
      /\ UNCHANGED <<life, lies, start, listed, refusals>>
  BY DEF Sending, SendGoes, HoldsName
<1> USE SameLife, NameIs
<1>2. SendFileTypeOK'
  BY <1>1 DEF SendFileInv, SendFileTypeOK
<1>3. \A t \in Sends : send'[t] = IF t = s THEN "named" ELSE send[t]
  BY <1>1 DEF SendFileInv, SendFileTypeOK
<1>4. HeldInFlight'
  BY <1>1, <1>3 DEF SendFileInv, HeldInFlight
<1>5. NotWritten'
  BY <1>1, <1>3 DEF SendFileInv, NotWritten
<1>6. Removable'
  BY <1>1, <1>3 DEF SendFileInv, Removable, NotWritten
<1>7. LeftListed'
  BY <1>1 DEF SendFileInv, LeftListed
<1>8. WritingIsNotRemoved' /\ NothingLeftOver'
  BY <1>1, <1>3 DEF SendFileInv, WritingIsNotRemoved, NothingLeftOver, Others
<1>9. QED BY <1>2, <1>4, <1>5, <1>6, <1>7, <1>8 DEF SendFileInv

LEMMA WriteFileKeeps == ASSUME SendFileInv, NEW s \in Sends, WriteFile(s) PROVE SendFileInv'
<1>1. /\ send[s] = "named"
      /\ lies' = lies \cup {NameOf(s)}
      /\ UNCHANGED <<life, inFlight, start, listed, refusals>>
  BY DEF WriteFile, SendGoes
<1>2. PICK to \in {"writing", "failed"} : send' = [send EXCEPT ![s] = to]
  BY DEF WriteFile, SendGoes
<1> USE SameLife, NameIs
<1>3. SendFileTypeOK'
  BY <1>1, <1>2 DEF SendFileInv, SendFileTypeOK
<1>4. \A t \in Sends : send'[t] = IF t = s THEN to ELSE send[t]
  BY <1>2 DEF SendFileInv, SendFileTypeOK
<1>5. HeldInFlight'
  BY <1>1, <1>4 DEF SendFileInv, HeldInFlight
<1>6. NotWritten'
  BY <1>1, <1>4, NamesApart DEF SendFileInv, NotWritten
<1>7. Removable'
  BY <1>1, <1>4 DEF SendFileInv, Removable, NotWritten
<1>8. LeftListed'
  BY <1>1 DEF SendFileInv, LeftListed
<1>9. WritingIsNotRemoved' /\ NothingLeftOver'
  BY <1>1, <1>4 DEF SendFileInv, WritingIsNotRemoved, NothingLeftOver, Others
<1>10. QED BY <1>3, <1>5, <1>6, <1>7, <1>8, <1>9 DEF SendFileInv

\* The file put in place or left: no other's lies elsewhere for it.
LEMMA PutKeeps == ASSUME SendFileInv, NEW s \in Sends, PutInPlace(s) \/ LeaveFile(s) PROVE SendFileInv'
<1>1. /\ send[s] \in {"writing", "failed"} /\ send' = [send EXCEPT ![s] = "put"]
      /\ lies' \in {lies, lies \ {NameOf(s)}}
      /\ UNCHANGED <<life, inFlight, start, listed>>
  BY DEF PutInPlace, LeaveFile, SendGoes
<1> USE SameLife, NameIs
<1>2. refusals' \in 0..MaxRefusals
  BY SendFileAssumption DEF PutInPlace, LeaveFile, Refused, SendFileInv, SendFileTypeOK
<1>3. SendFileTypeOK'
  BY <1>1, <1>2 DEF SendFileInv, SendFileTypeOK
<1>4. \A t \in Sends : send'[t] = IF t = s THEN "put" ELSE send[t]
  BY <1>1 DEF SendFileInv, SendFileTypeOK
<1>5. HeldInFlight'
  BY <1>1, <1>4 DEF SendFileInv, HeldInFlight
<1>6. NotWritten'
  BY <1>1, <1>4 DEF SendFileInv, NotWritten
<1>7. Removable'
  BY <1>1, <1>4 DEF SendFileInv, Removable
<1>8. LeftListed'
  BY <1>1 DEF SendFileInv, LeftListed
<1>9. \A t \in Sends : send'[t] \in {"writing", "failed"} => NameOf(t)' \in lies'
  BY <1>1, <1>4, NamesApart DEF SendFileInv, WritingIsNotRemoved
<1>10. Others' \subseteq lies'
  BY <1>1 DEF SendFileInv, WritingIsNotRemoved, Others
<1>11. NothingLeftOver'
  BY <1>1 DEF SendFileInv, NothingLeftOver
<1>12. QED BY <1>3, <1>5, <1>6, <1>7, <1>8, <1>9, <1>10, <1>11 DEF SendFileInv, WritingIsNotRemoved

LEMMA DropNameKeeps == ASSUME SendFileInv, NEW s \in Sends, DropName(s) PROVE SendFileInv'
<1>1. /\ send[s] = "put" /\ send' = [send EXCEPT ![s] = "over"]
      /\ inFlight' = inFlight \ {NameOf(s)}
      /\ UNCHANGED <<life, lies, start, listed, refusals>>
  BY DEF DropName, SendGoes
<1> USE SameLife, NameIs
<1>2. SendFileTypeOK'
  BY <1>1 DEF SendFileInv, SendFileTypeOK
<1>3. \A t \in Sends : send'[t] = IF t = s THEN "over" ELSE send[t]
  BY <1>1 DEF SendFileInv, SendFileTypeOK
<1>4. HeldInFlight'
  BY <1>1, <1>3, NamesApart DEF SendFileInv, HeldInFlight
<1>5. NotWritten' /\ Removable'
  BY <1>1, <1>3 DEF SendFileInv, NotWritten, Removable
<1>6. LeftListed'
  BY <1>1 DEF SendFileInv, LeftListed
<1>7. WritingIsNotRemoved' /\ NothingLeftOver'
  BY <1>1, <1>3 DEF SendFileInv, WritingIsNotRemoved, NothingLeftOver, Others
<1>8. QED BY <1>2, <1>4, <1>5, <1>6, <1>7 DEF SendFileInv

LEMMA ListUnfinishedKeeps == ASSUME SendFileInv, NEW l \in Starts, ListUnfinished(l) PROVE SendFileInv'
<1>1. /\ start[l] = "idle" /\ start' = [start EXCEPT ![l] = "listed"]
      /\ listed' = [listed EXCEPT ![l] = lies]
      /\ UNCHANGED <<life, lies, inFlight, send, refusals>>
  BY DEF ListUnfinished, StartGoes
<1> USE SameLife
<1>2. SendFileTypeOK'
  BY <1>1 DEF SendFileInv, SendFileTypeOK
<1>3. \A m \in Starts : /\ start'[m] = IF m = l THEN "listed" ELSE start[m]
                        /\ listed'[m] = IF m = l THEN lies ELSE listed[m]
  BY <1>1 DEF SendFileInv, SendFileTypeOK
<1>4. HeldInFlight'
  BY <1>1 DEF SendFileInv, HeldInFlight
<1>5. NotWritten' /\ Removable'
  BY <1>1, <1>3 DEF SendFileInv, NotWritten, Removable
<1>6. LeftListed'
  BY <1>1, <1>3 DEF SendFileInv, LeftListed
<1>7. WritingIsNotRemoved' /\ NothingLeftOver'
  BY <1>1, <1>3 DEF SendFileInv, WritingIsNotRemoved, NothingLeftOver, Others
<1>8. QED BY <1>2, <1>4, <1>5, <1>6, <1>7 DEF SendFileInv

\* A name kept on the list is in flight no more: its send is over.
LEMMA RetainKeeps == ASSUME SendFileInv, NEW l \in Starts, Retain(l) PROVE SendFileInv'
<1> DEFINE kept == {name \in listed[l] : name.mine} \ inFlight
<1>1. /\ start[l] = "listed" /\ start' = [start EXCEPT ![l] = "remove"]
      /\ listed' = [listed EXCEPT ![l] = kept]
      /\ UNCHANGED <<life, lies, inFlight, send, refusals>>
  BY DEF Retain, StartGoes, SentByMe
<1> USE SameLife
<1>2. SendFileTypeOK'
  BY <1>1 DEF SendFileInv, SendFileTypeOK
<1>3. \A m \in Starts : /\ start'[m] = IF m = l THEN "remove" ELSE start[m]
                        /\ listed'[m] = IF m = l THEN kept ELSE listed[m]
  BY <1>1 DEF SendFileInv, SendFileTypeOK
<1>4. HeldInFlight'
  BY <1>1 DEF SendFileInv, HeldInFlight
<1>5. NotWritten'
  BY <1>1, <1>3 DEF SendFileInv, NotWritten
<1>6. Removable'
  <2>1. ASSUME NEW s \in Sends, NameOf(s) \in kept PROVE send[s] = "over"
    BY <2>1 DEF SendFileInv, HeldInFlight, NotWritten, SendFileTypeOK
  <2>2. ASSUME NEW m \in Starts, start'[m] = "remove"
        PROVE  /\ \A name \in listed'[m] : name.mine
               /\ \A s \in Sends : NameOf(s)' \in listed'[m] => send'[s] \in {"put", "over"}
    <3>1. CASE m = l
      <4>1. listed'[m] = kept /\ \A name \in kept : name.mine
        BY <1>3, <3>1
      <4>2. \A s \in Sends : NameOf(s)' = NameOf(s) /\ send'[s] = send[s]
        BY <1>1
      <4>3. QED BY <2>1, <4>1, <4>2
    <3>2. CASE m # l
      BY <1>1, <1>3, <2>2, <3>2 DEF SendFileInv, Removable
    <3>3. QED BY <3>1, <3>2
  <2>3. QED BY <2>2 DEF Removable
<1>7. LeftListed'
  <2>1. ASSUME NEW name \in lies, name.mine, name.life < life PROVE name \in kept
    <3>1. name \in listed[l] /\ life \in Nat
      BY <1>1, <2>1, SendFileAssumption DEF SendFileInv, LeftListed, SendFileTypeOK
    <3>2. name \notin inFlight
      BY <2>1, <3>1 DEF SendFileInv, HeldInFlight
    <3>3. QED BY <2>1, <3>1, <3>2
  <2>2. QED BY <1>1, <1>3, <2>1 DEF SendFileInv, LeftListed
<1>8. WritingIsNotRemoved' /\ NothingLeftOver'
  BY <1>1, <1>3 DEF SendFileInv, WritingIsNotRemoved, NothingLeftOver, Others
<1>9. QED BY <1>2, <1>4, <1>5, <1>6, <1>7, <1>8 DEF SendFileInv

LEMMA RemoveLeftKeeps == ASSUME SendFileInv, NEW l \in Starts, RemoveLeft(l) PROVE SendFileInv'
<1>1. PICK name \in listed[l] :
        /\ lies' = lies \ {name} /\ listed' = [listed EXCEPT ![l] = @ \ {name}]
  BY DEF RemoveLeft
<1>2. start[l] = "remove" /\ UNCHANGED <<life, inFlight, send, start, refusals>>
  BY DEF RemoveLeft
<1> USE SameLife
<1>3. SendFileTypeOK'
  BY <1>1, <1>2 DEF SendFileInv, SendFileTypeOK
<1>4. \A m \in Starts : listed'[m] = IF m = l THEN listed[l] \ {name} ELSE listed[m]
  BY <1>1 DEF SendFileInv, SendFileTypeOK
<1>5. HeldInFlight'
  BY <1>2 DEF SendFileInv, HeldInFlight
<1>6. NotWritten' /\ Removable'
  BY <1>1, <1>2, <1>4 DEF SendFileInv, NotWritten, Removable
<1>7. LeftListed'
  BY <1>1, <1>2, <1>4 DEF SendFileInv, LeftListed
<1>8. \A s \in Sends : send[s] \in {"writing", "failed"} => NameOf(s) # name
  BY <1>2 DEF SendFileInv, Removable
<1>9. name.mine /\ name \notin Others
  BY <1>2 DEF SendFileInv, Removable, Others
<1>10. WritingIsNotRemoved' /\ NothingLeftOver'
  BY <1>1, <1>2, <1>8, <1>9 DEF SendFileInv, WritingIsNotRemoved, NothingLeftOver, Others
<1>11. QED BY <1>3, <1>5, <1>6, <1>7, <1>10 DEF SendFileInv

\* A recovery given up has nothing listed; it lists again.
LEMMA RemovalRefusedKeeps ==
  ASSUME SendFileInv, NEW l \in Starts, RemovalRefused(l) PROVE SendFileInv'
<1>1. /\ start[l] = "remove" /\ UNCHANGED <<life, lies, inFlight, send>>
      /\ start' = [start EXCEPT ![l] = "idle"] /\ listed' = [listed EXCEPT ![l] = {}]
      /\ refusals' \in 0..MaxRefusals
  BY SendFileAssumption
  DEF RemovalRefused, Refused, StartGoes, SendFileInv, SendFileTypeOK
<1> USE SameLife
<1>2. SendFileTypeOK'
  BY <1>1 DEF SendFileInv, SendFileTypeOK
<1>3. \A m \in Starts : /\ start'[m] = IF m = l THEN "idle" ELSE start[m]
                       /\ listed'[m] = IF m = l THEN {} ELSE listed[m]
  BY <1>1 DEF SendFileInv, SendFileTypeOK
<1>4. HeldInFlight' /\ NotWritten' /\ Removable' /\ LeftListed'
  BY <1>1, <1>3 DEF SendFileInv, HeldInFlight, NotWritten, Removable, LeftListed
<1>5. WritingIsNotRemoved' /\ NothingLeftOver'
  BY <1>1, <1>3 DEF SendFileInv, WritingIsNotRemoved, NothingLeftOver, Others
<1>6. QED BY <1>2, <1>4, <1>5 DEF SendFileInv

LEMMA RecoveredKeeps ==
  ASSUME SendFileInv, NEW l \in Starts, Recovered(l) PROVE SendFileInv'
<1>1. /\ start[l] = "remove" /\ UNCHANGED <<life, lies, inFlight, send, listed, refusals>>
      /\ start' = [start EXCEPT ![l] = "recovered"] /\ listed[l] = {}
  BY DEF Recovered, StartGoes
<1> USE SameLife
<1>2. SendFileTypeOK'
  BY <1>1 DEF SendFileInv, SendFileTypeOK
<1>3. \A m \in Starts : start'[m] = IF m = l THEN "recovered" ELSE start[m]
  BY <1>1 DEF SendFileInv, SendFileTypeOK
<1>4. HeldInFlight' /\ NotWritten' /\ Removable' /\ LeftListed'
  BY <1>1, <1>3 DEF SendFileInv, HeldInFlight, NotWritten, Removable, LeftListed
<1>5. WritingIsNotRemoved'
  BY <1>1 DEF SendFileInv, WritingIsNotRemoved, Others
<1>6. ASSUME NEW name \in lies, name.mine PROVE name.life = life
  <2>1. name.life <= life /\ ~(name.life < life)
    BY <1>1, <1>6 DEF SendFileInv, LeftListed
  <2>2. name \in UnfinishedNames /\ life \in Nat /\ name.life \in Nat
    BY SendFileAssumption DEF SendFileInv, SendFileTypeOK, UnfinishedNames
  <2>3. QED BY <2>1, <2>2
<1>7. NothingLeftOver'
  BY <1>1, <1>6 DEF NothingLeftOver
<1>8. QED BY <1>2, <1>4, <1>5, <1>7 DEF SendFileInv

\* A new life has written no name yet, and every file there is an earlier's.
LEMMA NodeDiesKeeps == ASSUME SendFileInv, NodeDies PROVE SendFileInv'
<1>1. /\ life < MaxDeaths /\ life' = life + 1 /\ inFlight' = {} /\ UNCHANGED <<lies, refusals>>
      /\ send' = [s \in Sends |-> "idle"]
      /\ start' = [l \in Starts |-> "idle"] /\ listed' = [l \in Starts |-> {}]
  BY DEF NodeDies
<1>2. life \in Nat
  BY SendFileAssumption DEF SendFileInv, SendFileTypeOK
<1>3. SendFileTypeOK'
  BY <1>1, <1>2, SendFileAssumption DEF SendFileInv, SendFileTypeOK
<1>4. \A s \in Sends : NameOf(s)'.mine /\ NameOf(s)'.life = life + 1
  BY <1>1 DEF NameOf
<1>5. \A name \in lies : name.mine => name.life \in Nat /\ name.life <= life
  BY SendFileAssumption DEF SendFileInv, LeftListed, SendFileTypeOK, UnfinishedNames
<1>6. \A s \in Sends : NameOf(s)' \notin lies
  BY <1>2, <1>4, <1>5
<1>7. HeldInFlight' /\ NotWritten' /\ Removable'
  BY <1>1, <1>6 DEF HeldInFlight, NotWritten, Removable
<1>8. LeftListed'
  BY <1>1, <1>2, <1>5 DEF LeftListed
<1>9. WritingIsNotRemoved' /\ NothingLeftOver'
  BY <1>1 DEF SendFileInv, WritingIsNotRemoved, NothingLeftOver, Others
<1>10. QED BY <1>3, <1>7, <1>8, <1>9 DEF SendFileInv

LEMMA Inductive == SendFileInv /\ [SendFileNext]_sendFileVars => SendFileInv'
<1> SUFFICES ASSUME SendFileInv, [SendFileNext]_sendFileVars PROVE SendFileInv'
  OBVIOUS
<1>1. ASSUME NEW s \in Sends, OneSend(s) PROVE SendFileInv'
  BY <1>1, SendingKeeps, WriteFileKeeps, PutKeeps, DropNameKeeps DEF OneSend
<1>2. ASSUME NEW l \in Starts, OneStart(l) PROVE SendFileInv'
  BY <1>2, ListUnfinishedKeeps, RetainKeeps, RemoveLeftKeeps, RemovalRefusedKeeps, RecoveredKeeps
  DEF OneStart
<1>3. CASE UNCHANGED sendFileVars
  BY <1>3, SameLife DEF sendFileVars, SendFileInv, SendFileTypeOK, HeldInFlight, NotWritten, Removable,
     LeftListed, WritingIsNotRemoved, NothingLeftOver, Others
<1>4. QED BY <1>1, <1>2, <1>3, NodeDiesKeeps DEF SendFileNext

\* No start removes what a send is still writing, or another node's
\* (unfinished.rs).
THEOREM NoneWritingIsRemoved == SendFileSpec => []WritingIsNotRemoved
<1>1. SendFileInv => WritingIsNotRemoved
  BY DEF SendFileInv
<1>2. QED BY SendFileStarts, Inductive, <1>1, PTL DEF SendFileSpec

\* A Location that recovered left nothing of an earlier life there
\* (unfinished.rs).
THEOREM RecoveredLeavesNothing == SendFileSpec => []NothingLeftOver
<1>1. SendFileInv => NothingLeftOver
  BY DEF SendFileInv
<1>2. QED BY SendFileStarts, Inductive, <1>1, PTL DEF SendFileSpec

-----------------------------------------------------------------------------
(* The kept datagram socket: nothing from before is taken for an answer.   *)

\* What waits on the socket of f.
Waits(f) == {waiting[f][i] : i \in DOMAIN waiting[f]}

\* What waited when e began, and waits still.
Old(e) == before[e] \cap Waits(family[e])

\* No more waited when e began than its drain drops.
Unflooded(e) == Cardinality(before[e]) <= DrainMost

\* What is of B comes first on the socket of f.
ComesFirst(B, f) ==
  \A i, j \in DOMAIN waiting[f] : i < j /\ waiting[f][j] \in B => waiting[f][i] \in B

SenderTypes ==
  /\ family \in [Exchanges -> Families]
  /\ stands \in [Exchanges -> {"idle", "drain", "ask", "await", "over"}]
  /\ waiting \in [Families -> Seq(Exchanges)]
  /\ drained \in [Exchanges -> Nat]
  /\ asked \in SUBSET Exchanges
  /\ before \in [Exchanges -> SUBSET Exchanges]
  /\ took \in [Exchanges -> SUBSET Exchanges]

\* An answer comes once, on its own family's socket, to a request that was sent.
AnsweredOnce ==
  /\ \A d \in asked : stands[d] \in {"await", "over"}
  /\ \A f \in Families :
       /\ \A d \in Waits(f) : d \notin asked /\ stands[d] \in {"await", "over"} /\ family[d] = f
       /\ \A i, j \in DOMAIN waiting[f] : waiting[f][i] = waiting[f][j] => i = j

\* What waited when e began comes no second time, and ahead of what came since:
\* as long as any of it is left, each one dropped was of it; and it is gone
\* before the request is sent, unless a flood stopped the drain.
OldIsDropped(e) ==
  /\ stands[e] = "idle" => drained[e] = 0
  /\ \A d \in before[e] : d \notin asked /\ stands[d] \in {"await", "over"}
  /\ ComesFirst(before[e], family[e])
  /\ stands[e] = "drain" /\ Old(e) # {} =>
       drained[e] + Cardinality(Old(e)) <= Cardinality(before[e])
  /\ stands[e] \in {"ask", "await"} /\ Unflooded(e) => Old(e) = {}

\* An answer is taken last, for one asked on the same family's socket, and was
\* not there when the exchange began.
TookNothingOld(e) ==
  /\ stands[e] # "over" => took[e] = {}
  /\ Unflooded(e) => took[e] \cap before[e] = {}
  /\ \A d \in took[e] : family[d] = family[e]

SenderInv ==
  /\ SenderTypes /\ AnsweredOnce
  /\ \A e \in Exchanges : OldIsDropped(e) /\ TookNothingOld(e)

LEMMA WaitsAre == ASSUME SenderTypes, NEW f \in Families PROVE Waits(f) \subseteq Exchanges
BY LenProperties, ElementOfSeq DEF SenderTypes, Waits

LEMMA OldFinite ==
  ASSUME SenderTypes, NEW e \in Exchanges
  PROVE  /\ IsFiniteSet(before[e]) /\ Cardinality(before[e]) \in Nat
         /\ IsFiniteSet(Old(e)) /\ Cardinality(Old(e)) \in Nat
         /\ Cardinality(Old(e)) <= Cardinality(before[e])
<1>1. before[e] \subseteq Exchanges /\ Old(e) \subseteq before[e]
  BY DEF SenderTypes, Old
<1>2. IsFiniteSet(before[e])
  BY <1>1, SenderAssumption, FS_Subset
<1>3. QED BY <1>1, <1>2, FS_Subset, FS_CardinalityType

LEMMA SenderStarts == SenderInit => SenderInv
<1> SUFFICES ASSUME SenderInit PROVE SenderInv
  OBVIOUS
<1>1. SenderTypes
  BY DEF SenderInit, SenderTypes
<1>2. \A f \in Families : waiting[f] = <<>> /\ Waits(f) = {} /\ DOMAIN waiting[f] = {}
  BY DOMAIN <<>> = {} DEF SenderInit, Waits
<1>3. AnsweredOnce
  BY <1>2 DEF SenderInit, AnsweredOnce
<1>4. \A e \in Exchanges : OldIsDropped(e) /\ TookNothingOld(e)
  BY <1>1, <1>2 DEF SenderInit, SenderTypes, OldIsDropped, TookNothingOld, ComesFirst, Old
<1>5. QED BY <1>1, <1>3, <1>4 DEF SenderInv

\* An exchange for which no more of the old waits than did, and which has not
\* begun, drained or sent in this step.
LEMMA OldStays ==
  ASSUME SenderInv, SenderTypes', NEW e \in Exchanges, UNCHANGED family,
         before'[e] = before[e], drained'[e] = drained[e],
         \A d \in before[e] : d \notin asked' /\ stands'[d] \in {"await", "over"},
         \/ stands'[e] = stands[e] \/ stands'[e] = "over"
         \/ stands[e] = "ask" /\ stands'[e] = "await",
         ComesFirst(before[e], family[e])', Old(e)' \subseteq Old(e)
  PROVE  OldIsDropped(e)'
<1>1. OldIsDropped(e)
  BY DEF SenderInv
<1>2. Cardinality(Old(e)') <= Cardinality(Old(e)) /\ Cardinality(Old(e)') \in Nat
  BY OldFinite, FS_Subset, FS_CardinalityType DEF SenderInv
<1>3. Cardinality(Old(e)) \in Nat /\ Cardinality(before[e]) \in Nat /\ drained[e] \in Nat
  BY OldFinite DEF SenderInv, SenderTypes
<1>4. stands'[e] = "drain" /\ Old(e)' # {} =>
        drained'[e] + Cardinality(Old(e)') <= Cardinality(before'[e])
  <2>1. stands'[e] = "drain" /\ Old(e)' # {} =>
          drained[e] + Cardinality(Old(e)) <= Cardinality(before[e])
    BY <1>1 DEF OldIsDropped
  <2>2. QED BY <1>2, <1>3, <2>1
<1>5. stands'[e] \in {"ask", "await"} /\ Unflooded(e)' => Old(e)' = {}
  BY <1>1 DEF OldIsDropped, Unflooded
<1>6. stands'[e] = "idle" => drained'[e] = 0
  BY <1>1 DEF OldIsDropped
<1>7. QED BY <1>4, <1>5, <1>6 DEF OldIsDropped

\* What a sequence without its head holds: what came first of it comes first
\* still, and where any of a set is left, its head was.
LEMMA TailWaits ==
  ASSUME SenderInv, NEW f \in Families, waiting[f] # <<>>,
         waiting' = [waiting EXCEPT ![f] = Tail(@)]
  PROVE  /\ waiting' \in [Families -> Seq(Exchanges)]
         /\ Head(waiting[f]) \in Waits(f)
         /\ Waits(f)' = Waits(f) \ {Head(waiting[f])}
         /\ \A g \in Families : g # f => Waits(g)' = Waits(g)
         /\ \A g \in Families : \A i, j \in DOMAIN waiting'[g] :
              waiting'[g][i] = waiting'[g][j] => i = j
         /\ \A B : \A g \in Families : ComesFirst(B, g) => ComesFirst(B, g)'
         /\ \A B : ComesFirst(B, f) /\ B \cap Waits(f) # {} => Head(waiting[f]) \in B
<1> DEFINE s == waiting[f]
<1>1. s \in Seq(Exchanges) /\ \A i, j \in DOMAIN s : s[i] = s[j] => i = j
  BY DEF SenderInv, SenderTypes, AnsweredOnce
<1>2. /\ Tail(s) \in Seq(Exchanges) /\ Len(Tail(s)) = Len(s) - 1 /\ Len(s) \in Nat \ {0}
      /\ \A i \in 1..Len(Tail(s)) : Tail(s)[i] = s[i + 1]
  BY <1>1, HeadTailProperties, EmptySeq
<1>3. DOMAIN s = 1..Len(s) /\ DOMAIN Tail(s) = 1..Len(Tail(s)) /\ Head(s) = s[1]
  BY <1>1, <1>2, LenProperties
<1>4. waiting'[f] = Tail(s) /\ \A g \in Families : g # f => waiting'[g] = waiting[g]
  BY DEF SenderInv, SenderTypes
<1>5. waiting' \in [Families -> Seq(Exchanges)]
  BY <1>2 DEF SenderInv, SenderTypes
<1>6. 1 \in DOMAIN s
  BY <1>2, <1>3
<1>7. Head(s) \in Waits(f)
  BY <1>3, <1>6 DEF Waits
<1>8. \A d : d \in Waits(f)' <=> d \in Waits(f) /\ d # Head(s)
  <2>1. ASSUME NEW i \in DOMAIN Tail(s)
        PROVE  i + 1 \in DOMAIN s /\ Tail(s)[i] = s[i + 1] /\ s[i + 1] # s[1]
    <3>1. i \in Nat \ {0} /\ i + 1 \in 1..Len(s) /\ Tail(s)[i] = s[i + 1]
      BY <1>2, <1>3
    <3>2. QED BY <3>1, <1>1, <1>3, <1>6
  <2>2. ASSUME NEW i \in DOMAIN s, i # 1
        PROVE  i - 1 \in DOMAIN Tail(s) /\ Tail(s)[i - 1] = s[i]
    BY <1>2, <1>3, <2>2
  <2>3. Waits(f)' = {Tail(s)[i] : i \in DOMAIN Tail(s)} /\ Waits(f) = {s[i] : i \in DOMAIN s}
    BY <1>4 DEF Waits
  <2> HIDE DEF s
  <2>4. QED BY <1>3, <2>1, <2>2, <2>3
<1>9. \A i, j \in DOMAIN Tail(s) : Tail(s)[i] = Tail(s)[j] => i = j
  <2>1. \A i \in DOMAIN Tail(s) : i \in Nat /\ i + 1 \in DOMAIN s /\ Tail(s)[i] = s[i + 1]
    BY <1>2, <1>3
  <2>2. QED BY <1>1, <2>1
<1>10. \A g \in Families : g # f => Waits(g)' = Waits(g)
  BY <1>4 DEF Waits
<1>11. \A g \in Families : \A i, j \in DOMAIN waiting'[g] : waiting'[g][i] = waiting'[g][j] => i = j
  BY <1>4, <1>9 DEF SenderInv, AnsweredOnce
<1>12. ASSUME NEW B, NEW g \in Families, ComesFirst(B, g) PROVE ComesFirst(B, g)'
  <2>1. CASE g # f
    BY <1>4, <1>12, <2>1 DEF ComesFirst
  <2>2. CASE g = f
    <3> SUFFICES ASSUME NEW i \in DOMAIN Tail(s), NEW j \in DOMAIN Tail(s), i < j,
                        Tail(s)[j] \in B
                 PROVE  Tail(s)[i] \in B
      BY <1>4, <2>2 DEF ComesFirst
    <3>1. /\ i + 1 \in DOMAIN s /\ Tail(s)[i] = s[i + 1] /\ i + 1 < j + 1
          /\ j + 1 \in DOMAIN s /\ Tail(s)[j] = s[j + 1]
      BY <1>2, <1>3
    <3>2. QED BY <1>12, <2>2, <3>1 DEF ComesFirst
  <2>3. QED BY <2>1, <2>2
<1>13. ASSUME NEW B, ComesFirst(B, f), B \cap Waits(f) # {} PROVE Head(s) \in B
  <2>1. PICK j \in DOMAIN s : s[j] \in B
    BY <1>13 DEF Waits
  <2>2. 1 \in DOMAIN s /\ (j = 1 \/ 1 < j)
    BY <1>2, <1>3
  <2>3. QED BY <1>3, <1>13, <2>1, <2>2 DEF ComesFirst
<1>14. QED BY <1>5, <1>7, <1>8, <1>10, <1>11, <1>12, <1>13

\* Where nothing waits there is nothing in the sequence.
LEMMA NoneWaits ==
  ASSUME SenderInv, NEW f \in Families, waiting[f] = <<>> PROVE Waits(f) = {}
BY DOMAIN <<>> = {} DEF Waits

\* A step that leaves what waits, what is asked and what was taken: one
\* exchange goes on.
LEMMA ExchangeStands ==
  ASSUME SenderInv, NEW e \in Exchanges, NEW to \in {"drain", "ask", "over"},
         stands[e] # "over",
         to = "drain" => stands[e] = "idle",
         to = "ask" => stands[e] = "drain",
         to = "ask" /\ Unflooded(e) => Old(e) = {},
         to = "drain" => before' = [before EXCEPT ![e] = Waits(family[e])],
         to # "drain" => before' = before,
         stands' = [stands EXCEPT ![e] = to],
         UNCHANGED <<family, waiting, drained, asked, took>>
  PROVE  SenderInv'
<1>1. \A d \in Exchanges : stands'[d] = IF d = e THEN to ELSE stands[d]
  BY DEF SenderInv, SenderTypes
<1>2. \A f : Waits(f)' = Waits(f)
  BY DEF Waits
<1>3. family[e] \in Families /\ \A d \in Exchanges : family[d] \in Families
  BY DEF SenderInv, SenderTypes
<1>4. \A f \in Families : Waits(f) \subseteq Exchanges
  BY WaitsAre DEF SenderInv
<1>5. SenderTypes'
  <2>1. before' \in [Exchanges -> SUBSET Exchanges]
    BY <1>3, <1>4 DEF SenderInv, SenderTypes
  <2>2. QED BY <2>1 DEF SenderInv, SenderTypes
<1>6. \A d \in Exchanges : stands[d] \in {"await", "over"} => stands'[d] \in {"await", "over"}
  BY <1>1
<1>7. AnsweredOnce'
  <2>1. \A d \in asked' : stands'[d] \in {"await", "over"}
    BY <1>6 DEF SenderInv, SenderTypes, AnsweredOnce
  <2>2. ASSUME NEW f \in Families, NEW d \in Waits(f)'
        PROVE  d \notin asked' /\ stands'[d] \in {"await", "over"} /\ family'[d] = f
    BY <1>2, <1>4, <1>6, <2>2 DEF SenderInv, AnsweredOnce
  <2>3. QED BY <2>1, <2>2 DEF SenderInv, AnsweredOnce
<1>8. \A d \in Exchanges : d # e \/ to # "drain" => before'[d] = before[d]
  BY DEF SenderInv, SenderTypes
<1>9. ASSUME NEW d \in Exchanges, ~(d = e /\ to \in {"drain", "ask"}) PROVE OldIsDropped(d)'
  <2>1. before'[d] = before[d] /\ before[d] \subseteq Exchanges
    BY <1>8, <1>9 DEF SenderInv, SenderTypes
  <2>2. OldIsDropped(d)
    BY DEF SenderInv
  <2>3. \A b \in before[d] : b \notin asked' /\ stands'[b] \in {"await", "over"}
    BY <1>6, <2>1, <2>2 DEF OldIsDropped
  <2>4. ComesFirst(before[d], family[d])' /\ Old(d)' \subseteq Old(d)
    BY <1>2, <2>1, <2>2 DEF OldIsDropped, ComesFirst, Old
  <2>5. stands'[d] = stands[d] \/ stands'[d] = "over"
    BY <1>1, <1>9
  <2>6. QED BY <1>5, <2>1, <2>3, <2>4, <2>5, OldStays
<1>10. ASSUME to = "drain" PROVE OldIsDropped(e)'
  <2>1. /\ before'[e] = Waits(family[e]) /\ stands'[e] = "drain" /\ drained'[e] = 0
        /\ Waits(family[e])' = Waits(family[e])
    BY <1>1, <1>2, <1>10 DEF SenderInv, SenderTypes, OldIsDropped
  <2>2. \A b \in before'[e] : b \notin asked' /\ stands'[b] \in {"await", "over"}
    BY <1>3, <1>4, <1>6, <2>1 DEF SenderInv, AnsweredOnce
  <2>3. ComesFirst(before[e], family[e])'
    BY <2>1 DEF ComesFirst, Waits
  <2>4. Old(e)' \subseteq before'[e]
    BY DEF Old
  <2>5. drained'[e] + Cardinality(Old(e)') <= Cardinality(before'[e])
    <3>1. before'[e] \subseteq Exchanges /\ IsFiniteSet(before'[e])
      BY <1>5, SenderAssumption, FS_Subset DEF SenderTypes
    <3>2. /\ Cardinality(Old(e)') <= Cardinality(before'[e]) /\ Cardinality(Old(e)') \in Nat
          /\ Cardinality(before'[e]) \in Nat
      BY <2>4, <3>1, FS_Subset, FS_CardinalityType
    <3>3. QED BY <2>1, <3>2
  <2>6. QED BY <2>1, <2>2, <2>3, <2>5 DEF OldIsDropped
<1>11. ASSUME to = "ask" PROVE OldIsDropped(e)'
  <2>1. before' = before /\ stands'[e] = "ask" /\ OldIsDropped(e) /\ before[e] \subseteq Exchanges
    BY <1>1, <1>11 DEF SenderInv, SenderTypes
  <2>2. Old(e)' = Old(e) /\ Unflooded(e)' = Unflooded(e)
    BY <1>2, <2>1 DEF Old, Unflooded
  <2>3. ComesFirst(before[e], family[e])'
    BY <2>1 DEF OldIsDropped, ComesFirst
  <2>4. \A b \in before'[e] : b \notin asked' /\ stands'[b] \in {"await", "over"}
    BY <1>6, <2>1 DEF OldIsDropped
  <2>5. QED BY <1>11, <2>1, <2>2, <2>3, <2>4 DEF OldIsDropped
<1>12. ASSUME NEW d \in Exchanges PROVE TookNothingOld(d)'
  <2>1. TookNothingOld(d) /\ (d = e /\ to = "drain" => took[d] = {})
    BY DEF SenderInv, TookNothingOld
  <2>2. QED BY <1>1, <1>8, <2>1 DEF TookNothingOld, Unflooded
<1>13. QED BY <1>5, <1>7, <1>9, <1>10, <1>11, <1>12 DEF SenderInv

LEMMA NoSocketKeeps == ASSUME SenderInv, NEW e \in Exchanges, NoSocket(e) PROVE SenderInv'
<1>1. /\ stands[e] = "idle" /\ stands' = [stands EXCEPT ![e] = "over"]
      /\ UNCHANGED <<family, waiting, drained, asked, before, took>>
  BY DEF NoSocket, ExchangeGoes
<1>2. QED BY <1>1, ExchangeStands

LEMMA TakeSocketKeeps == ASSUME SenderInv, NEW e \in Exchanges, TakeSocket(e) PROVE SenderInv'
<1>1. /\ stands[e] = "idle" /\ stands' = [stands EXCEPT ![e] = "drain"]
      /\ before' = [before EXCEPT ![e] = Waits(family[e])]
      /\ UNCHANGED <<family, waiting, drained, asked, took>>
  BY DEF TakeSocket, ExchangeGoes, ToSet, Waits
<1>2. QED BY <1>1, ExchangeStands

\* The drain stops where nothing waits any more, or after its most: of what was
\* no more than its most nothing is left then.
LEMMA DrainedKeeps == ASSUME SenderInv, NEW e \in Exchanges, Drained(e) PROVE SenderInv'
<1>1. /\ stands[e] = "drain" /\ stands' = [stands EXCEPT ![e] = "ask"]
      /\ waiting[family[e]] = <<>> \/ drained[e] = DrainMost
      /\ UNCHANGED <<family, waiting, drained, asked, before, took>>
  BY DEF Drained, ExchangeGoes, StopsDraining
<1>2. family[e] \in Families
  BY DEF SenderInv, SenderTypes
<1>3. Unflooded(e) => Old(e) = {}
  <2>1. CASE waiting[family[e]] = <<>>
    BY <1>2, <2>1, NoneWaits DEF Old
  <2>2. CASE drained[e] = DrainMost /\ Unflooded(e) /\ Old(e) # {}
    <3>1. DrainMost + Cardinality(Old(e)) <= Cardinality(before[e])
      BY <1>1, <2>2 DEF SenderInv, OldIsDropped
    <3>2. Cardinality(Old(e)) = 0
      BY <2>2, <3>1, OldFinite, SenderAssumption DEF SenderInv, Unflooded
    <3>3. QED BY <2>2, <3>2, OldFinite, FS_EmptySet DEF SenderInv
  <2>3. QED BY <1>1, <2>1, <2>2
<1>4. QED BY <1>1, <1>3, ExchangeStands

LEMMA GiveUpKeeps == ASSUME SenderInv, NEW e \in Exchanges, GiveUp(e) PROVE SenderInv'
<1>1. /\ stands[e] \in {"drain", "ask", "await"} /\ stands' = [stands EXCEPT ![e] = "over"]
      /\ UNCHANGED <<family, waiting, drained, asked, before, took>>
  BY DEF GiveUp, ExchangeGoes
<1>2. QED BY <1>1, ExchangeStands

\* One dropped is counted, and one of the old where any of those is left.
LEMMA DrainOneKeeps == ASSUME SenderInv, NEW e \in Exchanges, DrainOne(e) PROVE SenderInv'
<1>0. PICK f \in Families : f = family[e]
  BY DEF SenderInv, SenderTypes
<1>00. PICK d : d = Head(waiting[f])
  OBVIOUS
<1>1. /\ stands[e] = "drain" /\ waiting[f] # <<>>
      /\ waiting' = [waiting EXCEPT ![f] = Tail(@)]
      /\ drained' = [drained EXCEPT ![e] = @ + 1]
      /\ UNCHANGED <<family, stands, asked, before, took>>
  BY <1>0 DEF DrainOne
<1>2. /\ waiting' \in [Families -> Seq(Exchanges)] /\ d \in Waits(f) /\ Waits(f)' = Waits(f) \ {d}
      /\ \A g \in Families : g # f => Waits(g)' = Waits(g)
      /\ \A g \in Families : \A i, j \in DOMAIN waiting'[g] :
           waiting'[g][i] = waiting'[g][j] => i = j
      /\ \A B : \A g \in Families : ComesFirst(B, g) => ComesFirst(B, g)'
      /\ \A B : ComesFirst(B, f) /\ B \cap Waits(f) # {} => d \in B
  BY <1>00, <1>1, TailWaits
<1>3. \A g \in Families : Waits(g)' \subseteq Waits(g)
  BY <1>2
<1>4. /\ drained' \in [Exchanges -> Nat] /\ drained'[e] = drained[e] + 1 /\ drained[e] \in Nat
      /\ \A x \in Exchanges : x # e => drained'[x] = drained[x]
  BY <1>1 DEF SenderInv, SenderTypes
<1>5. SenderTypes'
  BY <1>1, <1>2, <1>4 DEF SenderInv, SenderTypes
<1>6. AnsweredOnce'
  BY <1>1, <1>2, <1>3 DEF SenderInv, AnsweredOnce
<1>7. ASSUME NEW x \in Exchanges
      PROVE  /\ OldIsDropped(x) /\ Old(x)' \subseteq Old(x)
             /\ ComesFirst(before[x], family[x])'
  <2>1. family[x] \in Families /\ OldIsDropped(x)
    BY DEF SenderInv, SenderTypes
  <2>2. PICK B : B = before[x]
    OBVIOUS
  <2>3. PICK g \in Families : g = family[x]
    BY <2>1
  <2>4. ComesFirst(B, g)'
    BY <1>2, <2>1, <2>2, <2>3 DEF OldIsDropped
  <2>5. /\ before'[x] = B /\ family'[x] = g /\ before[x] = B /\ family[x] = g
        /\ Waits(g)' \subseteq Waits(g)
    BY <1>1, <1>3, <2>2, <2>3
  <2>6. Old(x)' \subseteq Old(x)
    <3>1. Old(x) = B \cap Waits(g) /\ Old(x)' = B \cap Waits(g)'
      BY <2>5, Zenon DEF Old, Waits
    <3>2. QED BY <2>5, <3>1
  <2>7. ComesFirst(before[x], family[x])'
    BY <2>4, <2>5, Zenon DEF ComesFirst
  <2>8. QED BY <2>1, <2>6, <2>7
<1>8. ASSUME NEW x \in Exchanges, x # e PROVE OldIsDropped(x)'
  <2>1. \A b \in before[x] : b \notin asked' /\ stands'[b] \in {"await", "over"}
    BY <1>1, <1>7 DEF OldIsDropped
  <2>2. QED BY <1>1, <1>4, <1>5, <1>7, <1>8, <2>1, OldStays
<1>9. OldIsDropped(e)'
  <2>1. OldIsDropped(e) /\ Old(e)' \subseteq Old(e) /\ ComesFirst(before[e], family[e])'
    BY <1>7
  <2>2. ASSUME Old(e)' # {} PROVE drained'[e] + Cardinality(Old(e)') <= Cardinality(before[e])
    <3>1. Old(e) # {} /\ drained[e] + Cardinality(Old(e)) <= Cardinality(before[e])
      BY <1>1, <2>1, <2>2 DEF OldIsDropped
    <3>2. d \in Old(e) /\ Old(e)' = Old(e) \ {d}
      BY <1>0, <1>1, <1>2, <2>1, <3>1 DEF OldIsDropped, Old
    <3>3. Cardinality(Old(e) \ {d}) = Cardinality(Old(e)) - 1
      BY <3>2, OldFinite, FS_RemoveElement DEF SenderInv
    <3>4. QED BY <1>4, <3>1, <3>2, <3>3, OldFinite DEF SenderInv
  <2>3. QED BY <1>1, <2>1, <2>2 DEF OldIsDropped
<1>10. \A x \in Exchanges : TookNothingOld(x)'
  BY <1>1 DEF SenderInv, TookNothingOld, Unflooded
<1>11. QED BY <1>5, <1>6, <1>8, <1>9, <1>10 DEF SenderInv

\* What is taken is of the family it is taken for, and is not of the old.
LEMMA TakeAnswerKeeps == ASSUME SenderInv, NEW e \in Exchanges, TakeAnswer(e) PROVE SenderInv'
<1>0. PICK f \in Families : f = family[e]
  BY DEF SenderInv, SenderTypes
<1>00. PICK d : d = Head(waiting[f])
  OBVIOUS
<1>1. /\ stands[e] = "await" /\ stands' = [stands EXCEPT ![e] = "over"] /\ waiting[f] # <<>>
      /\ waiting' = [waiting EXCEPT ![f] = Tail(@)] /\ took' = [took EXCEPT ![e] = {d}]
      /\ UNCHANGED <<family, drained, asked, before>>
  BY <1>0, <1>00 DEF TakeAnswer, ExchangeGoes
<1>2. /\ waiting' \in [Families -> Seq(Exchanges)] /\ d \in Waits(f) /\ Waits(f)' = Waits(f) \ {d}
      /\ \A g \in Families : g # f => Waits(g)' = Waits(g)
      /\ \A g \in Families : \A i, j \in DOMAIN waiting'[g] :
           waiting'[g][i] = waiting'[g][j] => i = j
      /\ \A B : \A g \in Families : ComesFirst(B, g) => ComesFirst(B, g)'
  BY <1>00, <1>1, TailWaits
<1>3. \A g \in Families : Waits(g)' \subseteq Waits(g) /\ Waits(g) \subseteq Exchanges
  BY <1>2, WaitsAre DEF SenderInv
<1>4. d \in Exchanges /\ family[d] = f
  BY <1>2, <1>3 DEF SenderInv, AnsweredOnce
<1>5. \A x \in Exchanges : stands'[x] = (IF x = e THEN "over" ELSE stands[x])
                           /\ took'[x] = (IF x = e THEN {d} ELSE took[x])
  BY <1>1 DEF SenderInv, SenderTypes
<1>6. SenderTypes'
  BY <1>1, <1>2, <1>4 DEF SenderInv, SenderTypes
<1>7. AnsweredOnce'
  <2>1. \A x \in Exchanges : stands[x] \in {"await", "over"} => stands'[x] \in {"await", "over"}
    BY <1>5
  <2>2. \A x \in asked' : stands'[x] \in {"await", "over"}
    BY <1>1, <2>1 DEF SenderInv, SenderTypes, AnsweredOnce
  <2>3. ASSUME NEW g \in Families, NEW x \in Waits(g)'
        PROVE  x \notin asked' /\ stands'[x] \in {"await", "over"} /\ family'[x] = g
    BY <1>1, <1>3, <2>1, <2>3 DEF SenderInv, AnsweredOnce
  <2>4. QED BY <1>2, <2>2, <2>3 DEF AnsweredOnce
<1>8. ASSUME NEW x \in Exchanges PROVE OldIsDropped(x)'
  <2>1. family[x] \in Families /\ OldIsDropped(x) /\ before[x] \subseteq Exchanges
    BY DEF SenderInv, SenderTypes
  <2>2. PICK B : B = before[x]
    OBVIOUS
  <2>3. PICK g \in Families : g = family[x]
    BY <2>1
  <2>4. ComesFirst(B, g)'
    BY <1>2, <2>1, <2>2, <2>3 DEF OldIsDropped
  <2>5. /\ before'[x] = B /\ family'[x] = g /\ before[x] = B /\ family[x] = g
        /\ Waits(g)' \subseteq Waits(g)
    BY <1>1, <1>3, <2>2, <2>3
  <2>6. Old(x)' \subseteq Old(x) /\ ComesFirst(before[x], family[x])'
    <3>1. Old(x) = B \cap Waits(g) /\ Old(x)' = B \cap Waits(g)'
      BY <2>5, Zenon DEF Old, Waits
    <3>2. ComesFirst(before[x], family[x])'
      BY <2>4, <2>5, Zenon DEF ComesFirst
    <3>3. QED BY <2>5, <3>1, <3>2
  <2>7. \A b \in before[x] : b \notin asked' /\ stands'[b] \in {"await", "over"}
    BY <1>1, <1>5, <2>1 DEF OldIsDropped
  <2>8. QED BY <1>1, <1>5, <1>6, <2>6, <2>7, OldStays
<1>9. ASSUME NEW x \in Exchanges PROVE TookNothingOld(x)'
  <2>1. TookNothingOld(x) /\ Unflooded(x)' = Unflooded(x) /\ before'[x] = before[x]
    BY <1>1 DEF SenderInv, Unflooded
  <2>2. Unflooded(e) => d \notin before[e]
    BY <1>0, <1>1, <1>2 DEF SenderInv, OldIsDropped, Old
  <2>3. QED BY <1>0, <1>1, <1>4, <1>5, <2>1, <2>2 DEF TookNothingOld
<1>10. QED BY <1>6, <1>7, <1>8, <1>9 DEF SenderInv

LEMMA AskFarEndKeeps == ASSUME SenderInv, NEW e \in Exchanges, AskFarEnd(e) PROVE SenderInv'
<1>1. /\ stands[e] = "ask" /\ stands' = [stands EXCEPT ![e] = "await"] /\ asked' = asked \cup {e}
      /\ UNCHANGED <<family, waiting, drained, before, took>>
  BY DEF AskFarEnd, ExchangeGoes
<1>2. \A x \in Exchanges : stands'[x] = IF x = e THEN "await" ELSE stands[x]
  BY <1>1 DEF SenderInv, SenderTypes
<1>3. \A g \in Families : Waits(g)' = Waits(g) /\ e \notin Waits(g) /\ Waits(g) \subseteq Exchanges
  <2>1. \A g \in Families : Waits(g)' = Waits(g)
    BY <1>1 DEF Waits
  <2>2. QED BY <1>1, <2>1, WaitsAre DEF SenderInv, AnsweredOnce
<1>4. SenderTypes'
  BY <1>1 DEF SenderInv, SenderTypes
<1>5. AnsweredOnce'
  <2>1. \A x \in asked' : stands'[x] \in {"await", "over"}
    BY <1>1, <1>2 DEF SenderInv, SenderTypes, AnsweredOnce
  <2>2. QED BY <1>1, <1>2, <1>3, <2>1 DEF SenderInv, AnsweredOnce
<1>6. ASSUME NEW x \in Exchanges PROVE OldIsDropped(x)'
  <2>1. OldIsDropped(x) /\ before[x] \subseteq Exchanges
    BY DEF SenderInv, SenderTypes
  <2>2. \A b \in before[x] : b \notin asked' /\ stands'[b] \in {"await", "over"}
    BY <1>1, <1>2, <2>1 DEF OldIsDropped
  <2>3. ComesFirst(before[x], family[x])' /\ Old(x)' \subseteq Old(x)
    BY <1>1, <2>1 DEF OldIsDropped, ComesFirst, Old, Waits
  <2>4. QED BY <1>1, <1>2, <1>4, <2>2, <2>3, OldStays
<1>7. \A x \in Exchanges : TookNothingOld(x)'
  BY <1>1, <1>2 DEF SenderInv, TookNothingOld, Unflooded
<1>8. QED BY <1>4, <1>5, <1>6, <1>7 DEF SenderInv

\* Nobody stands elsewhere, and what was taken stays as it was.
LEMMA AnswerKeeps ==
  ASSUME SenderInv, NEW e \in Exchanges, asked' = asked \ {e},
         SenderTypes', AnsweredOnce', UNCHANGED <<family, stands, drained, before, took>>,
         \A x \in Exchanges : ComesFirst(before[x], family[x])' /\ Old(x)' \subseteq Old(x)
  PROVE  SenderInv'
<1>1. ASSUME NEW x \in Exchanges PROVE OldIsDropped(x)'
  <2>1. \A b \in before[x] : b \notin asked' /\ stands'[b] \in {"await", "over"}
    BY DEF SenderInv, OldIsDropped
  <2>2. QED BY <2>1, OldStays
<1>2. \A x \in Exchanges : TookNothingOld(x)'
  BY DEF SenderInv, TookNothingOld, Unflooded
<1>3. QED BY <1>1, <1>2 DEF SenderInv

LEMMA AnswerComesKeeps == ASSUME SenderInv, NEW e \in Exchanges, AnswerComes(e) PROVE SenderInv'
<1>0. PICK f \in Families : f = family[e]
  BY DEF SenderInv, SenderTypes
<1> DEFINE s == waiting[f]
<1>1. /\ e \in asked /\ asked' = asked \ {e} /\ waiting' = [waiting EXCEPT ![f] = Append(@, e)]
      /\ UNCHANGED <<family, stands, drained, before, took>>
  BY <1>0 DEF AnswerComes
<1>2. s \in Seq(Exchanges) /\ stands[e] \in {"await", "over"}
  BY <1>1 DEF SenderInv, SenderTypes, AnsweredOnce
<1>3. /\ Append(s, e) \in Seq(Exchanges) /\ Len(s) \in Nat
      /\ DOMAIN s = 1..Len(s) /\ DOMAIN Append(s, e) = 1..Len(s) + 1
      /\ Append(s, e)[Len(s) + 1] = e /\ \A i \in 1..Len(s) : Append(s, e)[i] = s[i]
  BY <1>2, AppendProperties, LenProperties
<1>4. waiting'[f] = Append(s, e) /\ \A g \in Families : g # f => waiting'[g] = waiting[g]
  BY <1>1, <1>2 DEF SenderInv, SenderTypes
<1>5. waiting' \in [Families -> Seq(Exchanges)]
  BY <1>1, <1>3 DEF SenderInv, SenderTypes
<1>6. \A g \in Families : e \notin Waits(g)
  BY <1>1 DEF SenderInv, AnsweredOnce
<1>7. Waits(f)' = Waits(f) \cup {e}
  <2>1. Waits(f)' = {Append(s, e)[i] : i \in 1..Len(s) + 1} /\ Waits(f) = {s[i] : i \in 1..Len(s)}
    BY <1>3, <1>4 DEF Waits
  <2>2. \A i \in 1..Len(s) + 1 : i \in 1..Len(s) \/ i = Len(s) + 1
    BY <1>3
  <2>3. 1..Len(s) \subseteq 1..Len(s) + 1 /\ Len(s) + 1 \in 1..Len(s) + 1
    BY <1>3
  <2> HIDE DEF s
  <2>4. QED BY <1>3, <2>1, <2>2, <2>3
<1>8. \A g \in Families : g # f => Waits(g)' = Waits(g)
  BY <1>4 DEF Waits
<1>9. \A i, j \in DOMAIN Append(s, e) : Append(s, e)[i] = Append(s, e)[j] => i = j
  <2>1. \A i \in 1..Len(s) : s[i] # e
    BY <1>2, <1>3, <1>6 DEF Waits
  <2>2. \A i, j \in 1..Len(s) : s[i] = s[j] => i = j
    BY <1>2, <1>3 DEF SenderInv, AnsweredOnce
  <2>3. \A i \in 1..Len(s) + 1 : i \in 1..Len(s) \/ i = Len(s) + 1
    BY <1>3
  <2> HIDE DEF s
  <2>4. QED BY <1>3, <2>1, <2>2, <2>3
<1>10. SenderTypes'
  BY <1>1, <1>5 DEF SenderInv, SenderTypes
<1>11. AnsweredOnce'
  <2>1. \A d \in asked' : stands'[d] \in {"await", "over"}
    BY <1>1 DEF SenderInv, AnsweredOnce
  <2>2. ASSUME NEW g \in Families, NEW d \in Waits(g)'
        PROVE  d \notin asked' /\ stands'[d] \in {"await", "over"} /\ family'[d] = g
    BY <1>0, <1>1, <1>2, <1>7, <1>8, <2>2 DEF SenderInv, AnsweredOnce
  <2>3. ASSUME NEW g \in Families
        PROVE  \A i, j \in DOMAIN waiting'[g] : waiting'[g][i] = waiting'[g][j] => i = j
    BY <1>4, <1>9, <2>3 DEF SenderInv, AnsweredOnce
  <2> HIDE DEF s
  <2>4. QED BY <2>1, <2>2, <2>3 DEF AnsweredOnce
<1>12. ASSUME NEW x \in Exchanges
       PROVE  ComesFirst(before[x], family[x])' /\ Old(x)' \subseteq Old(x)
  <2>1. /\ family[x] \in Families /\ ComesFirst(before[x], family[x]) /\ e \notin before[x]
    BY <1>1 DEF SenderInv, SenderTypes, OldIsDropped
  <2>2. PICK B : B = before[x]
    OBVIOUS
  <2>3. PICK g \in Families : g = family[x]
    BY <2>1
  <2>4. /\ before'[x] = B /\ family'[x] = g /\ e \notin B /\ ComesFirst(B, g)
    BY <1>1, <2>1, <2>2, <2>3
  <2>5. Old(x)' \subseteq Old(x)
    <3>1. Old(x) = B \cap Waits(g) /\ Old(x)' = B \cap Waits(g)'
      BY <2>2, <2>3, <2>4, Zenon DEF Old, Waits
    <3>2. QED BY <1>7, <1>8, <2>4, <3>1
  <2>6. ComesFirst(B, g)'
    <3>1. CASE g # f
      BY <1>4, <2>4, <3>1 DEF ComesFirst
    <3>2. CASE g = f
      <4> SUFFICES ASSUME NEW i \in DOMAIN Append(s, e), NEW j \in DOMAIN Append(s, e), i < j,
                          Append(s, e)[j] \in B
                   PROVE  Append(s, e)[i] \in B
        BY <1>4, <3>2 DEF ComesFirst
      <4>1. i \in 1..Len(s) /\ j \in 1..Len(s)
        BY <1>3, <2>4
      <4>2. QED BY <1>3, <2>4, <3>2, <4>1 DEF ComesFirst
    <3>3. QED BY <3>1, <3>2
  <2>7. ComesFirst(before[x], family[x])'
    BY <2>4, <2>6, Zenon DEF ComesFirst
  <2>8. QED BY <2>5, <2>7
<1>13. QED BY <1>1, <1>10, <1>11, <1>12, AnswerKeeps

LEMMA AnswerLostKeeps == ASSUME SenderInv, NEW e \in Exchanges, AnswerLost(e) PROVE SenderInv'
<1>1. /\ asked' = asked \ {e} /\ UNCHANGED <<family, waiting, stands, drained, before, took>>
      /\ \A f \in Families : Waits(f)' = Waits(f)
  BY DEF AnswerLost, Waits
<1>2. SenderTypes' /\ AnsweredOnce'
  BY <1>1 DEF SenderInv, SenderTypes, AnsweredOnce
<1>3. \A x \in Exchanges : ComesFirst(before[x], family[x])' /\ Old(x)' \subseteq Old(x)
  BY <1>1 DEF SenderInv, OldIsDropped, ComesFirst, Old, Waits
<1>4. QED BY <1>1, <1>2, <1>3, AnswerKeeps

LEMMA SenderKeeps == SenderInv /\ [SenderNext]_senderVars => SenderInv'
<1> SUFFICES ASSUME SenderInv, [SenderNext]_senderVars PROVE SenderInv'
  OBVIOUS
<1>1. CASE UNCHANGED senderVars
  <2>1. \A f : Waits(f)' = Waits(f)
    BY <1>1 DEF senderVars, Waits
  <2>2. \A e : Old(e)' = Old(e) /\ Unflooded(e)' = Unflooded(e)
    BY <1>1, <2>1 DEF senderVars, Old, Unflooded
  <2>3. SenderTypes' /\ AnsweredOnce'
    BY <1>1, <2>1 DEF senderVars, SenderInv, SenderTypes, AnsweredOnce
  <2>4. \A e \in Exchanges : OldIsDropped(e)' /\ TookNothingOld(e)'
    BY <1>1, <2>1, <2>2 DEF senderVars, SenderInv, OldIsDropped, TookNothingOld, ComesFirst
  <2>5. QED BY <2>3, <2>4 DEF SenderInv
<1>2. CASE SenderNext
  BY <1>2, NoSocketKeeps, TakeSocketKeeps, DrainOneKeeps, DrainedKeeps, AskFarEndKeeps,
     TakeAnswerKeeps, GiveUpKeeps, AnswerComesKeeps, AnswerLostKeeps DEF SenderNext, OneExchange
<1>3. QED BY <1>1, <1>2

\* However many exchanges are made, gave up before and were answered late: where
\* no more waited when one began than its drain drops, it takes none of that
\* (sender.rs, MOST), and it takes what came on its own family's socket.
THEOREM TakesNothingFromBefore == SenderSpec => []NothingFromBefore
<1>1. SenderInv => NothingFromBefore
  BY DEF SenderInv, TookNothingOld, Unflooded, NothingFromBefore
<1>2. QED BY SenderStarts, SenderKeeps, <1>1, PTL DEF SenderSpec

-----------------------------------------------------------------------------
(* The pinned keys: a far end is trusted under one key for good, unless its *)
(* line became one with another's.                                         *)

\* The last of the lines that pin f pins it to k.
LastPins(f, k) == \E i \in PinsOf(f) : Lines[i].key = k /\ \A j \in PinsOf(f) : j <= i

\* The file pins f to k, or to what nobody presents.
Pinning(f, k) == LastPins(f, k) \/ LastPins(f, SpoiltKey)

\* Each far end is pinned by its last line, or by none.
FilePins == \A f \in FarEnds \ joined : PinsOf(f) = {} \/ \E k \in Keys : Pinning(f, k)

\* Who is trusted is trusted under the key the file pins last; a process that
\* read the file has it pinned, and pins nothing else.
Trusts ==
  \A f \in FarEnds \ joined :
    /\ trusted[f] = {} \/ \E k \in Keys : trusted[f] = {k} /\ Pinning(f, k)
    /\ read /\ trusted[f] # {} => pins[f] \in trusted[f] \cup {SpoiltKey}
    /\ read /\ pins[f] # NoKey => Pinning(f, pins[f])

\* A hold is made on what was read, and appends only where nothing is pinned.
Holds ==
  \A h \in holding : read /\ (h[3] = "append" => pins[h[1]] = NoKey)

PinnedType ==
  /\ file \in Seq(Line \cup {Torn}) /\ read \in BOOLEAN
  /\ tail \in ({"none", "key", "name"} \X {Torn}) \cup ({"line"} \X Line)
  /\ pins = [f \in FarEnds |-> pins[f]]
  /\ trusted \in [FarEnds -> SUBSET Keys] /\ joined \in SUBSET FarEnds

PinnedInv == PinnedType /\ FilePins /\ Trusts /\ Holds

LEMMA LineIsWhole == \A line \in Line : line # Torn
<1> SUFFICES ASSUME NEW line \in Line PROVE line # Torn
  OBVIOUS
<1>1. DOMAIN line = {"name", "key"}
  BY DEF Line
<1>2. DOMAIN Torn = {}
  BY DEF Torn
<1>3. QED BY <1>1, <1>2

\* What a tail is, and what is read with it.
LEMMA TailIs ==
  ASSUME PinnedType
  PROVE  /\ tail[1] \in {"none", "key", "name", "line"}
         /\ tail[1] = "line" => tail[2] \in Line /\ Lines = Append(file, tail[2])
         /\ tail[1] # "line" => tail[2] = Torn /\ Lines = file
         /\ Lines \in Seq(Line \cup {Torn})
<1>1. CASE tail \in {"none", "key", "name"} \X {Torn}
  BY <1>1 DEF PinnedType, Lines
<1>2. CASE tail \in {"line"} \X Line
  <2>1. tail[1] = "line" /\ tail[2] \in Line /\ tail[2] # Torn
    BY <1>2, LineIsWhole
  <2>2. QED BY <2>1 DEF PinnedType, Lines
<1>3. QED BY <1>1, <1>2 DEF PinnedType

\* A key the file pins last is the only one it does.
LEMMA OneLast ==
  ASSUME PinnedType, NEW f \in FarEnds, NEW k, NEW q, LastPins(f, k), LastPins(f, q)
  PROVE  k = q
<1>1. \A i \in PinsOf(f) : i \in Nat
  BY TailIs DEF PinsOf
<1>2. PICK i \in PinsOf(f) : Lines[i].key = k /\ \A j \in PinsOf(f) : j <= i
  BY DEF LastPins
<1>3. PICK j \in PinsOf(f) : Lines[j].key = q /\ \A x \in PinsOf(f) : x <= j
  BY DEF LastPins
<1>4. i = j
  BY <1>1, <1>2, <1>3
<1>5. QED BY <1>2, <1>3, <1>4

\* What a process reads is what the last lines pin.
LEMMA ReadsLast ==
  ASSUME PinnedType, NEW f \in FarEnds
  PROVE  /\ PinsOf(f) = {} => ReadPins[f] = NoKey
         /\ PinsOf(f) # {} => \A k : LastPins(f, k) => ReadPins[f] = k
<1> DEFINE last == CHOOSE i \in PinsOf(f) : \A j \in PinsOf(f) : j <= i
<1>1. ReadPins[f] = IF PinsOf(f) = {} THEN NoKey ELSE Lines[last].key
  BY DEF ReadPins
<1>2. ASSUME NEW k, PinsOf(f) # {}, LastPins(f, k) PROVE ReadPins[f] = k
  <2>1. PICK i \in PinsOf(f) : Lines[i].key = k /\ \A j \in PinsOf(f) : j <= i
    BY <1>2 DEF LastPins
  <2>2. last \in PinsOf(f) /\ \A j \in PinsOf(f) : j <= last
    BY <2>1
  <2>3. \A j \in PinsOf(f) : j \in Nat
    BY TailIs DEF PinsOf
  <2>4. last = i
    BY <2>1, <2>2, <2>3
  <2>5. QED BY <1>1, <1>2, <2>1, <2>4
<1>3. QED BY <1>1, <1>2

\* The lines of g lie where they did, and what they were.
SameLines(g) ==
  /\ PinsOf(g)' = PinsOf(g)
  /\ \A i \in PinsOf(g) : Lines'[i] = Lines[i]

LEMMA SamePins ==
  ASSUME NEW g \in FarEnds, SameLines(g)
  PROVE  \A k : LastPins(g, k)' <=> LastPins(g, k)
BY DEF SameLines, LastPins

\* As long as nothing is written, the file pins what it did.
LEMMA FileStill ==
  ASSUME UNCHANGED <<file, tail>>
  PROVE  /\ Lines' = Lines /\ \A f \in FarEnds : PinsOf(f)' = PinsOf(f)
         /\ \A f \in FarEnds : \A k : LastPins(f, k)' <=> LastPins(f, k)
BY DEF Lines, PinsOf, LastPins

\* A line of f after those that are read pins f, and leaves the others'.
LEMMA LinePins ==
  ASSUME PinnedType, NEW f \in FarEnds, NEW q \in Keys \cup {SpoiltKey},
         Lines' = Append(Lines, [name |-> f, key |-> q])
  PROVE  LastPins(f, q)' /\ \A g \in FarEnds : g # f => SameLines(g)
<1> DEFINE line == [name |-> f, key |-> q]
           at == Len(Lines) + 1
<1>1. line \in Line /\ line # Torn
  BY LineIsWhole DEF Line
<1>2. /\ DOMAIN Lines' = 1..at /\ DOMAIN Lines = 1..Len(Lines) /\ Len(Lines) \in Nat
      /\ Lines'[at] = line /\ \A i \in DOMAIN Lines : Lines'[i] = Lines[i]
  BY <1>1, TailIs
<1>3. at \in PinsOf(f)' /\ \A j \in PinsOf(f)' : j <= at
  BY <1>1, <1>2 DEF PinsOf
<1>4. LastPins(f, q)'
  BY <1>2, <1>3 DEF LastPins
<1>5. ASSUME NEW g \in FarEnds, g # f PROVE SameLines(g)
  <2>1. PinsOf(g)' = PinsOf(g)
    BY <1>2, <1>5 DEF PinsOf
  <2>2. QED BY <1>2, <2>1 DEF SameLines, PinsOf
<1>6. QED BY <1>4, <1>5

\* Where what is read is the whole lines, or they and one that pins nobody, the
\* lines of all but the far end that loses its name are as they were.
LEMMA TornPins ==
  ASSUME PinnedType, NEW g \in FarEnds, g \notin LosesName,
         Lines' = file \/ Lines' = Append(file, Torn)
  PROVE  SameLines(g)
<1>1. file \in Seq(Line \cup {Torn}) /\ DOMAIN file = 1..Len(file) /\ Len(file) \in Nat
  BY DEF PinnedType
<1>2. /\ \A i \in 1..Len(file) : Lines[i] = file[i]
      /\ DOMAIN Lines = 1..Len(file) \/ DOMAIN Lines = 1..Len(file) + 1
      /\ Len(file) + 1 \in DOMAIN Lines => Lines[Len(file) + 1].name # g
  <2>1. CASE tail[1] = "line"
    <3>1. tail[2] \in Line /\ Lines = Append(file, tail[2]) /\ tail[2].name # g
      BY <2>1, TailIs DEF LosesName
    <3>2. PICK last \in Line : last = tail[2]
      BY <3>1
    <3>3. Lines = Append(file, last) /\ last.name # g
      BY <3>1, <3>2
    <3>4. QED BY <1>1, <3>3
  <2>2. CASE tail[1] # "line"
    <3>1. Lines = file
      BY <2>2, TailIs
    <3>2. ~(Len(file) + 1 \in 1..Len(file))
      BY <1>1
    <3>3. QED BY <1>1, <3>1, <3>2
  <2>3. QED BY <2>1, <2>2
<1>3. /\ \A i \in 1..Len(file) : Lines'[i] = file[i]
      /\ DOMAIN Lines' = 1..Len(file) \/ DOMAIN Lines' = 1..Len(file) + 1
      /\ Len(file) + 1 \in DOMAIN Lines' => Lines'[Len(file) + 1] = Torn
  <2>1. CASE Lines' = file
    BY <1>1, <2>1
  <2>2. CASE Lines' = Append(file, Torn)
    BY <1>1, <2>2
  <2>3. QED BY <2>1, <2>2
<1>4. PinsOf(g) = {i \in 1..Len(file) : file[i] # Torn /\ file[i].name = g}
  BY <1>1, <1>2 DEF PinsOf
<1>5. PinsOf(g)' = {i \in 1..Len(file) : file[i] # Torn /\ file[i].name = g}
  BY <1>1, <1>3 DEF PinsOf
<1>6. QED BY <1>2, <1>3, <1>4, <1>5 DEF SameLines

\* Whatever is written: the far ends whose lines were not joined are pinned as
\* they were, but for the one written for, which is pinned to its key or to what
\* nobody presents, or as it was where its line is not there.
LEMMA WrittenPins ==
  ASSUME PinnedType, NEW f \in FarEnds, NEW k \in Keys,
         \/ Appended(f, k)
         \/ \E far \in {"key", "name", "line"} : PartAppended(f, k, far)
  PROVE  /\ file' \in Seq(Line \cup {Torn})
         /\ tail' \in ({"none", "key", "name"} \X {Torn}) \cup ({"line"} \X Line)
         /\ joined' \in SUBSET FarEnds /\ joined \subseteq joined'
         /\ \A g \in FarEnds \ joined' : g # f => SameLines(g)
         /\ f \notin joined' => Pinning(f, k)' \/ (SameLines(f) /\ ~Appended(f, k))
<1>1. /\ tail[1] \in {"none", "key", "name", "line"}
      /\ tail[1] = "line" => tail[2] \in Line /\ tail[2].name \in FarEnds
      /\ tail[1] # "line" => tail[2] = Torn /\ Lines = file
      /\ LosesName \subseteq FarEnds
  BY TailIs DEF Line, LosesName
<1>2. PICK q \in Keys \cup {SpoiltKey} : q = (IF tail[1] = "key" THEN SpoiltKey ELSE k)
  OBVIOUS
<1>3. LineOf(f, k) = [name |-> f, key |-> q] /\ LineOf(f, k) \in Line /\ LineOf(f, k) # Torn
  BY <1>2, LineIsWhole DEF LineOf, Line
<1>4. ASSUME LastPins(f, q)' PROVE Pinning(f, k)'
  BY <1>2, <1>4 DEF Pinning
<1>5. CASE Appended(f, k)
  <2>1. /\ file' = Append(file, IF InName THEN Torn ELSE LineOf(f, k)) /\ tail' = NoTail
        /\ joined' = joined \cup LosesName \cup (IF InName THEN {f} ELSE {})
    BY <1>5 DEF Appended
  <2>2. file' \in Seq(Line \cup {Torn})
    BY <1>3, <2>1 DEF PinnedType
  <2>3. tail' \in ({"none", "key", "name"} \X {Torn}) \cup ({"line"} \X Line)
        /\ tail'[2] = Torn
    <3>1. tail' = <<"none", Torn>>
      BY <2>1 DEF NoTail
    <3>2. tail' \in {"none", "key", "name"} \X {Torn} /\ tail'[2] = Torn
      BY <3>1
    <3>3. QED BY <3>2
  <2>4. Lines' = file'
    BY <2>3 DEF Lines
  <2>5. joined' \in SUBSET FarEnds /\ joined \subseteq joined'
    BY <1>1, <2>1 DEF PinnedType
  <2>6. CASE InName
    <3>1. Lines' = Append(file, Torn) /\ f \in joined' /\ LosesName \subseteq joined'
      BY <2>1, <2>4, <2>6
    <3>2. \A g \in FarEnds \ joined' : SameLines(g)
      BY <3>1, TornPins
    <3>3. QED BY <2>2, <2>3, <2>5, <3>1, <3>2
  <2>7. CASE ~InName
    <3>1. Lines' = Append(Lines, [name |-> f, key |-> q])
      BY <1>1, <1>3, <2>1, <2>4, <2>7 DEF InName
    <3>2. LastPins(f, q)' /\ \A g \in FarEnds : g # f => SameLines(g)
      BY <3>1, LinePins
    <3>3. QED BY <1>4, <2>2, <2>3, <2>5, <3>2
  <2>8. QED BY <2>6, <2>7
<1>6. ASSUME NEW far \in {"key", "name", "line"}, PartAppended(f, k, far), ~Appended(f, k)
      PROVE  /\ file' \in Seq(Line \cup {Torn})
             /\ tail' \in ({"none", "key", "name"} \X {Torn}) \cup ({"line"} \X Line)
             /\ joined' \in SUBSET FarEnds /\ joined \subseteq joined'
             /\ \A g \in FarEnds \ joined' : g # f => SameLines(g)
             /\ f \notin joined' => Pinning(f, k)' \/ (SameLines(f) /\ ~Appended(f, k))
  <2>1. /\ file' = file /\ joined' = joined \cup LosesName
        /\ InName => tail' = <<"name", Torn>>
        /\ ~InName /\ far = "line" => tail' = <<"line", LineOf(f, k)>>
        /\ ~InName /\ far # "line" => tail' = <<far, Torn>>
    <3>1. UNCHANGED file /\ joined' = joined \cup LosesName
      BY <1>6, Zenon DEF PartAppended
    <3>2. tail' = IF InName THEN <<"name", Torn>>
                  ELSE IF far = "line" THEN <<far, LineOf(f, k)>> ELSE <<far, Torn>>
      BY <1>6, Zenon DEF PartAppended
    <3> HIDE DEF InName
    <3>3. QED BY <3>1, <3>2
  <2>2. file' \in Seq(Line \cup {Torn}) /\ joined' \in SUBSET FarEnds /\ joined \subseteq joined'
    BY <1>1, <2>1 DEF PinnedType
  <2>3. CASE InName \/ far # "line"
    <3>1. tail' \in {"none", "key", "name"} \X {Torn} /\ tail'[2] = Torn
      BY <2>1, <2>3
    <3>2. Lines' = file
      BY <2>1, <3>1 DEF Lines
    <3>3. \A g \in FarEnds \ joined' : SameLines(g)
      BY <2>1, <3>2, TornPins
    <3>4. QED BY <1>6, <2>2, <3>1, <3>3
  <2>4. CASE ~InName /\ far = "line"
    <3>1. tail' = <<"line", LineOf(f, k)>> /\ tail' \in {"line"} \X Line
      BY <1>3, <2>1, <2>4
    <3>2. Lines' = Append(Lines, [name |-> f, key |-> q])
      BY <1>1, <1>3, <2>1, <2>4, <3>1 DEF InName, Lines
    <3>3. LastPins(f, q)' /\ \A g \in FarEnds : g # f => SameLines(g)
      BY <3>2, LinePins
    <3>4. QED BY <1>4, <2>2, <3>1, <3>3
  <2>5. QED BY <2>3, <2>4
<1>7. QED BY <1>5, <1>6

LEMMA PinnedStarts == ASSUME PinnedInit PROVE PinnedInv
<1>1. PinnedType
  <2>1. /\ pins = [f \in FarEnds |-> pins[f]] /\ trusted \in [FarEnds -> SUBSET Keys]
        /\ read \in BOOLEAN /\ joined \in SUBSET FarEnds
    BY DEF PinnedInit
  <2>2. /\ file \in Seq(Line \cup {Torn})
        /\ tail \in ({"none", "key", "name"} \X {Torn}) \cup ({"line"} \X Line)
    BY DEF PinnedInit, NoTail
  <2>3. QED BY <2>1, <2>2 DEF PinnedType
<1>2. \A f \in FarEnds : PinsOf(f) = {} /\ trusted[f] = {}
  BY DEF PinnedInit, PinsOf, Lines, NoTail
<1>3. QED BY <1>1, <1>2 DEF PinnedInit, PinnedInv, FilePins, Trusts, Holds

LEMMA BeginHoldKeeps ==
  ASSUME PinnedInv, NEW f \in FarEnds, NEW k \in Keys, BeginHold(f, k) PROVE PinnedInv'
<1>1. UNCHANGED <<file, tail, trusted, joined>>
  BY DEF BeginHold
<1>2. CASE UNCHANGED <<holding, read, pins>>
  BY <1>1, <1>2, FileStill DEF PinnedInv, PinnedType, FilePins, Trusts, Holds, Pinning
<1>3. CASE /\ holding' = {<<f, k, "judge">>} /\ read' = TRUE
           /\ pins' = IF read THEN pins ELSE ReadPins
  <2>1. ASSUME NEW g \in FarEnds, g \notin joined, ~read
        PROVE  /\ trusted[g] # {} => pins'[g] \in trusted[g] \cup {SpoiltKey}
               /\ pins'[g] # NoKey => Pinning(g, pins'[g])
    <3>1. pins'[g] = ReadPins[g]
      BY <1>3, <2>1
    <3>2. CASE PinsOf(g) = {}
      <4>1. \A q : ~Pinning(g, q)
        BY <3>2 DEF Pinning, LastPins
      <4>2. trusted[g] = {} /\ pins'[g] = NoKey
        BY <2>1, <3>1, <3>2, <4>1, ReadsLast DEF PinnedInv, Trusts
      <4>3. QED BY <4>2
    <3>3. ASSUME PinsOf(g) # {}, NEW q \in Keys, Pinning(g, q)
          PROVE  /\ trusted[g] # {} => pins'[g] \in trusted[g] \cup {SpoiltKey}
                 /\ pins'[g] # NoKey => Pinning(g, pins'[g])
      <4>1. PICK r \in {q, SpoiltKey} : LastPins(g, r)
        BY <3>3 DEF Pinning
      <4>2. pins'[g] = r
        BY <3>1, <3>3, <4>1, ReadsLast DEF PinnedInv
      <4>3. ASSUME NEW p \in Keys, trusted[g] = {p}, Pinning(g, p) PROVE r \in {p, SpoiltKey}
        BY <4>1, <4>3, OneLast DEF PinnedInv, Pinning
      <4>4. trusted[g] # {} => r \in trusted[g] \cup {SpoiltKey}
        BY <2>1, <4>3 DEF PinnedInv, Trusts
      <4>5. QED BY <4>1, <4>2, <4>4 DEF Pinning
    <3>4. QED BY <2>1, <3>2, <3>3 DEF PinnedInv, FilePins
  <2>2. \A g \in FarEnds \ joined :
          /\ trusted[g] # {} => pins'[g] \in trusted[g] \cup {SpoiltKey}
          /\ pins'[g] # NoKey => Pinning(g, pins'[g])
    <3>1. CASE read
      BY <1>3, <3>1 DEF PinnedInv, Trusts
    <3>2. CASE ~read
      BY <2>1, <3>2
    <3>3. QED BY <3>1, <3>2
  <2>3. pins' = [g \in FarEnds |-> pins'[g]]
    <3>1. ReadPins = [g \in FarEnds |-> ReadPins[g]]
      BY DEF ReadPins
    <3>2. CASE read
      BY <1>3, <3>2 DEF PinnedInv, PinnedType
    <3>3. CASE ~read
      BY <1>3, <3>1, <3>3
    <3>4. QED BY <3>2, <3>3
  <2>4. PinnedType' /\ FilePins'
    BY <1>1, <1>3, <2>3, FileStill DEF PinnedInv, PinnedType, FilePins, Pinning
  <2>5. Trusts'
    BY <1>1, <1>3, <2>2, FileStill DEF PinnedInv, Trusts, Pinning
  <2>6. Holds'
    BY <1>3 DEF Holds
  <2>7. QED BY <2>4, <2>5, <2>6 DEF PinnedInv
<1>4. QED BY <1>2, <1>3 DEF BeginHold

\* A key accepted as pinned is the one trusted before, if one was.
LEMMA JudgeKeeps ==
  ASSUME PinnedInv, NEW f \in FarEnds, NEW k \in Keys, Judge(f, k) PROVE PinnedInv'
<1>1. UNCHANGED <<file, tail, read, pins, joined>> /\ read
  BY DEF Judge, Hold, PinnedInv, Holds
<1>2. Holds'
  BY <1>1 DEF Judge, Holds
<1>3. CASE pins[f] = k
  <2>1. trusted' = [trusted EXCEPT ![f] = @ \cup {k}]
    BY <1>3 DEF Judge, Accepts
  <2>2. k # NoKey /\ k # SpoiltKey
    BY PinnedAssumption
  <2>3. f \notin joined => trusted'[f] = {k} /\ Pinning(f, k)
    BY <1>1, <1>3, <2>1, <2>2 DEF PinnedInv, Trusts, PinnedType
  <2>4. \A g \in FarEnds : g # f => trusted'[g] = trusted[g]
    BY <2>1 DEF PinnedInv, PinnedType
  <2>5. PinnedType' /\ FilePins'
    BY <1>1, <2>1, FileStill DEF PinnedInv, PinnedType, FilePins, Pinning
  <2>6. Trusts'
    BY <1>1, <1>3, <2>3, <2>4, FileStill DEF PinnedInv, Trusts, Pinning
  <2>7. QED BY <1>2, <2>5, <2>6 DEF PinnedInv
<1>4. CASE pins[f] # k
  <2>1. UNCHANGED trusted
    BY <1>4 DEF Judge
  <2>2. QED BY <1>1, <1>2, <2>1, FileStill
            DEF PinnedInv, PinnedType, FilePins, Trusts, Pinning
<1>5. QED BY <1>3, <1>4

\* Who appends pins a far end nothing was pinned for, so none trusted.
LEMMA NoneTrusted ==
  ASSUME PinnedInv, NEW f \in FarEnds, NEW k \in Keys, Hold(f, k, "append")
  PROVE  read /\ pins[f] = NoKey /\ (f \notin joined => trusted[f] = {})
<1>1. read /\ pins[f] = NoKey
  BY DEF Hold, PinnedInv, Holds
<1>2. NoKey \notin trusted[f] \cup {SpoiltKey}
  BY PinnedAssumption DEF PinnedInv, PinnedType
<1>3. QED BY <1>1, <1>2 DEF PinnedInv, Trusts

\* What is written pins, of the far ends not joined, the one it is for, and
\* leaves the others.
LEMMA WrittenKeeps ==
  ASSUME PinnedInv, NEW f \in FarEnds, NEW k \in Keys,
         \/ Appended(f, k)
         \/ \E far \in {"key", "name", "line"} : PartAppended(f, k, far)
  PROVE  /\ FilePins'
         /\ \A g \in FarEnds \ joined' : g # f =>
              g \notin joined /\ \A q : Pinning(g, q)' <=> Pinning(g, q)
<1>1. \A g \in FarEnds \ joined' : g # f =>
         g \notin joined /\ \A q : Pinning(g, q)' <=> Pinning(g, q)
  BY WrittenPins, SamePins DEF PinnedInv, Pinning
<1>2. ASSUME NEW g \in FarEnds, g \notin joined'
      PROVE  PinsOf(g)' = {} \/ \E q \in Keys : Pinning(g, q)'
  <2>1. g \notin joined /\ (PinsOf(g) = {} \/ \E q \in Keys : Pinning(g, q))
    BY <1>2, WrittenPins DEF PinnedInv, FilePins
  <2>2. CASE SameLines(g)
    BY <2>1, <2>2, SamePins DEF SameLines, Pinning
  <2>3. CASE ~SameLines(g)
    BY <1>2, <2>3, WrittenPins DEF PinnedInv
  <2>4. QED BY <2>2, <2>3
<1>3. QED BY <1>1, <1>2 DEF FilePins

LEMMA AppendPinKeeps ==
  ASSUME PinnedInv, NEW f \in FarEnds, NEW k \in Keys, AppendPin(f, k) PROVE PinnedInv'
<1>1. /\ Hold(f, k, "append") /\ Appended(f, k) /\ holding' = {} /\ read' = read
      /\ pins' = [pins EXCEPT ![f] = k] /\ trusted' = [trusted EXCEPT ![f] = @ \cup {k}]
  BY DEF AppendPin, Accepts
<1>2. /\ pins'[f] = k /\ (f \notin joined => trusted'[f] = {k})
      /\ \A g \in FarEnds : g # f => pins'[g] = pins[g] /\ trusted'[g] = trusted[g]
  BY <1>1, NoneTrusted DEF PinnedInv, PinnedType
<1>3. PinnedType' /\ FilePins'
  <2>1. pins' = [g \in FarEnds |-> pins'[g]] /\ trusted' \in [FarEnds -> SUBSET Keys]
    BY <1>1 DEF PinnedInv, PinnedType
  <2>2. QED BY <1>1, <2>1, WrittenPins, WrittenKeeps DEF PinnedInv, PinnedType
<1>4. ASSUME NEW g \in FarEnds, g \notin joined'
      PROVE  /\ trusted'[g] = {} \/ \E q \in Keys : trusted'[g] = {q} /\ Pinning(g, q)'
             /\ read' /\ trusted'[g] # {} => pins'[g] \in trusted'[g] \cup {SpoiltKey}
             /\ read' /\ pins'[g] # NoKey => \E q : q = pins'[g] /\ Pinning(g, q)'
  <2>1. CASE g = f
    <3>1. Pinning(f, k)' /\ f \notin joined
      BY <1>1, <1>4, <2>1, WrittenPins DEF PinnedInv
    <3>2. QED BY <1>2, <2>1, <3>1
  <2>2. CASE g # f
    <3>1. g \notin joined /\ \A q : Pinning(g, q)' <=> Pinning(g, q)
      BY <1>1, <1>4, <2>2, WrittenKeeps
    <3>2. /\ trusted[g] = {} \/ \E q \in Keys : trusted[g] = {q} /\ Pinning(g, q)
          /\ read /\ trusted[g] # {} => pins[g] \in trusted[g] \cup {SpoiltKey}
          /\ read /\ pins[g] # NoKey => \E q : q = pins[g] /\ Pinning(g, q)
      BY <3>1 DEF PinnedInv, Trusts
    <3>3. pins'[g] = pins[g] /\ trusted'[g] = trusted[g] /\ read' = read
      BY <1>1, <1>2, <2>2
    <3>4. QED BY <3>1, <3>2, <3>3
  <2>3. QED BY <2>1, <2>2
<1>5. Trusts'
  BY <1>4 DEF Trusts, Pinning, LastPins
<1>6. QED BY <1>1, <1>3, <1>5 DEF PinnedInv, Holds

\* A far end none was trusted for may be pinned by a line whose hold failed:
\* nothing is accepted, and the next hold reads or appends another line.
LEMMA AppendFailsKeeps ==
  ASSUME PinnedInv, NEW f \in FarEnds, NEW k \in Keys, AppendFails(f, k) PROVE PinnedInv'
<1>1. Hold(f, k, "append") /\ holding' = {} /\ UNCHANGED <<read, pins, trusted>>
  BY DEF AppendFails
<1>2. CASE UNCHANGED <<file, tail, joined>>
  BY <1>1, <1>2, FileStill DEF PinnedInv, PinnedType, FilePins, Trusts, Holds, Pinning
<1>3. CASE \/ Appended(f, k)
           \/ \E far \in {"key", "name", "line"} : PartAppended(f, k, far)
  <2>1. PinnedType' /\ FilePins'
    BY <1>1, <1>3, WrittenPins, WrittenKeeps DEF PinnedInv, PinnedType
  <2>2. ASSUME NEW g \in FarEnds, g \notin joined'
        PROVE  /\ trusted[g] = {} \/ \E q \in Keys : trusted[g] = {q} /\ Pinning(g, q)'
               /\ read /\ trusted[g] # {} => pins[g] \in trusted[g] \cup {SpoiltKey}
               /\ read /\ pins[g] # NoKey => \E q : q = pins[g] /\ Pinning(g, q)'
    <3>1. g \notin joined
      BY <1>3, <2>2, WrittenPins DEF PinnedInv
    <3>2. CASE g = f
      BY <1>1, <3>1, <3>2, NoneTrusted
    <3>3. CASE g # f
      <4>1. \A q : Pinning(g, q)' <=> Pinning(g, q)
        BY <1>3, <2>2, <3>3, WrittenKeeps
      <4>2. /\ trusted[g] = {} \/ \E q \in Keys : trusted[g] = {q} /\ Pinning(g, q)
            /\ read /\ trusted[g] # {} => pins[g] \in trusted[g] \cup {SpoiltKey}
            /\ read /\ pins[g] # NoKey => \E q : q = pins[g] /\ Pinning(g, q)
        BY <3>1 DEF PinnedInv, Trusts
      <4>3. QED BY <4>1, <4>2
    <3>4. QED BY <3>2, <3>3
  <2>3. Trusts'
    BY <1>1, <2>2 DEF Trusts, Pinning, LastPins
  <2>4. QED BY <1>1, <2>1, <2>3 DEF PinnedInv, Holds
<1>4. QED BY <1>2, <1>3 DEF AppendFails

LEMMA RestartKeeps == ASSUME PinnedInv, Restart PROVE PinnedInv'
<1>1. /\ read' = FALSE /\ pins' = [f \in FarEnds |-> NoKey] /\ holding' = {}
      /\ UNCHANGED <<file, tail, trusted, joined>>
  BY DEF Restart
<1>2. PinnedType' /\ Holds'
  BY <1>1 DEF PinnedInv, PinnedType, Holds
<1>3. FilePins' /\ Trusts'
  BY <1>1, FileStill DEF PinnedInv, FilePins, Trusts, Pinning
<1>4. QED BY <1>2, <1>3 DEF PinnedInv

LEMMA PinnedKeeps == ASSUME PinnedInv, [PinnedNext]_pinnedVars PROVE PinnedInv'
<1>1. ASSUME NEW f \in FarEnds, NEW k \in Keys,
             BeginHold(f, k) \/ Judge(f, k) \/ AppendPin(f, k) \/ AppendFails(f, k)
      PROVE  PinnedInv'
  BY <1>1, BeginHoldKeeps, JudgeKeeps, AppendPinKeeps, AppendFailsKeeps
<1>2. CASE Restart
  BY <1>2, RestartKeeps
<1>3. CASE UNCHANGED pinnedVars
  BY <1>3, FileStill
  DEF pinnedVars, PinnedInv, PinnedType, FilePins, Trusts, Holds, Pinning
<1>4. QED BY <1>1, <1>2, <1>3 DEF PinnedNext

\* A far end held to its key on first contact is held to it for good, over
\* every failed append, death and restart, unless its line became one with
\* another's (Pinned::hold).
THEOREM KeyIsForGood == PinnedSpec => []OneKeyUnlessJoined
<1>1. PinnedInit => PinnedInv
  BY PinnedStarts
<1>2. PinnedInv /\ [PinnedNext]_pinnedVars => PinnedInv'
  BY PinnedKeeps
<1>3. PinnedInv => OneKeyUnlessJoined
  <2> SUFFICES ASSUME PinnedInv, NEW f \in FarEnds, f \notin joined
               PROVE  Cardinality(trusted[f]) <= 1
    BY DEF OneKeyUnlessJoined
  <2>1. CASE trusted[f] = {}
    <3>1. Cardinality(trusted[f]) = 0
      BY <2>1, FS_EmptySet
    <3>2. QED BY <3>1
  <2>2. ASSUME NEW k \in Keys, trusted[f] = {k} PROVE Cardinality(trusted[f]) <= 1
    <3>1. Cardinality({k}) = 1
      BY FS_Singleton
    <3>2. QED BY <2>2, <3>1
  <2>3. QED BY <2>1, <2>2 DEF PinnedInv, Trusts
<1>4. QED BY <1>1, <1>2, <1>3, PTL DEF PinnedSpec

=============================================================================
