--------------------------- MODULE ReceivesProofs ---------------------------
(***************************************************************************)
(* What is proved of the receiving side's smaller parts, each for every    *)
(* value of its constants: the place of an ordered log, the group settled  *)
(* together, the listener bound once, and the store without a lock.        *)
(***************************************************************************)
EXTENDS Contiguous, Together, Listener, Store, TLAPS, FiniteSetTheorems

-----------------------------------------------------------------------------
(* The ordered log: the place never passes a record that was neither       *)
(* accepted nor refused for good.                                          *)

\* How far verdicts may move the place, and what is known of what it passed.
ContiguousInv == ContiguousTypeOK /\ NeverSkips

LEMMA ContiguousStarts == ContiguousInit => ContiguousInv
BY ContiguousAssumption DEF ContiguousInit, ContiguousInv, ContiguousTypeOK, NeverSkips, Log

\* Setting the place forgets what it had passed.
LEMMA SetPlaceKeeps == ASSUME ContiguousInv, SetPlace PROVE ContiguousInv'
BY ContiguousAssumption DEF ContiguousInv, ContiguousTypeOK, NeverSkips, SetPlace, Log

LEMMA LookAtKeeps == ASSUME ContiguousInv, LookAt PROVE ContiguousInv'
BY DEF ContiguousInv, ContiguousTypeOK, NeverSkips, LookAt

LEMMA ReadOnKeeps == ASSUME ContiguousInv, NEW n \in 1..MostRead, ReadOn(n) PROVE ContiguousInv'
<1>1. UNCHANGED <<place, began, ended, undone, sets>> /\ reading' = {}
  BY DEF ReadOn
<1>2. out' \in [Log -> Nat]
  BY DEF ContiguousInv, ContiguousTypeOK, ReadOn
<1>3. QED BY <1>1, <1>2 DEF ContiguousInv, ContiguousTypeOK, NeverSkips

\* A verdict moves the place over its own record only, which it ends.
LEMMA TellRecordKeeps ==
  ASSUME ContiguousInv, NEW r \in Log, NEW verdict \in {"accepted", "refused", "failed"},
         TellRecord(r, verdict)
  PROVE  ContiguousInv'
<1>1. out' \in [Log -> Nat] /\ UNCHANGED <<reading, began, sets>> /\ undone' \in Nat
  BY DEF ContiguousInv, ContiguousTypeOK, TellRecord
<1>2. ended' \in SUBSET Log /\ ended \subseteq ended'
  BY DEF ContiguousInv, ContiguousTypeOK, TellRecord
<1>3. r \in Nat /\ 1 <= r /\ r <= Records /\ place \in Nat /\ began \in Nat
  BY ContiguousAssumption DEF ContiguousInv, ContiguousTypeOK, Log
<1>4. CASE place' = place
  BY <1>1, <1>2, <1>4 DEF ContiguousInv, ContiguousTypeOK, NeverSkips
<1>5. CASE place' # place
  <2>1. place = r - 1 /\ place' = r /\ r \in ended'
    BY <1>5, <1>3 DEF TellRecord, Advances, Advance
  <2>2. ContiguousTypeOK'
    BY <2>1, <1>1, <1>2, <1>3, ContiguousAssumption DEF ContiguousInv, ContiguousTypeOK
  <2>3. ASSUME NEW q \in Log, began' < q, q <= place' PROVE q \in ended'
    <3>1. q \in Nat /\ began < q /\ (q <= place \/ q = r)
      BY <2>1, <2>3, <1>1, <1>3, ContiguousAssumption DEF Log
    <3>2. QED BY <3>1, <2>1, <1>2 DEF ContiguousInv, NeverSkips
  <2>4. QED BY <2>2, <2>3 DEF ContiguousInv, NeverSkips
<1>6. QED BY <1>4, <1>5

LEMMA DropRecordKeeps == ASSUME ContiguousInv, NEW r \in Log, DropRecord(r) PROVE ContiguousInv'
BY DEF ContiguousInv, ContiguousTypeOK, NeverSkips, DropRecord

\* The place stands only past records accepted or refused for good: whatever
\* is out twice, told out of order, failed or dropped (contiguous.rs).
THEOREM PlaceNeverSkips == ContiguousSpec => []NeverSkips
<1>1. ContiguousInv /\ [ContiguousNext]_contiguousVars => ContiguousInv'
  <2> SUFFICES ASSUME ContiguousInv, [ContiguousNext]_contiguousVars PROVE ContiguousInv'
    OBVIOUS
  <2>1. CASE ContiguousNext
    BY <2>1, SetPlaceKeeps, LookAtKeeps, ReadOnKeeps, TellRecordKeeps, DropRecordKeeps
       DEF ContiguousNext, Reads, Verdict
  <2>2. CASE UNCHANGED contiguousVars
    BY <2>2 DEF contiguousVars, ContiguousInv, ContiguousTypeOK, NeverSkips
  <2>3. QED BY <2>1, <2>2
<1>2. ContiguousInv => NeverSkips
  BY DEF ContiguousInv
<1>3. QED BY ContiguousStarts, <1>1, <1>2, PTL DEF ContiguousSpec

-----------------------------------------------------------------------------
(* The group: settled once at most, by the last verdict counted.           *)

\* The arrivals not counted yet.
Pending == {at \in Group : stage[at] \in {"held", "each", "count"}}

\* The tally counts them; what was counted was counted as it came; and once
\* one arrival is to settle, it is the only one, nothing is left, and nothing
\* was settled before it.
TogetherInv ==
  /\ TogetherTypeOK
  /\ left = Cardinality(Pending)
  /\ \A at \in Group : stage[at] \in {"settle", "over"} => verdicts[at] = given[at]
  /\ \A at \in Group : stage[at] = "settle" =>
       /\ left = 0 /\ settled = <<>>
       /\ \A other \in Group : stage[other] = "settle" => other = at
  /\ settled # <<>> =>
       /\ left = 0 /\ Len(settled) = 1 /\ settled[1] = given
       /\ \A at \in Group : stage[at] # "settle"

LEMMA GroupFinite == IsFiniteSet(Group) /\ Cardinality(Group) = Count
BY TogetherAssumption, FS_Interval DEF Group

LEMMA PendingFinite == IsFiniteSet(Pending) /\ Cardinality(Pending) \in Nat
BY GroupFinite, FS_Subset, FS_CardinalityType DEF Pending

\* Whoever is not counted yet is counted still: nothing was settled.
LEMMA NotYet ==
  ASSUME TogetherInv, NEW at \in Pending
  PROVE  /\ left \in Nat \ {0} /\ settled = <<>>
         /\ \A other \in Group : stage[other] # "settle"
<1>1. Pending # {}
  OBVIOUS
<1>2. left \in Nat \ {0}
  BY <1>1, PendingFinite, FS_EmptySet DEF TogetherInv
<1>3. QED BY <1>2 DEF TogetherInv

LEMMA TogetherStarts == TogetherInit => TogetherInv
<1> SUFFICES ASSUME TogetherInit PROVE TogetherInv
  OBVIOUS
<1>1. Pending = Group
  BY DEF TogetherInit, Pending
<1>2. TogetherTypeOK
  BY TogetherAssumption DEF TogetherInit, TogetherTypeOK, Stages, Verdicts, Told
<1>3. QED BY <1>1, <1>2, GroupFinite DEF TogetherInit, TogetherInv

\* A step of an arrival that stays uncounted keeps the tally.
LEMMA UncountedKeeps ==
  ASSUME TogetherInv, NEW at \in Pending, NEW to \in {"each", "count"},
         stage' = [stage EXCEPT ![at] = to],
         given' = [given EXCEPT ![at] = given'[at]], given'[at] \in Verdicts,
         UNCHANGED <<verdicts, left, settle, settled>>
  PROVE  TogetherInv'
<1>1. at \in Group
  BY DEF Pending
<1>2. TogetherTypeOK'
  BY <1>1 DEF TogetherInv, TogetherTypeOK, Stages
<1>3. Pending' = Pending
  BY <1>1 DEF Pending, TogetherInv, TogetherTypeOK
<1>4. \A other \in Group : other # at => stage'[other] = stage[other] /\ given'[other] = given[other]
  BY <1>1 DEF TogetherInv, TogetherTypeOK
<1>5. stage'[at] = to
  BY <1>1 DEF TogetherInv, TogetherTypeOK
<1>6. QED BY <1>2, <1>3, <1>4, <1>5, NotYet DEF TogetherInv

LEMMA CountedKeeps == ASSUME TogetherInv, NEW at \in Group, Counted(at) PROVE TogetherInv'
<1>1. at \in Pending
  BY DEF Counted, Pending
<1>2. /\ left \in Nat \ {0} /\ settled = <<>>
      /\ \A other \in Group : stage[other] # "settle"
  BY <1>1, NotYet
<1>3. /\ left' = left - 1 /\ UNCHANGED <<given, settled>>
      /\ stage' = [stage EXCEPT ![at] = IF left = 1 THEN "settle" ELSE "over"]
      /\ verdicts' = [verdicts EXCEPT ![at] = given[at]]
  BY DEF Counted, IsLast
<1>4. TogetherTypeOK'
  BY <1>2, <1>3, TogetherAssumption DEF TogetherInv, TogetherTypeOK, Counted, IsLast, Stages
<1>5. Pending' = Pending \ {at}
  BY <1>3 DEF Pending, TogetherInv, TogetherTypeOK
<1>6. left' = Cardinality(Pending')
  BY <1>1, <1>3, <1>5, PendingFinite, FS_RemoveElement DEF TogetherInv
<1>7. \A other \in Group : other # at =>
        stage'[other] = stage[other] /\ verdicts'[other] = verdicts[other]
  BY <1>3 DEF TogetherInv, TogetherTypeOK
<1>8. /\ verdicts'[at] = given[at]
      /\ stage'[at] = IF left = 1 THEN "settle" ELSE "over"
  BY <1>3 DEF TogetherInv, TogetherTypeOK
<1>9. \A other \in Group : stage'[other] = "settle" => other = at /\ left' = 0
  BY <1>2, <1>3, <1>7, <1>8
<1>10. \A other \in Group : stage'[other] \in {"settle", "over"} => verdicts'[other] = given'[other]
  BY <1>3, <1>7, <1>8 DEF TogetherInv
<1>11. QED BY <1>2, <1>3, <1>4, <1>6, <1>9, <1>10 DEF TogetherInv

LEMMA SettlesKeeps == ASSUME TogetherInv, NEW at \in Group, Settles(at) PROVE TogetherInv'
<1>1. /\ stage[at] = "settle" /\ stage' = [stage EXCEPT ![at] = "over"]
      /\ settled' = Append(settled, verdicts)
      /\ UNCHANGED <<given, verdicts, left, settle>>
  BY DEF Settles, Goes
<1>2. /\ left = 0 /\ settled = <<>>
      /\ \A other \in Group : stage[other] = "settle" => other = at
  BY <1>1 DEF TogetherInv
<1>3. Pending = {}
  BY <1>2, PendingFinite, FS_EmptySet DEF TogetherInv
<1>4. \A other \in Group : stage[other] \in {"settle", "over"}
  BY <1>3 DEF Pending, TogetherInv, TogetherTypeOK, Stages
<1>5. verdicts = given
  BY <1>4 DEF TogetherInv, TogetherTypeOK
<1>6. settled' = <<given>> /\ Len(settled') = 1 /\ settled'[1] = given'
  BY <1>1, <1>2, <1>5 DEF TogetherInv, TogetherTypeOK
<1>7. TogetherTypeOK'
  BY <1>1, <1>6 DEF TogetherInv, TogetherTypeOK, Stages
<1>8. \A other \in Group : stage'[other] = "over"
  BY <1>1, <1>2, <1>4 DEF TogetherInv, TogetherTypeOK
<1>9. Pending' = {}
  BY <1>8 DEF Pending
<1>10. left' = Cardinality(Pending')
  BY <1>1, <1>2, <1>9, FS_EmptySet
<1>11. QED BY <1>1, <1>2, <1>5, <1>6, <1>7, <1>8, <1>10 DEF TogetherInv

LEMMA TogetherKeeps == ASSUME TogetherInv, TogetherNext PROVE TogetherInv'
<1> PICK at \in Group : (\E verdict \in Told : TellOne(at, verdict)) \/ DropOne(at) \/ Carries(at)
  BY DEF TogetherNext
<1>1. given[at] \in Verdicts /\ given = [given EXCEPT ![at] = given[at]]
  BY DEF TogetherInv, TogetherTypeOK
<1>2. ASSUME NEW verdict \in Told, TellOne(at, verdict) PROVE TogetherInv'
  <2>1. at \in Pending /\ verdict \in Verdicts
    BY <1>2 DEF TellOne, Goes, Pending, Verdicts
  <2>2. given' = [given EXCEPT ![at] = verdict] /\ given'[at] = verdict
    BY <1>2 DEF TellOne, TogetherInv, TogetherTypeOK
  <2>3. QED BY <1>2, <2>1, <2>2, UncountedKeeps DEF TellOne, Goes
<1>3. CASE DropOne(at)
  <2>1. at \in Pending
    BY <1>3 DEF DropOne, Goes, Pending
  <2>2. QED BY <1>3, <2>1, <1>1, UncountedKeeps DEF DropOne, Goes
<1>4. CASE EachRuns(at)
  <2>1. at \in Pending
    BY <1>4 DEF EachRuns, Goes, Pending
  <2>2. QED BY <1>4, <2>1, <1>1, UncountedKeeps DEF EachRuns, Goes
<1>5. CASE EachPanics(at)
  <2>1. at \in Pending /\ "none" \in Verdicts
    BY <1>5 DEF EachPanics, Goes, Pending, Verdicts
  <2>2. given' = [given EXCEPT ![at] = "none"] /\ given'[at] = "none"
    BY <1>5 DEF EachPanics, TogetherInv, TogetherTypeOK
  <2>3. QED BY <1>5, <2>1, <2>2, UncountedKeeps DEF EachPanics, Goes
<1>6. QED BY <1>2, <1>3, <1>4, <1>5, CountedKeeps, SettlesKeeps DEF Carries

\* A group is settled once at most, after the last of its arrivals has its
\* verdict or was dropped, with exactly what each came to (together.rs).
THEOREM SettledOnce == TogetherSpec => []SettledAfterTheLast
<1>1. TogetherInv /\ [TogetherNext]_togetherVars => TogetherInv'
  <2>1. CASE UNCHANGED togetherVars
    BY <2>1 DEF togetherVars, TogetherInv, TogetherTypeOK, Pending
  <2>2. QED BY <2>1, TogetherKeeps
<1>2. TogetherInv => SettledAfterTheLast
  <2> SUFFICES ASSUME TogetherInv PROVE SettledAfterTheLast
    OBVIOUS
  <2>1. CASE settled = <<>>
    BY <2>1 DEF SettledAfterTheLast
  <2>2. CASE settled # <<>>
    <3>1. Pending = {}
      BY <2>2, PendingFinite, FS_EmptySet DEF TogetherInv
    <3>2. \A at \in Group : stage[at] = "over"
      BY <2>2, <3>1 DEF Pending, TogetherInv, TogetherTypeOK, Stages
    <3>3. Len(settled) = 1 /\ settled[1] = given
      BY <2>2 DEF TogetherInv
    <3>4. Len(settled) <= 1
      BY <3>3
    <3>5. QED BY <3>2, <3>3, <3>4 DEF SettledAfterTheLast
  <2>3. QED BY <2>1, <2>2
<1>3. QED BY TogetherStarts, <1>1, <1>2, PTL DEF TogetherSpec

-----------------------------------------------------------------------------
(* The listener: bound once.                                               *)

Standings == {"idle", "lock", "again", "bind", "keep", "bound", "accept", "try", "ready",
           "back", "greet", "handshake", "content"}

\* Where a receive stands while it has the binding's turn.
Turn == {"again", "bind", "keep"}

KeptType ==
  /\ binds \in Nat /\ bound \in BOOLEAN
  /\ binding \in SUBSET Receives /\ recv \in [Receives -> Standings]

\* The turn is one receive's, and whose it is stands in it; what is bound is
\* kept, or about to be by the one in turn, who binds only where nothing is.
ListenerInv ==
  /\ KeptType
  /\ \A r \in Receives : recv[r] \in Turn <=> r \in binding
  /\ \A r, q \in binding : r = q
  /\ bound => \A r \in Receives : recv[r] \notin {"bind", "keep"}
  /\ binds = IF bound \/ \E r \in Receives : recv[r] = "keep" THEN 1 ELSE 0

LEMMA ListenerStarts == ListenerInit => ListenerInv
<1> SUFFICES ASSUME ListenerInit PROVE ListenerInv
  OBVIOUS
<1>1. KeptType /\ binds = 0 /\ ~bound /\ binding = {}
  BY DEF ListenerInit, KeptType, Standings
<1>2. \A r \in Receives : recv[r] = "idle"
  BY DEF ListenerInit
<1>3. QED BY <1>1, <1>2 DEF ListenerInv, Turn

\* A receive that goes from outside the turn to outside it changes nothing here.
LEMMA OutsideKeeps ==
  ASSUME ListenerInv, NEW r \in Receives, NEW to \in Standings \ Turn, recv[r] \notin Turn,
         recv' = [recv EXCEPT ![r] = to], UNCHANGED <<binds, bound, binding>>
  PROVE  ListenerInv'
<1>1. KeptType'
  BY DEF ListenerInv, KeptType
<1>2. \A q \in Receives : recv'[q] = IF q = r THEN to ELSE recv[q]
  BY DEF ListenerInv, KeptType
<1>3. \A q \in Receives : /\ recv'[q] \in Turn <=> recv[q] \in Turn
                          /\ recv'[q] = "keep" <=> recv[q] = "keep"
                          /\ recv'[q] = "bind" <=> recv[q] = "bind"
  BY <1>2 DEF Turn
<1>4. QED BY <1>1, <1>3 DEF ListenerInv

LEMMA ListenerStill == ASSUME ListenerInv, UNCHANGED <<binds, bound, binding, recv>> PROVE ListenerInv'
BY DEF ListenerInv, KeptType

LEMMA FindBoundKeeps == ASSUME ListenerInv, NEW r \in Receives, FindBound(r) PROVE ListenerInv'
<1>1. recv[r] \notin Turn
  BY DEF FindBound, Turn
<1>2. UNCHANGED <<binds, bound, binding>>
  BY DEF FindBound, keptOf
<1>3. CASE bound
  BY <1>1, <1>2, <1>3, OutsideKeeps DEF FindBound, Standings, Turn
<1>4. CASE ~bound
  BY <1>1, <1>2, <1>4, OutsideKeeps DEF FindBound, Standings, Turn
<1>5. QED BY <1>3, <1>4

LEMMA LockBindingKeeps == ASSUME ListenerInv, NEW r \in Receives, LockBinding(r) PROVE ListenerInv'
<1>1. /\ recv[r] = "lock" /\ recv' = [recv EXCEPT ![r] = "again"]
      /\ binding = {} /\ binding' = {r} /\ UNCHANGED <<binds, bound>>
  BY DEF LockBinding, Recv, Unheld
<1>2. KeptType'
  BY <1>1 DEF ListenerInv, KeptType, Standings
<1>3. \A q \in Receives : recv'[q] = IF q = r THEN "again" ELSE recv[q]
  BY <1>1 DEF ListenerInv, KeptType
<1>4. \A q \in Receives : recv[q] \notin Turn
  BY <1>1 DEF ListenerInv
<1>5. QED BY <1>1, <1>2, <1>3, <1>4 DEF ListenerInv, Turn

LEMMA LookAgainKeeps == ASSUME ListenerInv, NEW r \in Receives, LookAgain(r) PROVE ListenerInv'
<1>1. /\ recv[r] = "again" /\ r \in binding /\ UNCHANGED <<binds, bound>>
      /\ recv' = [recv EXCEPT ![r] = IF bound THEN "bound" ELSE "bind"]
      /\ binding' = IF bound THEN binding \ {r} ELSE binding
  BY DEF LookAgain, FoundBound, ListenerInv, Turn
<1>2. KeptType'
  BY <1>1 DEF ListenerInv, KeptType, Standings
<1>3. \A q \in Receives :
        recv'[q] = IF q = r THEN (IF bound THEN "bound" ELSE "bind") ELSE recv[q]
  BY <1>1 DEF ListenerInv, KeptType
<1>4. \A q \in Receives : recv'[q] = "keep" <=> recv[q] = "keep"
  BY <1>1, <1>3
<1>5. QED BY <1>1, <1>2, <1>3, <1>4 DEF ListenerInv, Turn

\* Nobody but the one in turn binds, or keeps what was bound.
LEMMA OneInTurn ==
  ASSUME ListenerInv, NEW r \in binding
  PROVE  \A q \in Receives : q # r => recv[q] \notin Turn
BY DEF ListenerInv

LEMMA BindNowKeeps == ASSUME ListenerInv, NEW r \in Receives, BindNow(r) PROVE ListenerInv'
<1>1. /\ recv[r] = "bind" /\ recv' = [recv EXCEPT ![r] = "keep"] /\ r \in binding
      /\ binds' = binds + 1 /\ UNCHANGED <<bound, binding>>
  BY DEF BindNow, Recv, ListenerInv, Turn
<1>2. ~bound /\ binds = 0
  BY <1>1, OneInTurn DEF ListenerInv, Turn
<1>3. KeptType' /\ \A q \in Receives : recv'[q] = IF q = r THEN "keep" ELSE recv[q]
  BY <1>1 DEF ListenerInv, KeptType, Standings
<1>4. QED BY <1>1, <1>2, <1>3 DEF ListenerInv, Turn

LEMMA BindFailsKeeps == ASSUME ListenerInv, NEW r \in Receives, BindFails(r) PROVE ListenerInv'
<1>1. /\ recv[r] = "bind" /\ recv' = [recv EXCEPT ![r] = "idle"] /\ r \in binding
      /\ binding' = binding \ {r} /\ UNCHANGED <<binds, bound>>
  BY DEF BindFails, Recv, ListenerInv, Turn
<1>2. KeptType' /\ \A q \in Receives : recv'[q] = IF q = r THEN "idle" ELSE recv[q]
  BY <1>1 DEF ListenerInv, KeptType, Standings
<1>3. \A q \in Receives : recv'[q] = "keep" <=> recv[q] = "keep"
  BY <1>1, <1>2
<1>4. QED BY <1>1, <1>2, <1>3 DEF ListenerInv, Turn

LEMMA KeepBoundKeeps == ASSUME ListenerInv, NEW r \in Receives, KeepBound(r) PROVE ListenerInv'
<1>1. /\ recv[r] = "keep" /\ recv' = [recv EXCEPT ![r] = "bound"] /\ r \in binding
      /\ bound' = TRUE /\ binding' = binding \ {r} /\ UNCHANGED binds
  BY DEF KeepBound, Recv, ListenerInv, Turn
<1>2. KeptType' /\ \A q \in Receives : recv'[q] = IF q = r THEN "bound" ELSE recv[q]
  BY <1>1 DEF ListenerInv, KeptType, Standings
<1>3. binds = 1
  BY <1>1 DEF ListenerInv
<1>4. QED BY <1>1, <1>2, <1>3, OneInTurn DEF ListenerInv, Turn

LEMMA AcceptKeeps == ASSUME ListenerInv, NEW r \in Receives, AcceptWithin(r) PROVE ListenerInv'
<1>1. UNCHANGED <<binds, bound, binding>> /\ recv[r] \in {"bound", "try", "ready", "back", "accept"}
  BY DEF AcceptWithin, BeginAccept, TryAccept, WaitReady, HandBack, JustAccept, keptOf
<1>2. \E to \in Standings \ Turn : recv' = [recv EXCEPT ![r] = to]
  <2>1. CASE BeginAccept(r)
    BY <2>1 DEF BeginAccept, Standings, Turn
  <2>2. CASE TryAccept(r)
    BY <2>2 DEF TryAccept, Standings, Turn
  <2>3. CASE WaitReady(r)
    BY <2>3 DEF WaitReady, Standings, Turn
  <2>4. CASE HandBack(r)
    BY <2>4 DEF HandBack, Standings, Turn
  <2>5. CASE JustAccept(r)
    BY <2>5 DEF JustAccept, Standings, Turn
  <2>6. QED BY <2>1, <2>2, <2>3, <2>4, <2>5 DEF AcceptWithin
<1>3. QED BY <1>1, <1>2, OutsideKeeps DEF Turn

LEMMA AnsweredKeeps == ASSUME ListenerInv, NEW r \in Receives, Answered(r) PROVE ListenerInv'
<1>1. UNCHANGED <<binds, bound, binding>> /\ recv[r] \in {"greet", "handshake", "content"}
  BY DEF Answered, Greet, Handshaken, ReadContent, Recv, keptOf
<1>2. \E to \in Standings \ Turn : recv' = [recv EXCEPT ![r] = to]
  BY DEF Answered, Greet, Handshaken, ReadContent, Recv, Standings, Turn
<1>3. QED BY <1>1, <1>2, OutsideKeeps DEF Turn

\* One listener is bound, however many receives race to bind it and whatever
\* binds failed before (kept.rs: "bound once").
THEOREM OneListener == ListenerSpec => []BoundOnce
<1>1. ListenerInv /\ [ListenerNext]_listenerVars => ListenerInv'
  <2> SUFFICES ASSUME ListenerInv, [ListenerNext]_listenerVars PROVE ListenerInv'
    OBVIOUS
  <2>1. CASE PeerConnects \/ PeerVanishes
    BY <2>1, ListenerStill DEF PeerConnects, PeerVanishes, keptOf
  <2>2. ASSUME NEW r \in Receives, KeptBound(r) PROVE ListenerInv'
    BY <2>2, FindBoundKeeps, LockBindingKeeps, LookAgainKeeps, BindNowKeeps, BindFailsKeeps,
       KeepBoundKeeps DEF KeptBound, Binds
  <2>3. ASSUME NEW r \in Receives, Expire(r) PROVE ListenerInv'
    BY <2>3, ListenerStill DEF Expire, keptOf
  <2>4. CASE UNCHANGED listenerVars
    BY <2>4, ListenerStill DEF listenerVars
  <2>5. QED BY <2>1, <2>2, <2>3, <2>4, AcceptKeeps, AnsweredKeeps DEF ListenerNext
<1>2. ListenerInv => BoundOnce
  BY DEF ListenerInv, KeptType, BoundOnce
<1>3. QED BY ListenerStarts, <1>1, <1>2, PTL DEF ListenerSpec

\* The listener is non-blocking only while a bounded accept is at it, and a
\* connection goes on with the Location's wait from when it is settled, but for
\* its handshake.
ModeKept ==
  /\ recv \in [Receives -> Standings]
  /\ wait \in [Receives -> {"none", "accepted", "location", "guard"}]
  /\ blocking \in BOOLEAN /\ unset \in BOOLEAN
  /\ ~blocking /\ ~unset => \E r \in Receives : recv[r] \in {"try", "ready", "back"}
  /\ \A r \in Receives : recv[r] \in {"greet", "content"} => wait[r] = "location"

\* A receive that does not accept, or goes on accepting, leaves the mode to
\* whoever set it; what it goes to read is read under the Location's wait.
LEMMA ModeStays ==
  ASSUME ModeKept, NEW r \in Receives, NEW to \in Standings,
         NEW under \in {"none", "accepted", "location", "guard"},
         recv' = [recv EXCEPT ![r] = to], wait' = [wait EXCEPT ![r] = under],
         recv[r] \in {"try", "ready", "back"} => to \in {"try", "ready", "back"},
         to \in {"greet", "content"} => under = "location",
         UNCHANGED <<blocking, unset>>
  PROVE  ModeKept'
<1>1. /\ recv' \in [Receives -> Standings]
      /\ wait' \in [Receives -> {"none", "accepted", "location", "guard"}]
  BY DEF ModeKept
<1>2. \A q \in Receives : /\ recv'[q] = IF q = r THEN to ELSE recv[q]
                          /\ wait'[q] = IF q = r THEN under ELSE wait[q]
  BY DEF ModeKept
<1>3. \A q \in Receives : recv[q] \in {"try", "ready", "back"} => recv'[q] \in {"try", "ready", "back"}
  BY <1>2
<1>4. \A q \in Receives : recv'[q] \in {"greet", "content"} => wait'[q] = "location"
  BY <1>2 DEF ModeKept
<1>5. QED BY <1>1, <1>3, <1>4 DEF ModeKept

LEMMA ModeStill == ASSUME ModeKept, UNCHANGED <<recv, wait, blocking, unset>> PROVE ModeKept'
BY DEF ModeKept

\* What a step that leaves the wait of a receive leaves it as.
LEMMA WaitIs ==
  ASSUME ModeKept, NEW r \in Receives
  PROVE  /\ wait[r] \in {"none", "accepted", "location", "guard"}
         /\ wait = [wait EXCEPT ![r] = wait[r]]
         /\ recv[r] \in {"greet", "content"} => wait[r] = "location"
BY DEF ModeKept

LEMMA KeptBoundMode == ASSUME ModeKept, NEW r \in Receives, KeptBound(r) PROVE ModeKept'
<1>1. CASE FindBound(r)
  <2>1. /\ recv[r] = "idle" /\ UNCHANGED <<blocking, unset>> /\ wait' = [wait EXCEPT ![r] = "none"]
        /\ recv' = [recv EXCEPT ![r] = IF bound THEN "bound" ELSE "lock"]
    BY <1>1 DEF FindBound, modeOf
  <2>2. (IF bound THEN "bound" ELSE "lock") \in Standings \ {"greet", "content"}
    BY DEF Standings
  <2>3. QED BY <2>1, <2>2, ModeStays
<1>2. CASE LockBinding(r)
  BY <1>2, WaitIs, ModeStays DEF LockBinding, Recv, acceptOf, Standings
<1>3. CASE LookAgain(r)
  <2>1. /\ recv[r] = "again" /\ UNCHANGED <<wait, blocking, unset>>
        /\ recv' = [recv EXCEPT ![r] = IF bound THEN "bound" ELSE "bind"]
    BY <1>3 DEF LookAgain, FoundBound, acceptOf
  <2>2. (IF bound THEN "bound" ELSE "bind") \in Standings \ {"greet", "content"}
    BY DEF Standings
  <2>3. QED BY <2>1, <2>2, WaitIs, ModeStays
<1>4. CASE BindNow(r)
  BY <1>4, WaitIs, ModeStays DEF BindNow, Recv, acceptOf, Standings
<1>5. CASE BindFails(r)
  BY <1>5, WaitIs, ModeStays DEF BindFails, Recv, acceptOf, Standings
<1>6. CASE KeepBound(r)
  BY <1>6, WaitIs, ModeStays DEF KeepBound, Recv, acceptOf, Standings
<1>7. QED BY <1>1, <1>2, <1>3, <1>4, <1>5, <1>6 DEF KeptBound, Binds

\* One that begins sets the mode it is then at the listener under.
LEMMA BeginAcceptMode == ASSUME ModeKept, NEW r \in Receives, BeginAccept(r) PROVE ModeKept'
<1>1. recv[r] = "bound" /\ UNCHANGED wait
  BY DEF BeginAccept
<1>2. CASE Unblocks /\ recv' = [recv EXCEPT ![r] = "try"] /\ UNCHANGED unset
  <2>1. ~blocking' /\ \A q \in Receives : recv'[q] = IF q = r THEN "try" ELSE recv[q]
    BY <1>2 DEF Unblocks, ModeKept
  <2>2. recv' \in [Receives -> Standings] /\ blocking' \in BOOLEAN /\ unset' \in BOOLEAN
    BY <1>2 DEF Unblocks, ModeKept, Standings
  <2>3. \A q \in Receives : recv'[q] \in {"greet", "content"} => wait'[q] = "location"
    BY <2>1, <1>1 DEF ModeKept
  <2>4. \E q \in Receives : recv'[q] \in {"try", "ready", "back"}
    BY <2>1
  <2>5. QED BY <1>1, <2>2, <2>3, <2>4 DEF ModeKept
<1>3. CASE recv' = [recv EXCEPT ![r] = "idle"] /\ UNCHANGED <<blocking, unset>>
  BY <1>1, <1>3, WaitIs, ModeStays DEF Standings
<1>4. CASE recv' = [recv EXCEPT ![r] = "accept"] /\ UNCHANGED <<blocking, unset>>
  BY <1>1, <1>4, WaitIs, ModeStays DEF Standings
<1>5. QED BY <1>2, <1>3, <1>4 DEF BeginAccept

\* Handed back blocking, or the system refused that; and settled where a
\* connection was accepted and could be.
LEMMA HandBackMode == ASSUME ModeKept, NEW r \in Receives, HandBack(r) PROVE ModeKept'
<1>1. /\ blocking' \in BOOLEAN /\ unset' \in BOOLEAN
      /\ blocking' \/ unset'
  BY DEF HandBack, Reblocks, ModeKept
<1>2. \E to \in {"greet", "idle"}, under \in {"location", "none", wait[r]} :
        /\ recv' = [recv EXCEPT ![r] = to] /\ wait' = [wait EXCEPT ![r] = under]
        /\ to = "greet" => under = "location"
  <2>1. CASE UNCHANGED wait /\ recv' = [recv EXCEPT ![r] = "idle"]
    BY <2>1, WaitIs
  <2>2. CASE ~(UNCHANGED wait /\ recv' = [recv EXCEPT ![r] = "idle"])
    BY <2>2 DEF HandBack
  <2>3. QED BY <2>1, <2>2
<1>3. PICK to \in {"greet", "idle"}, under \in {"location", "none", wait[r]} :
        /\ recv' = [recv EXCEPT ![r] = to] /\ wait' = [wait EXCEPT ![r] = under]
        /\ to = "greet" => under = "location"
  BY <1>2
<1>4. /\ recv' \in [Receives -> Standings]
      /\ wait' \in [Receives -> {"none", "accepted", "location", "guard"}]
  BY <1>3, WaitIs DEF ModeKept, Standings
<1>5. \A q \in Receives : /\ recv'[q] = IF q = r THEN to ELSE recv[q]
                          /\ wait'[q] = IF q = r THEN under ELSE wait[q]
  BY <1>3 DEF ModeKept
<1>6. \A q \in Receives : recv'[q] \in {"greet", "content"} => wait'[q] = "location"
  BY <1>3, <1>5 DEF ModeKept
<1>7. QED BY <1>1, <1>4, <1>6 DEF ModeKept

LEMMA AcceptMode == ASSUME ModeKept, NEW r \in Receives, AcceptWithin(r) PROVE ModeKept'
<1>1. CASE TryAccept(r)
  <2>1. recv[r] = "try" /\ UNCHANGED <<blocking, unset>>
    BY <1>1 DEF TryAccept, modeOf
  <2>2. CASE recv' = [recv EXCEPT ![r] = "back"] /\ wait' = [wait EXCEPT ![r] = "accepted"]
    BY <2>1, <2>2, ModeStays DEF Standings
  <2>3. CASE recv' = [recv EXCEPT ![r] = IF expired[r] THEN "back" ELSE "ready"] /\ UNCHANGED wait
    <3>1. (IF expired[r] THEN "back" ELSE "ready") \in {"ready", "back"}
      OBVIOUS
    <3>2. {"ready", "back"} \subseteq Standings
      BY DEF Standings
    <3>3. QED BY <2>1, <2>3, <3>1, <3>2, WaitIs, ModeStays
  <2>4. CASE recv' = [recv EXCEPT ![r] = "back"] /\ UNCHANGED wait
    BY <2>1, <2>4, WaitIs, ModeStays DEF Standings
  <2>5. QED BY <1>1, <2>2, <2>3, <2>4 DEF TryAccept
<1>2. CASE WaitReady(r)
  <2>1. recv[r] = "ready" /\ UNCHANGED <<wait, blocking, unset>>
        /\ \E to \in {"try", "back"} : recv' = [recv EXCEPT ![r] = to]
    BY <1>2 DEF WaitReady, acceptOf
  <2>2. QED BY <2>1, WaitIs, ModeStays DEF Standings
<1>3. CASE JustAccept(r)
  <2>1. recv[r] = "accept" /\ UNCHANGED <<blocking, unset>>
    BY <1>3 DEF JustAccept, modeOf
  <2>2. CASE recv' = [recv EXCEPT ![r] = "greet"] /\ wait' = [wait EXCEPT ![r] = "location"]
    BY <2>1, <2>2, ModeStays DEF Standings
  <2>3. CASE recv' = [recv EXCEPT ![r] = "idle"] /\ UNCHANGED wait
    BY <2>1, <2>3, WaitIs, ModeStays DEF Standings
  <2>4. QED BY <1>3, <2>2, <2>3 DEF JustAccept
<1>4. QED BY <1>1, <1>2, <1>3, BeginAcceptMode, HandBackMode DEF AcceptWithin

LEMMA AnsweredMode == ASSUME ModeKept, NEW r \in Receives, Answered(r) PROVE ModeKept'
<1>1. CASE Greet(r)
  <2>1. recv[r] = "greet" /\ UNCHANGED <<blocking, unset>> /\ wait[r] = "location"
    BY <1>1, WaitIs DEF Greet, Recv, modeOf
  <2>2. CASE recv' = [recv EXCEPT ![r] = "content"] /\ UNCHANGED wait
    BY <2>1, <2>2, WaitIs, ModeStays DEF Standings
  <2>3. CASE recv' = [recv EXCEPT ![r] = "handshake"] /\ wait' = [wait EXCEPT ![r] = "guard"]
    BY <2>1, <2>3, ModeStays DEF Standings
  <2>4. QED BY <1>1, <2>2, <2>3 DEF Greet, Recv
<1>2. CASE Handshaken(r)
  <2>1. recv[r] = "handshake" /\ UNCHANGED <<blocking, unset>>
    BY <1>2 DEF Handshaken, Recv, modeOf
  <2>2. CASE recv' = [recv EXCEPT ![r] = "content"] /\ wait' = [wait EXCEPT ![r] = "location"]
    BY <2>1, <2>2, ModeStays DEF Standings
  <2>3. CASE recv' = [recv EXCEPT ![r] = "idle"] /\ wait' = [wait EXCEPT ![r] = "none"]
    BY <2>1, <2>3, ModeStays DEF Standings
  <2>4. QED BY <1>2, <2>2, <2>3 DEF Handshaken, Recv, PutBack
<1>3. CASE ReadContent(r)
  BY <1>3, WaitIs, ModeStays DEF ReadContent, Recv, acceptOf, Standings
<1>4. QED BY <1>1, <1>2, <1>3 DEF Answered

\* Whatever way an accept ends, bounded or not, failed, expired or with a
\* connection, the listener is blocking again, unless the system refused the
\* last who was to set it so; and content is read under the Location's own
\* wait, though its handshake had the guard's (socket.rs, guard.rs).
THEOREM HandsBack == ListenerSpec => []HandedBackAsItWas
<1>1. ListenerInit => ModeKept
  BY DEF ListenerInit, ModeKept, Standings
<1>2. ModeKept /\ [ListenerNext]_listenerVars => ModeKept'
  <2> SUFFICES ASSUME ModeKept, [ListenerNext]_listenerVars PROVE ModeKept'
    OBVIOUS
  <2>1. CASE PeerConnects \/ PeerVanishes
    BY <2>1, ModeStill DEF PeerConnects, PeerVanishes, modeOf
  <2>2. ASSUME NEW r \in Receives, Expire(r) PROVE ModeKept'
    BY <2>2, ModeStill DEF Expire, modeOf
  <2>3. CASE UNCHANGED listenerVars
    BY <2>3, ModeStill DEF listenerVars
  <2>4. QED BY <2>1, <2>2, <2>3, KeptBoundMode, AcceptMode, AnsweredMode DEF ListenerNext
<1>3. ModeKept => HandedBackAsItWas
  BY DEF ModeKept, HandedBackAsItWas, Accepting
<1>4. QED BY <1>1, <1>2, <1>3, PTL DEF ListenerSpec

-----------------------------------------------------------------------------
(* The store without a lock: what is deleted was accepted, where producers *)
(* write over nothing that a cycle may be carrying.                        *)

\* What a receive listed lies there still, unless it was left as refused, or
\* cannot be read, and has been written again; and nothing is carried while it
\* is sifted.
ListedLies ==
  /\ \A item \in listing :
       /\ item.name \in Named /\ item.stamp # 0
       /\ lying[item.name] = item.stamp \/ AsRefused(item) \/ item.stamp = illegible
  /\ listing # {} => cycles = {}

\* What is carried lies there as it was listed, is not remembered as refused,
\* and can be read, so that nobody writes over it; what was read of it is what lies
\* there, and its name is no other arrival's.
CarriedLies ==
  \A c \in cycles :
    /\ c.name \in Named /\ c.stamp # 0
    /\ lying[c.name] = c.stamp /\ refused[c.name] # c.stamp /\ c.stamp # illegible
    /\ c.body \in {0, c.stamp}
    /\ c.stage = "accepted" => c.body # 0 /\ c.body \in accepted
    /\ \A other \in cycles : other.name = c.name => other = c

StoreInv ==
  /\ lying \in [Named -> Nat] /\ written \in Nat /\ refused \in [Named -> Nat]
  /\ illegible \in Nat /\ \A n \in Named : lying[n] <= written
  /\ ListedLies /\ CarriedLies /\ DeletedWasAccepted

LEMMA StoreStarts == StoreInit => StoreInv
BY DEF StoreInit, StoreInv, ListedLies, CarriedLies, DeletedWasAccepted

\* A producer's write is under a name that is free, left as refused, or of
\* something that cannot be read.
LEMMA ProduceKeeps ==
  ASSUME ~Overwrites, StoreInv, NEW n \in Named, Produce(n) PROVE StoreInv'
<1>1. /\ lying[n] \in {0, refused[n], illegible} /\ written' = written + 1
      /\ lying' = [lying EXCEPT ![n] = written + 1]
      /\ illegible' \in IF illegible = 0 THEN {0, written + 1} ELSE {illegible}
      /\ UNCHANGED <<refused, listing, cycles, accepted, deleted>>
  BY DEF Produce, histories
<1>2. lying' \in [Named -> Nat] /\ written' \in Nat /\ illegible' \in Nat
  BY <1>1 DEF StoreInv
<1>3. lying'[n] = written + 1 /\ \A m \in Named : m # n => lying'[m] = lying[m]
  BY <1>1 DEF StoreInv
<1>4. \A m \in Named : lying'[m] <= written'
  BY <1>1, <1>3 DEF StoreInv
<1>5. ASSUME NEW item \in listing
      PROVE  /\ item.name \in Named /\ item.stamp # 0
             /\ lying'[item.name] = item.stamp \/ AsRefused(item)' \/ item.stamp = illegible'
  BY <1>1, <1>3, <1>5 DEF StoreInv, ListedLies, AsRefused
<1>6. ListedLies'
  BY <1>1, <1>5 DEF StoreInv, ListedLies
<1>7. \A c \in cycles : c.name # n /\ c.stamp # illegible'
  BY <1>1 DEF StoreInv, CarriedLies
<1>8. CarriedLies'
  BY <1>1, <1>3, <1>7 DEF StoreInv, CarriedLies
<1>9. QED BY <1>1, <1>2, <1>4, <1>6, <1>8 DEF StoreInv, DeletedWasAccepted

LEMMA ListStoreKeeps == ASSUME StoreInv, ListStore PROVE StoreInv'
<1>1. /\ listing' = {[name |-> n, stamp |-> lying[n]] : n \in Lies} /\ cycles = {}
      /\ UNCHANGED <<lying, written, illegible, refused, cycles, accepted, deleted>>
  BY DEF ListStore, histories, stored
<1>2. \A item \in listing' : \E n \in Lies : item = [name |-> n, stamp |-> lying[n]]
  BY <1>1
<1>3. \A item \in listing' :
        item.name \in Named /\ item.stamp # 0 /\ lying[item.name] = item.stamp
  BY <1>2 DEF Lies
<1>4. ListedLies' /\ CarriedLies'
  BY <1>1, <1>3 DEF ListedLies, CarriedLies
<1>5. QED BY <1>1, <1>4 DEF StoreInv, DeletedWasAccepted

LEMMA ReceiveFailsKeeps == ASSUME StoreInv, ReceiveFails PROVE StoreInv'
BY DEF StoreInv, ListedLies, CarriedLies, DeletedWasAccepted, ReceiveFails, stored, histories

\* What is handed over can be read and was not left as refused, so that it lies
\* there.
LEMMA HandOverKeeps == ASSUME StoreInv, HandOver PROVE StoreInv'
<1> DEFINE Of(item) == [name |-> item.name, stamp |-> item.stamp,
                        body |-> IF table THEN item.stamp ELSE 0, stage |-> "carried"]
<1>1. /\ listing' = {} /\ cycles' = {Of(item) : item \in Window}
      /\ UNCHANGED <<lying, written, illegible, accepted, deleted>>
  BY DEF HandOver, histories, stored
<1>2. refused' \in [Named -> Nat] /\ \A n \in Named : refused'[n] \in {0, refused[n]}
  BY DEF HandOver, StoreInv
<1>3. \A item \in Window : /\ item.name \in Named /\ item.stamp # 0
                           /\ lying[item.name] = item.stamp /\ refused[item.name] # item.stamp
                           /\ item.stamp # illegible
  BY DEF HandOver, Legible, Window, First, Sifted, AsRefused, StoreInv, ListedLies
<1>4. \A c \in cycles' : \E item \in Window : c = Of(item)
  BY <1>1
<1>5. \A c \in cycles' :
        /\ c.name \in Named /\ c.stamp # 0
        /\ lying[c.name] = c.stamp /\ refused'[c.name] # c.stamp /\ c.stamp # illegible
        /\ c.body = (IF table THEN c.stamp ELSE 0) /\ c.stage = "carried"
        /\ c = [name |-> c.name, stamp |-> c.stamp, body |-> c.body, stage |-> c.stage]
  BY <1>2, <1>3, <1>4
<1> HIDE DEF Of
<1>6. \A c, other \in cycles' : other.name = c.name => other = c
  <2> SUFFICES ASSUME NEW c \in cycles', NEW other \in cycles', other.name = c.name
               PROVE  other = c
    OBVIOUS
  <2>1. other.stamp = c.stamp /\ other.body = c.body /\ other.stage = c.stage
    BY <1>5
  <2>2. QED BY <1>5, <2>1
<1>7. ListedLies' /\ CarriedLies'
  BY <1>1, <1>5, <1>6 DEF ListedLies, CarriedLies
<1>8. QED BY <1>1, <1>2, <1>7 DEF StoreInv, DeletedWasAccepted

\* An arrival that ends leaves the others as they are.
LEMMA EndsKeeps ==
  ASSUME StoreInv, NEW c \in cycles, CycleEnds(c), listing' = listing,
         UNCHANGED <<lying, written, illegible, accepted, deleted>>,
         refused' \in [Named -> Nat],
         \A n \in Named : n # c.name => refused'[n] = refused[n]
  PROVE  StoreInv'
<1>1. cycles' \subseteq cycles /\ c \notin cycles' /\ listing = {}
  BY DEF CycleEnds, StoreInv, ListedLies
<1>2. \A other \in cycles' : other.name \in Named /\ other.name # c.name
  BY <1>1 DEF StoreInv, CarriedLies
<1>3. ListedLies'
  BY <1>1 DEF ListedLies
<1>4. CarriedLies'
  BY <1>1, <1>2 DEF StoreInv, CarriedLies
<1>5. QED BY <1>3, <1>4 DEF StoreInv, DeletedWasAccepted

\* An arrival that comes further keeps its name and its stamp.
LEMMA BecomesKeeps ==
  ASSUME StoreInv, NEW c \in cycles, NEW d, Becomes(c, d),
         d.name = c.name, d.stamp = c.stamp, d.body \in {0, c.stamp},
         d.stage = "accepted" => d.body # 0 /\ d.body \in accepted',
         UNCHANGED <<lying, written, illegible, refused, listing, deleted>>, accepted \subseteq accepted'
  PROVE  StoreInv'
<1>1. listing = {} /\ \A e \in cycles' : e = d \/ (e \in cycles /\ e # c)
  BY DEF Becomes, StoreInv, ListedLies
<1>2. ListedLies'
  BY <1>1 DEF ListedLies
<1>3. \A e \in cycles : e # c => e.name # d.name
  BY DEF StoreInv, CarriedLies
<1>4. CarriedLies'
  BY <1>1, <1>3 DEF StoreInv, CarriedLies
<1>5. QED BY <1>2, <1>4 DEF StoreInv, DeletedWasAccepted

\* What is deleted is what the cycle read and accepted, for it lies there yet.
LEMMA DeleteKeeps == ASSUME StoreInv, NEW c \in cycles, Delete(c) PROVE StoreInv'
<1>1. /\ c.name \in Named /\ lying[c.name] = c.stamp /\ c.stamp = c.body /\ c.body \in accepted
      /\ \A other \in cycles : other.name = c.name => other = c
  BY DEF Delete, DeletesOn, StoreInv, CarriedLies
<1>2. CASE ~accepts
  BY <1>2, EndsKeeps DEF Delete, StoreInv
<1>3. CASE accepts
  <2>1. /\ lying' = [lying EXCEPT ![c.name] = 0] /\ deleted' = deleted \cup ({lying[c.name]} \ {0})
        /\ UNCHANGED <<written, illegible, refused, listing, accepted>> /\ cycles' = cycles \ {c}
    BY <1>3 DEF Delete, CycleEnds
  <2>2. /\ listing = {} /\ lying' \in [Named -> Nat]
        /\ \A n \in Named : lying'[n] <= written'
    <3>1. listing = {} /\ lying' \in [Named -> Nat]
      BY <2>1 DEF StoreInv, ListedLies
    <3>2. ASSUME NEW n \in Named PROVE lying'[n] <= written'
      <4>1. lying'[n] \in {0, lying[n]} /\ lying[n] <= written /\ written \in Nat
        BY <2>1 DEF StoreInv
      <4>2. QED BY <2>1, <4>1
    <3>3. QED BY <3>1, <3>2
  <2>3. \A other \in cycles' : other.name \in Named /\ lying'[other.name] = lying[other.name]
    BY <1>1, <2>1 DEF StoreInv, CarriedLies
  <2>4. ListedLies'
    BY <2>1, <2>2 DEF ListedLies
  <2>5. CarriedLies'
    BY <2>1, <2>3 DEF StoreInv, CarriedLies
  <2>6. DeletedWasAccepted'
    BY <1>1, <2>1 DEF StoreInv, DeletedWasAccepted
  <2>7. QED BY <2>1, <2>2, <2>4, <2>5, <2>6 DEF StoreInv
<1>4. QED BY <1>2, <1>3

LEMMA CarriedKeeps == ASSUME StoreInv, NEW c \in cycles, Carried(c) PROVE StoreInv'
<1>1. c.name \in Named /\ lying[c.name] = c.stamp /\ c.stamp # 0 /\ c.body \in {0, c.stamp}
  BY DEF StoreInv, CarriedLies
<1>2. CASE Fetch(c)
  <2> DEFINE d == [c EXCEPT !.body = lying[c.name]]
  <2>1. c.stage = "carried" /\ Becomes(c, d)
        /\ UNCHANGED <<lying, written, illegible, refused, listing, accepted, deleted>>
    BY <1>2 DEF Fetch, histories, stored
  <2>2. d.name = c.name /\ d.stamp = c.stamp /\ d.body \in {0, c.stamp} /\ d.stage = c.stage
    BY <1>1
  <2>3. QED BY <2>1, <2>2, BecomesKeeps
<1>3. CASE Fail(c)
  BY <1>3, EndsKeeps DEF Fail, StoreInv, histories, stored
<1>4. CASE Refuse(c)
  <2>1. refused' \in [Named -> Nat]
    BY <1>4, <1>1 DEF Refuse, Remembers, StoreInv
  <2>2. QED BY <1>4, <2>1, EndsKeeps DEF Refuse, Remembers, StoreInv, stored
<1>5. CASE AcceptRead(c)
  <2> DEFINE d == [c EXCEPT !.stage = "accepted"]
  <2>1. /\ c.body # 0 /\ accepted' = accepted \cup {c.body} /\ Becomes(c, d)
        /\ UNCHANGED <<lying, written, illegible, refused, listing, deleted>>
    BY <1>5 DEF AcceptRead, stored
  <2>2. d.name = c.name /\ d.stamp = c.stamp /\ d.body = c.body
    OBVIOUS
  <2>3. d.body \in {0, c.stamp} /\ d.body # 0 /\ d.body \in accepted' /\ accepted \subseteq accepted'
    BY <1>1, <2>1, <2>2
  <2> HIDE DEF d
  <2>4. QED BY <2>1, <2>2, <2>3, BecomesKeeps
<1>6. CASE DeleteFails(c)
  BY <1>6, EndsKeeps DEF DeleteFails, StoreInv, histories, stored
<1>7. QED BY <1>2, <1>3, <1>4, <1>5, <1>6, DeleteKeeps DEF Carried

LEMMA DieKeeps == ASSUME StoreInv, Die PROVE StoreInv'
BY DEF StoreInv, ListedLies, CarriedLies, DeletedWasAccepted, Die, stored

\* Only what a cycle read and accepted is deleted, whatever fails or dies, where
\* producers write over nothing but what was refused (listed.rs: "at least once,
\* never a loss").  Where they write over what is carried, it is deleted unread:
\* the run store_overwritten.
THEOREM DeletesTheAccepted == ASSUME ~Overwrites PROVE StoreSpec => []DeletedWasAccepted
<1>1. StoreInv /\ [StoreNext]_storeVars => StoreInv'
  <2> SUFFICES ASSUME StoreInv, [StoreNext]_storeVars PROVE StoreInv'
    OBVIOUS
  <2>1. CASE UNCHANGED storeVars
    BY <2>1 DEF storeVars, histories, StoreInv, ListedLies, CarriedLies, DeletedWasAccepted, AsRefused
  <2>2. CASE StoreNext
    BY <2>2, ProduceKeeps, ListStoreKeeps, HandOverKeeps, ReceiveFailsKeeps, CarriedKeeps,
           DieKeeps
       DEF StoreNext, ReceiveStore, CarryAny
  <2>3. QED BY <2>1, <2>2
<1>2. StoreInv => DeletedWasAccepted
  BY DEF StoreInv
<1>3. QED BY StoreStarts, <1>1, <1>2, PTL DEF StoreSpec

=============================================================================
