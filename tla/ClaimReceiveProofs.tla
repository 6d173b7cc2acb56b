------------------------- MODULE ClaimReceiveProofs -------------------------
(***************************************************************************)
(* What is proved of Claim's receives and cycles: what a node remembers,   *)
(* holds and carries agrees with what lies at the far end, for every set   *)
(* of nodes, names and times and every bound.  Each theorem says which     *)
(* failing calls it excepts: after such a call its property may be broken. *)
(***************************************************************************)
EXTENDS ClaimProofs

-----------------------------------------------------------------------------
(* A step of one node leaves every other node's memory alone.              *)

Acts(n) == StartTake(n) \/ Take(n) \/ Settling(n) \/ Tell(n) \/ Told(n) \/ Crash(n)

\* All that node m remembers, but for what the far end did to what it set aside.
Memory(m) == <<recovering[m], listed[m], refused[m], held[m], settling[m], rx[m], jobs[m]>>

LEMMA OthersStay ==
  ASSUME TypeOK, NEW n \in Nodes, Acts(n), NEW m \in Nodes, m # n
  PROVE  UNCHANGED Memory(m)
<1> USE DEF Memory, TypeOK, MemoryType, TakeType, CycleType, Goes
<1>1. CASE StartTake(n) \/ Crash(n)
  BY <1>1 DEF StartTake, Crash
<1>2. CASE Take(n)
  <2>1. CASE RecoverList(n) \/ RecoverTurn(n) \/ RecoverTurnsDone(n) \/ RecoverReturn(n)
             \/ RecoverHold(n) \/ RecoverDone(n)
    BY <2>1 DEF RecoverFailed, RecoverList, RecoverTurn, RecoverTurnsDone, RecoverReturn,
                RecoverHold, RecoverDone, Hold
  <2>2. CASE TakeSettle(n) \/ List(n) \/ Sift(n) \/ Leave(n) \/ TakeTurn(n) \/ StillAsFound(n)
    BY <2>2 DEF TakeSettle, Settle, List, Sift, Leave, TakeTurn, StillAsFound
  <2>3. CASE (\E x \in Names : Won(n, x)) \/ RenameRefused(n) \/ RenameFailed(n) \/ DropTurn(n)
             \/ TakeDone(n)
    BY <2>3 DEF Won, RenameRefused, RenameFailed, DropTurn, TakeDone
  <2>4. QED BY <1>2, <2>1, <2>2, <2>3 DEF Take
<1>3. CASE Settling(n)
  BY <1>3 DEF Settling, SettleOne, SettleRemember, Remember, SettleDone
<1>4. CASE Tell(n) \/ Told(n)
  BY <1>4 DEF Tell, Told, Accept, GiveBack, RememberRefused, Remember, HoldKept, Hold, ToldSettle,
              Settle, At, Over
<1>5. QED BY <1>1, <1>2, <1>3, <1>4 DEF Acts

-----------------------------------------------------------------------------
(* What a receive has at hand is there only where it is at it.             *)

\* A receive at what its listing found.
Examines(n) == rx[n].pc \in {"examine", "still", "rename", "untake"}

\* What a receive keeps in its hands is let go with the step it was for, a
\* settle tries only what is held, and an ordered Location is never asked
\* while a cycle of its last receive is on.
TidyAt(n) ==
  /\ rx[n].pc \notin {"turns", "giveback", "hold"} => rx[n].left = {}
  /\ ~Examines(n) => rx[n].taken = {}
  /\ rx[n].pc \notin {"hold", "untake"} => rx[n].won = {}
  /\ \A c, d \in rx[n].won : c = d
  /\ Free(n) => settling[n] = Unlocked
  /\ settling[n].todo \subseteq held[n]
  /\ rx[n].pc = "settling" => settling[n].by = "take"
  /\ Ordered /\ rx[n].pc # "idle" => jobs[n] = {}
  /\ Ordered /\ rx[n].pc \notin {"idle", "settling"} => Free(n)

Tidy == \A n \in Nodes : TidyAt(n)

LEMMA InHand ==
  ASSUME Tidy, NEW n \in Nodes
  PROVE  /\ rx[n].pc \notin {"turns", "giveback", "hold"} => rx[n].left = {}
         /\ rx[n].pc \notin {"examine", "still", "rename", "untake"} => rx[n].taken = {}
         /\ rx[n].pc \notin {"hold", "untake"} => rx[n].won = {}
         /\ \A c, d \in rx[n].won : c = d
BY DEF Tidy, TidyAt, Examines

\* A receive that goes on as r, nothing else its node remembers changed.
LEMMA TidyGoes ==
  ASSUME TypeOK, Tidy, NEW n \in Nodes, NEW r, Goes(n, r), UNCHANGED <<held, settling, jobs>>,
         r.pc \notin {"turns", "giveback", "hold"} => r.left = {},
         r.pc \notin {"examine", "still", "rename", "untake"} => r.taken = {},
         r.pc \notin {"hold", "untake"} => r.won = {},
         \A c, d \in r.won : c = d,
         r.pc = "settling" => rx[n].pc = "settling",
         r.pc # "idle" => rx[n].pc # "idle",
         r.pc \notin {"idle", "settling"} => rx[n].pc \notin {"idle", "settling"}
  PROVE  TidyAt(n)'
<1>1. rx'[n] = r
  BY GoesTo
<1>2. QED BY <1>1 DEF Tidy, TidyAt, Examines, Free

LEMMA TidyTake == ASSUME TypeOK, Tidy, NEW n \in Nodes, StartTake(n) \/ Take(n) PROVE TidyAt(n)'
<1>1. CASE StartTake(n)
  <2>1. rx'[n] = [rx[n] EXCEPT !.pc = IF recovering[n] THEN "recover" ELSE "settle"] /\ rx[n] \in Takes
    BY <1>1, TakeTyped, GoesTo DEF StartTake
  <2>2. /\ UNCHANGED <<held, settling, jobs>> /\ rx[n].pc = "idle"
        /\ Ordered => jobs[n] = {} /\ Free(n)
    BY <1>1 DEF StartTake
  <2>3. QED BY <2>1, <2>2 DEF Tidy, TidyAt, Examines, Free, Takes
<1>2. CASE RecoverList(n)
  BY <1>2, TakeTyped, InHand, TidyGoes DEF RecoverList, RecoverFailed, Takes
<1>3. CASE RecoverTurn(n)
  <2>1. CASE UNCHANGED rx
    BY <1>3, <2>1 DEF RecoverTurn, Tidy, TidyAt, Examines, Free
  <2>2. CASE RecoverFailed(n)
    BY <1>3, <2>2, TakeTyped, InHand, TidyGoes DEF RecoverTurn, RecoverFailed, Takes
  <2>3. QED BY <1>3, <2>1, <2>2 DEF RecoverTurn
<1>4. CASE RecoverTurnsDone(n)
  BY <1>4, TakeTyped, InHand, TidyGoes DEF RecoverTurnsDone, Takes
<1>5. CASE RecoverReturn(n)
  <2>1. PICK c \in rx[n].left, answer \in {"back", "gone", "kept", "failed", "lost"} :
          Goes(n, [rx[n] EXCEPT !.left = @ \ {c},
                                !.pc  = IF Settled(answer) THEN "giveback" ELSE "hold",
                                !.won = IF Settled(answer) THEN {} ELSE {c}])
    BY <1>5 DEF RecoverReturn
  <2> DEFINE p == IF Settled(answer) THEN "giveback" ELSE "hold"
             w == IF Settled(answer) THEN {} ELSE {c}
  <2>2. /\ p \in {"giveback", "hold"} /\ (p = "giveback" => w = {})
        /\ \A d, e \in w : d = e
        /\ Goes(n, [rx[n] EXCEPT !.left = @ \ {c}, !.pc = p, !.won = w])
    BY <2>1
  <2> HIDE DEF p, w
  <2>3. rx[n].pc = "giveback" /\ UNCHANGED <<held, settling, jobs>>
    BY <1>5 DEF RecoverReturn
  <2>4. rx'[n] = [rx[n] EXCEPT !.left = @ \ {c}, !.pc = p, !.won = w]
    BY <2>2, GoesTo
  <2>5. rx'[n].pc = p /\ rx'[n].won = w /\ rx'[n].taken = rx[n].taken
    BY <2>4, TakeTyped DEF Takes
  <2>6. QED BY <2>2, <2>3, <2>5 DEF Tidy, TidyAt, Examines, Free
<1>6. CASE RecoverHold(n)
  <2>1. rx'[n] = [rx[n] EXCEPT !.pc = "giveback", !.won = {}] /\ rx[n] \in Takes
    BY <1>6, TakeTyped, GoesTo DEF RecoverHold
  <2>2. UNCHANGED <<settling, jobs>> /\ rx[n].pc = "hold" /\ Free(n)
    BY <1>6 DEF RecoverHold
  <2>3. settling[n].todo = {}
    BY <2>2 DEF Tidy, TidyAt, Unlocked
  <2>4. QED BY <2>1, <2>2, <2>3 DEF Tidy, TidyAt, Examines, Free, Takes
<1>7. CASE RecoverDone(n)
  BY <1>7, TakeTyped, InHand, TidyGoes DEF RecoverDone, Takes
<1>8. CASE TakeSettle(n)
  <2>1. /\ rx'[n] = [rx[n] EXCEPT !.pc = IF held[n] = {} THEN "list" ELSE "settling"]
        /\ rx[n] \in Takes
    BY <1>8, TakeTyped, GoesTo DEF TakeSettle
  <2>2. /\ UNCHANGED <<held, jobs>> /\ rx[n].pc = "settle" /\ Free(n)
        /\ settling'[n] = IF held[n] = {} THEN settling[n]
                          ELSE [by |-> "take", todo |-> held[n], mark |-> {}]
    BY <1>8 DEF TakeSettle, Settle, TypeOK, MemoryType
  <2>3. QED BY <2>1, <2>2 DEF Tidy, TidyAt, Examines, Free, Takes
<1>9. CASE List(n)
  BY <1>9, TakeTyped, InHand, TidyGoes DEF List, Idle, Takes
<1>10. CASE Sift(n)
  BY <1>10, TakeTyped, InHand, TidyGoes DEF Sift, Takes
<1>11. CASE Leave(n)
  BY <1>11, TakeTyped, InHand, TidyGoes DEF Leave, Takes
<1>12. CASE TakeTurn(n)
  BY <1>12, TakeTyped, InHand, TidyGoes DEF TakeTurn, Takes
<1>13. CASE StillAsFound(n)
  BY <1>13, TakeTyped, InHand, TidyGoes DEF StillAsFound, Takes
<1>14. CASE \E x \in Names : Won(n, x)
  BY <1>14, TakeTyped, InHand, TidyGoes DEF Won, Takes
<1>15. CASE RenameRefused(n)
  BY <1>15, TakeTyped, InHand, TidyGoes DEF RenameRefused, Takes
<1>16. CASE RenameFailed(n)
  BY <1>16, TakeTyped, InHand, TidyGoes DEF RenameFailed, Takes
<1>17. CASE DropTurn(n)
  BY <1>17, TakeTyped, InHand, TidyGoes DEF DropTurn, Takes
<1>18. CASE TakeDone(n)
  <2>1. rx'[n] = Idle /\ UNCHANGED <<held, settling>>
    BY <1>18, GoesTo DEF TakeDone
  <2>2. QED BY <2>1 DEF Tidy, TidyAt, Examines, Idle, Free
<1>19. QED
  BY <1>1, <1>2, <1>3, <1>4, <1>5, <1>6, <1>7, <1>8, <1>9, <1>10, <1>11, <1>12, <1>13, <1>14,
     <1>15, <1>16, <1>17, <1>18 DEF Take

LEMMA TidySettling ==
  ASSUME TypeOK, Tidy, NEW n \in Nodes, Settling(n) PROVE TidyAt(n)'
<1>1. CASE SettleOne(n)
  BY <1>1 DEF SettleOne, Tidy, TidyAt, Examines, Free, TypeOK, MemoryType, Settlings
<1>2. CASE SettleRemember(n)
  BY <1>2 DEF SettleRemember, Unlocked, Tidy, TidyAt, Examines, Free, TypeOK, MemoryType, Settlings
<1>3. CASE SettleDone(n)
  <2>1. settling'[n] = Unlocked /\ UNCHANGED jobs
    BY <1>3 DEF SettleDone, TypeOK, MemoryType
  <2>2. Free(n)' /\ settling'[n].todo = {}
    BY <2>1 DEF Free, Unlocked
  <2>3. CASE UNCHANGED rx /\ settling[n].by # "take"
    BY <2>1, <2>2, <2>3 DEF TypeOK, SettlesInTake, Tidy, TidyAt, Examines
  <2>4. CASE settling[n].by = "take" /\ rx'[n] = [rx[n] EXCEPT !.pc = "list"]
    <3>1. /\ rx'[n].pc = "list" /\ rx'[n].left = rx[n].left
          /\ rx'[n].taken = rx[n].taken /\ rx'[n].won = rx[n].won
      BY <2>4, TakeTyped DEF Takes
    <3>2. rx[n].pc = "settling"
      BY <2>4 DEF TypeOK, SettlesInTake
    <3>3. QED BY <2>1, <2>2, <3>1, <3>2 DEF Tidy, TidyAt, Examines
  <2>5. QED BY <1>3, <2>3, <2>4, GoesTo DEF SettleDone
<1>4. QED BY <1>1, <1>2, <1>3 DEF Settling

LEMMA TidyTold ==
  ASSUME TypeOK, Tidy, NEW n \in Nodes, Tell(n) \/ Told(n) PROVE TidyAt(n)'
<1>1. CASE Accept(n) \/ GiveBack(n)
  <2>1. UNCHANGED <<rx, held, settling>> /\ jobs[n] # {}
    BY <1>1 DEF Accept, GiveBack
  <2>2. QED BY <2>1 DEF Tidy, TidyAt, Examines, Free
<1>2. CASE RememberRefused(n)
  <2>1. UNCHANGED <<rx, held, settling>> /\ jobs[n] # {}
    BY <1>2 DEF RememberRefused
  <2>2. QED BY <2>1 DEF Tidy, TidyAt, Examines, Free
<1>3. CASE HoldKept(n)
  <2>1. UNCHANGED <<rx, settling>> /\ jobs[n] # {} /\ Free(n)
    BY <1>3 DEF HoldKept
  <2>2. settling[n].todo = {}
    BY <2>1 DEF Tidy, TidyAt, Unlocked
  <2>3. QED BY <2>1, <2>2 DEF Tidy, TidyAt, Examines, Free
<1>4. CASE ToldSettle(n)
  <2>1. UNCHANGED <<rx, held>> /\ jobs[n] # {}
    BY <1>4 DEF ToldSettle
  <2>2. settling'[n] \in {settling[n], [by |-> "told", todo |-> held[n], mark |-> {}]} /\ Free(n)
    BY <1>4 DEF ToldSettle, Settle, TypeOK, MemoryType
  <2>3. QED BY <2>1, <2>2 DEF Tidy, TidyAt, Examines, Free
<1>5. QED BY <1>1, <1>2, <1>3, <1>4 DEF Tell, Told

LEMMA NextTidy == ASSUME TypeOK, Tidy, [Next]_vars PROVE Tidy'
<1>1. ASSUME NEW m \in Nodes, UNCHANGED Memory(m) PROVE TidyAt(m)'
  BY <1>1 DEF Memory, Tidy, TidyAt, Examines, Free
<1>2. ASSUME NEW n \in Nodes, Acts(n) PROVE Tidy'
  <2>1. TidyAt(n)'
    <3>1. CASE Crash(n)
      BY <3>1 DEF Crash, TidyAt, Examines, Free, Idle, Unlocked, TypeOK, MemoryType, TakeType, CycleType
    <3>2. QED BY <1>2, <3>1, TidyTake, TidySettling, TidyTold DEF Acts
  <2>2. QED BY <1>1, <1>2, <2>1, OthersStay DEF Tidy
<1>3. ASSUME NEW x \in Names, Drop(x) PROVE Tidy'
  BY <1>1, <1>3 DEF Drop, local, Memory, Tidy
<1>4. CASE UNCHANGED vars
  BY <1>1, <1>4 DEF vars, Memory, Tidy
<1>5. QED BY <1>2, <1>3, <1>4 DEF Next, Acts

\* Every reachable state is tidy: this is what the theorems below rest on.
THEOREM AlwaysTidy == Spec => []Tidy
<1>1. Init => Tidy
  BY DEF Init, Tidy, TidyAt, Examines, Free, Idle, Unlocked
<1>2. TypeOK /\ Tidy /\ [Next]_vars => Tidy'
  BY NextTidy
<1>3. QED BY <1>1, <1>2, TypeCorrect, PTL DEF Spec

-----------------------------------------------------------------------------
(* No turn is left behind, where a turn taken or dropped is answered.      *)

\* Every turn of n is for what it is at, or was left when it died.
TurnsKnown(n) ==
  \A x \in Names :
    turns[x] = n => \/ rx[n].name = x
                    \/ recovering[n] \/ rx[n].pc \in {"recover", "turns"}

\* A receive that goes on as r, every turn as it was.
LEMMA TurnsGo ==
  ASSUME TypeOK, NoTurnLeft, NEW n \in Nodes, NEW r, Goes(n, r), UNCHANGED turns,
         r.name = rx[n].name,
         recovering[n] \/ rx[n].pc \in {"recover", "turns"}
           => recovering'[n] \/ r.pc \in {"recover", "turns"}
  PROVE  TurnsKnown(n)'
<1>1. rx'[n] = r
  BY GoesTo
<1>2. QED BY <1>1 DEF NoTurnLeft, TurnsKnown

LEMMA TurnsTake ==
  ASSUME TypeOK, NoTurnLeft, {"take_turn", "drop_turn"} \cap Failing = {},
         NEW n \in Nodes, StartTake(n) \/ Take(n)
  PROVE  TurnsKnown(n)'
<1>1. CASE StartTake(n)
  BY <1>1, TakeTyped, TurnsGo DEF StartTake, site, Takes
<1>2. CASE RecoverList(n)
  BY <1>2, TakeTyped, TurnsGo DEF RecoverList, RecoverFailed, site, Takes, TypeOK, MemoryType
<1>3. CASE RecoverTurn(n)
  <2>1. CASE UNCHANGED <<recovering, rx>>
    BY <1>3, <2>1 DEF RecoverTurn, NoTurnLeft, TurnsKnown
  <2>2. CASE RecoverFailed(n)
    BY <2>2, TakeTyped DEF RecoverFailed, TypeOK, MemoryType, TurnsKnown
  <2>3. QED BY <1>3, <2>1, <2>2 DEF RecoverTurn
<1>4. CASE RecoverTurnsDone(n)
  BY <1>4 DEF RecoverTurnsDone, Holds, TurnsKnown, site
<1>5. CASE RecoverReturn(n)
  <2>1. PICK c \in rx[n].left, answer \in {"back", "gone", "kept", "failed", "lost"} :
          Goes(n, [rx[n] EXCEPT !.left = @ \ {c},
                                !.pc  = IF Settled(answer) THEN "giveback" ELSE "hold",
                                !.won = IF Settled(answer) THEN {} ELSE {c}])
    BY <1>5 DEF RecoverReturn
  <2>2. rx[n].pc = "giveback" /\ UNCHANGED <<turns, recovering>>
    BY <1>5 DEF RecoverReturn
  <2>3. QED BY <2>1, <2>2, TakeTyped, TurnsGo DEF Takes
<1>6. CASE RecoverHold(n)
  BY <1>6, TakeTyped, TurnsGo DEF RecoverHold, site, Takes
<1>7. CASE RecoverDone(n)
  BY <1>7, TakeTyped, TurnsGo DEF RecoverDone, site, Takes
<1>8. CASE TakeSettle(n)
  BY <1>8, TakeTyped, TurnsGo DEF TakeSettle, site, Takes
<1>9. CASE List(n)
  BY <1>9, TakeTyped, TurnsGo DEF List, Idle, site, Takes, TypeOK, AtAnArtifact
<1>10. CASE Sift(n)
  BY <1>10, TakeTyped, TurnsGo DEF Sift, site, Takes
<1>11. CASE Leave(n)
  BY <1>11, TakeTyped, TurnsGo DEF Leave, site, Takes
<1>12. CASE TakeTurn(n)
  <2>1. PICK x \in rx[n].rest :
          \/ /\ turns' = [turns EXCEPT ![x] = n]
             /\ Goes(n, [rx[n] EXCEPT !.rest = @ \ {x}, !.name = x, !.pc = "still"])
          \/ /\ UNCHANGED turns
             /\ Goes(n, [rx[n] EXCEPT !.rest = @ \ {x}])
    BY <1>12 DEF TakeTurn, Fails
  <2>2. /\ rx[n] \in Takes /\ x \in Names /\ rx[n].name = NoName /\ rx[n].pc = "examine"
        /\ UNCHANGED recovering
    BY <1>12, TakeTyped DEF TakeTurn, Takes, TypeOK, AtAnArtifact
  <2>3. CASE Goes(n, [rx[n] EXCEPT !.rest = @ \ {x}, !.name = x, !.pc = "still"])
             /\ turns' = [turns EXCEPT ![x] = n]
    <3>1. rx'[n].name = x
      BY <2>2, <2>3, GoesTo DEF Takes
    <3>2. ASSUME NEW y \in Names, turns'[y] = n, y # x PROVE recovering'[n]
      BY <2>2, <2>3, <3>2, ClaimAssumption DEF NoTurnLeft, TypeOK, SiteType
    <3>3. QED BY <3>1, <3>2 DEF TurnsKnown
  <2>4. CASE Goes(n, [rx[n] EXCEPT !.rest = @ \ {x}]) /\ UNCHANGED turns
    BY <2>2, <2>4, TurnsGo DEF Takes
  <2>5. QED BY <2>1, <2>3, <2>4
<1>13. CASE StillAsFound(n)
  BY <1>13, TakeTyped, TurnsGo DEF StillAsFound, site, Takes
<1>14. CASE \E x \in Names : Won(n, x)
  BY <1>14, TakeTyped, TurnsGo DEF Won, Takes
<1>15. CASE RenameRefused(n)
  BY <1>15, TakeTyped, TurnsGo DEF RenameRefused, site, Takes
<1>16. CASE RenameFailed(n)
  BY <1>16, TakeTyped, TurnsGo DEF RenameFailed, Takes
<1>17. CASE DropTurn(n)
  <2>1. /\ turns' = [turns EXCEPT ![rx[n].name] = NoNode]
        /\ rx[n].pc = "untake" /\ UNCHANGED recovering
    BY <1>17 DEF DropTurn, Fails
  <2>2. ASSUME NEW y \in Names, turns'[y] = n PROVE recovering'[n]
    BY <2>1, <2>2, ClaimAssumption DEF NoTurnLeft, TypeOK, SiteType
  <2>3. QED BY <2>2 DEF TurnsKnown
<1>18. CASE TakeDone(n)
  BY <1>18, TakeTyped, TurnsGo DEF TakeDone, Idle, site, Takes, TypeOK, AtAnArtifact
<1>19. QED
  BY <1>1, <1>2, <1>3, <1>4, <1>5, <1>6, <1>7, <1>8, <1>9, <1>10, <1>11, <1>12, <1>13, <1>14,
     <1>15, <1>16, <1>17, <1>18 DEF Take

LEMMA TurnsActs ==
  ASSUME TypeOK, NoTurnLeft, {"take_turn", "drop_turn"} \cap Failing = {},
         NEW n \in Nodes, Acts(n)
  PROVE  TurnsKnown(n)'
<1>1. CASE Settling(n)
  <2>1. UNCHANGED <<turns, recovering>>
    BY <1>1 DEF Settling, SettleOne, SettleRemember, SettleDone, site
  <2>2. rx'[n] = rx[n] \/ (rx[n].pc = "settling" /\ rx'[n] = [rx[n] EXCEPT !.pc = "list"])
    BY <1>1, GoesTo DEF Settling, SettleOne, SettleRemember, SettleDone, TypeOK, SettlesInTake
  <2>3. QED BY <2>1, <2>2, TakeTyped DEF NoTurnLeft, TurnsKnown, Takes
<1>2. CASE Tell(n) \/ Told(n)
  <2>1. UNCHANGED <<turns, recovering, rx>>
    BY <1>2 DEF Tell, Told, Accept, GiveBack, RememberRefused, HoldKept, ToldSettle, site
  <2>2. QED BY <2>1 DEF NoTurnLeft, TurnsKnown
<1>3. CASE Crash(n)
  BY <1>3 DEF Crash, TypeOK, MemoryType, TurnsKnown
<1>4. QED BY <1>1, <1>2, <1>3, TurnsTake DEF Acts

\* A step of one node takes and drops no turn but its own.
LEMMA OthersTurns ==
  ASSUME TypeOK, InTurn, NEW n \in Nodes, Acts(n), NEW x \in Names
  PROVE  turns'[x] \in {turns[x], n, NoNode} /\ (turns'[x] # turns[x] => turns[x] \in {n, NoNode})
<1> USE DEF TypeOK, SiteType
<1>1. CASE TakeTurn(n)
  <2>1. PICK y \in rx[n].rest : UNCHANGED turns \/ (turns[y] = NoNode /\ turns' = [turns EXCEPT ![y] = n])
    BY <1>1 DEF TakeTurn
  <2>2. QED BY <2>1
<1>2. CASE DropTurn(n)
  BY <1>2 DEF DropTurn, InTurn, AtAnArtifact
<1>3. CASE RecoverTurn(n)
  BY <1>3 DEF RecoverTurn, Holds
<1>4. CASE ~TakeTurn(n) /\ ~DropTurn(n) /\ ~RecoverTurn(n)
  BY <1>4 DEF Acts, StartTake, Take, Settling, Tell, Told, Crash, site, RecoverList,
         RecoverTurnsDone, RecoverReturn, RecoverHold, RecoverDone, TakeSettle, List, Sift, Leave,
         StillAsFound, Won, RenameRefused, RenameFailed, TakeDone, SettleOne, SettleRemember,
         SettleDone, Accept, GiveBack, RememberRefused, HoldKept, ToldSettle
<1>5. QED BY <1>1, <1>2, <1>3, <1>4

LEMMA NextTurns ==
  ASSUME TypeOK, InTurn, NoTurnLeft, {"take_turn", "drop_turn"} \cap Failing = {}, [Next]_vars
  PROVE  NoTurnLeft'
<1>1. ASSUME NEW n \in Nodes, Acts(n), NEW m \in Nodes PROVE TurnsKnown(m)'
  <2>1. CASE m = n
    BY <1>1, <2>1, TurnsActs
  <2>2. CASE m # n
    <3>1. UNCHANGED <<recovering[m], rx[m]>>
      BY <1>1, <2>2, OthersStay DEF Memory
    <3>2. \A x \in Names : turns'[x] = m => turns[x] = m
      BY <1>1, <2>2, OthersTurns, ClaimAssumption
    <3>3. QED BY <3>1, <3>2 DEF NoTurnLeft, TurnsKnown
  <2>3. QED BY <2>1, <2>2
<1>2. ASSUME NEW x \in Names, Drop(x) PROVE NoTurnLeft'
  BY <1>2 DEF Drop, local, NoTurnLeft
<1>3. CASE UNCHANGED vars
  BY <1>3 DEF vars, NoTurnLeft
<1>4. QED BY <1>1, <1>2, <1>3 DEF Next, Acts, NoTurnLeft, TurnsKnown

\* Where a call for a turn, and one that drops it, is answered, no turn
\* outlives what it was taken for but over its node's death: no artifact is
\* left to the next listing for good.
THEOREM NoTurnIsLeft == ASSUME {"take_turn", "drop_turn"} \cap Failing = {} PROVE Spec => []NoTurnLeft
<1>1. Init => NoTurnLeft
  BY DEF Init, NoTurnLeft
<1>2. TypeOK /\ InTurn /\ NoTurnLeft /\ [Next]_vars => NoTurnLeft'
  BY NextTurns
<1>3. QED BY <1>1, <1>2, TypeCorrect, TurnExcludes, PTL DEF Spec

-----------------------------------------------------------------------------
(* A claim takes what its listing found, where no producer overwrites.     *)

\* What restore may do to what lies under a name: only a free one is filled.
LEMMA RestoreFills ==
  ASSUME TypeOK, NEW n \in Nodes, NEW c \in Claims, NEW answer, NEW isRefused,
         Restore(n, c, answer, isRefused), NEW x \in Names
  PROVE  lying'[x] = lying[x] \/ lying[x] = 0
BY DEF Restore, Found, TypeOK, SiteType, Claims

\* What lies changes under a free name, or by the claim of the node at it.
LEMMA LyingMoves ==
  ASSUME TypeOK, NEW n \in Nodes, Acts(n), NEW x \in Names
  PROVE  \/ lying'[x] = lying[x]
         \/ lying[x] = 0
         \/ rx[n].pc = "rename" /\ rx[n].name = x /\ rx'[n].pc = "untake"
<1>1. CASE RecoverReturn(n)
  <2>1. PICK c \in rx[n].left, answer \in Answers : Restore(n, c, answer, FALSE)
    BY <1>1 DEF RecoverReturn, Answers
  <2>2. c \in Claims
    BY TakeTyped DEF Takes
  <2>3. QED BY <2>1, <2>2, RestoreFills
<1>2. CASE SettleOne(n)
  <2>1. PICK h \in settling[n].todo, answer \in Answers : Restore(n, h.claim, answer, h.refused)
    BY <1>2 DEF SettleOne, Answers
  <2>2. h.claim \in Claims
    BY DEF TypeOK, MemoryType, Settlings, Held
  <2>3. QED BY <2>1, <2>2, RestoreFills
<1>3. CASE GiveBack(n)
  <2>1. PICK j \in jobs[n], isRefused \in BOOLEAN, answer \in Answers :
          Restore(n, j.claim, answer, isRefused)
    BY <1>3 DEF GiveBack, Answers
  <2>2. j.claim \in Claims
    BY DEF TypeOK, CycleType, Jobs
  <2>3. QED BY <2>1, <2>2, RestoreFills
<1>4. CASE (\E y \in Names : Won(n, y)) \/ RenameFailed(n)
  <2>1. /\ rx[n].pc = "rename" /\ rx'[n].pc = "untake"
        /\ Renamed(ClaimedName(n)) \/ UNCHANGED lying
        /\ Fresh(n, rx[n].name) # {}
    BY <1>4, TakeTyped, GoesTo DEF Won, RenameFailed, Takes
  <2>2. ClaimedName(n).dropped = rx[n].name
    BY <2>1, ClaimedNameTyped
  <2>3. QED BY <2>1, <2>2 DEF Renamed, TypeOK, SiteType
<1>5. CASE /\ ~RecoverReturn(n) /\ ~SettleOne(n) /\ ~GiveBack(n)
           /\ ~(\E y \in Names : Won(n, y)) /\ ~RenameFailed(n)
  BY <1>5 DEF Acts, StartTake, Take, Settling, Tell, Told, Crash, site, RecoverList, RecoverTurn,
         RecoverTurnsDone, RecoverHold, RecoverDone, TakeSettle, List, Sift, Leave, TakeTurn,
         StillAsFound, RenameRefused, DropTurn, TakeDone, SettleRemember, SettleDone, Accept,
         RememberRefused, HoldKept, ToldSettle
<1>6. QED BY <1>1, <1>2, <1>3, <1>4, <1>5

\* What n examines was found lying, and what it is to rename lies as found.
FoundLiesAt(n) ==
  /\ Examines(n) => \A x \in rx[n].rest : rx[n].found[x] # 0
  /\ rx[n].pc = "still" => rx[n].found[rx[n].name] # 0
  /\ rx[n].pc = "rename" => /\ rx[n].found[rx[n].name] # 0
                            /\ lying[rx[n].name] = rx[n].found[rx[n].name]

FoundLies == \A n \in Nodes : FoundLiesAt(n)

\* A receive that is at nothing it found.
LEMMA FoundElsewhere ==
  ASSUME TypeOK, NEW n \in Nodes, NEW r, Goes(n, r),
         r.pc \notin {"examine", "still", "rename", "untake"}
  PROVE  FoundLiesAt(n)'
BY GoesTo DEF FoundLiesAt, Examines

\* A receive that goes on with the same listing, at none of it or after it.
LEMMA FoundOn ==
  ASSUME TypeOK, FoundLies, NEW n \in Nodes, NEW r, Goes(n, r), Examines(n),
         r.pc \in {"examine", "untake"}, r.rest \subseteq rx[n].rest, r.found = rx[n].found
  PROVE  FoundLiesAt(n)'
BY GoesTo DEF FoundLies, FoundLiesAt, Examines

LEMMA FoundTake ==
  ASSUME TypeOK, FoundLies, NEW n \in Nodes, StartTake(n) \/ Take(n)
  PROVE  FoundLiesAt(n)'
<1>1. CASE StartTake(n)
  BY <1>1, TakeTyped, FoundElsewhere DEF StartTake, Takes
<1>2. CASE RecoverList(n) \/ RecoverTurnsDone(n) \/ RecoverHold(n) \/ RecoverDone(n)
  BY <1>2, TakeTyped, FoundElsewhere
     DEF RecoverList, RecoverFailed, RecoverTurnsDone, RecoverHold, RecoverDone, Takes
<1>3. CASE RecoverTurn(n)
  <2>1. rx'[n].pc \in {"turns", "settle"}
    BY <1>3, TakeTyped, GoesTo DEF RecoverTurn, RecoverFailed, Takes
  <2>2. QED BY <2>1 DEF FoundLiesAt, Examines
<1>4. CASE RecoverReturn(n)
  <2>1. PICK c \in rx[n].left, answer \in {"back", "gone", "kept", "failed", "lost"} :
          Goes(n, [rx[n] EXCEPT !.left = @ \ {c},
                                !.pc  = IF Settled(answer) THEN "giveback" ELSE "hold",
                                !.won = IF Settled(answer) THEN {} ELSE {c}])
    BY <1>4 DEF RecoverReturn
  <2>2. QED BY <2>1, TakeTyped, FoundElsewhere DEF Takes
<1>5. CASE TakeSettle(n)
  BY <1>5, TakeTyped, FoundElsewhere DEF TakeSettle, Takes
<1>6. CASE List(n)
  BY <1>6, TakeTyped, FoundElsewhere DEF List, Idle, Takes
<1>7. CASE Sift(n)
  <2> DEFINE kept == {x \in Names : rx[n].found[x] # 0 /\ ~LiesRefused(n, x)}
             found == [x \in Names |-> IF x \in kept THEN rx[n].found[x] ELSE 0]
  <2>1. Goes(n, [rx[n] EXCEPT !.pc = "examine", !.rest = kept, !.found = found])
    BY <1>7, TakeTyped DEF Sift, Takes
  <2>2. \A x \in kept : found[x] # 0
    OBVIOUS
  <2> HIDE DEF kept, found
  <2>3. rx'[n].pc = "examine" /\ rx'[n].rest = kept /\ rx'[n].found = found
    BY <2>1, TakeTyped, GoesTo DEF Takes
  <2>4. QED BY <2>2, <2>3 DEF FoundLiesAt
<1>8. CASE Leave(n)
  BY <1>8, TakeTyped, FoundOn DEF Leave, Examines, Takes
<1>9. CASE TakeTurn(n)
  <2>1. PICK x \in rx[n].rest :
          \/ Goes(n, [rx[n] EXCEPT !.rest = @ \ {x}, !.name = x, !.pc = "still"])
          \/ Goes(n, [rx[n] EXCEPT !.rest = @ \ {x}])
          \/ Goes(n, [rx[n] EXCEPT !.rest = @ \ {x}, !.broken = TRUE])
    BY <1>9 DEF TakeTurn
  <2>2. rx[n].pc = "examine" /\ \A y \in rx[n].rest : rx[n].found[y] # 0
    BY <1>9 DEF TakeTurn, FoundLies, FoundLiesAt, Examines
  <2>3. CASE Goes(n, [rx[n] EXCEPT !.rest = @ \ {x}, !.name = x, !.pc = "still"])
    <3>1. rx'[n] = [rx[n] EXCEPT !.rest = @ \ {x}, !.name = x, !.pc = "still"]
      BY <2>3, GoesTo
    <3>2. /\ rx'[n].rest = rx[n].rest \ {x} /\ rx'[n].name = x /\ rx'[n].pc = "still"
          /\ rx'[n].found = rx[n].found
      BY <3>1, TakeTyped DEF Takes
    <3>3. QED BY <2>2, <3>2 DEF FoundLiesAt
  <2>4. QED BY <2>1, <2>2, <2>3, TakeTyped, FoundOn DEF Examines, Takes
<1>10. CASE StillAsFound(n)
  <2>1. rx[n].pc = "still" /\ rx[n].found[rx[n].name] # 0 /\ UNCHANGED lying
    BY <1>10 DEF StillAsFound, FoundLies, FoundLiesAt, site
  <2>2. CASE AsFound(n, rx[n].name) /\ Goes(n, [rx[n] EXCEPT !.pc = "rename"])
    <3>1. /\ rx'[n].pc = "rename" /\ rx'[n].name = rx[n].name /\ rx'[n].found = rx[n].found
          /\ rx'[n].rest = rx[n].rest
      BY <2>2, TakeTyped, GoesTo DEF Takes
    <3>2. QED BY <2>1, <2>2, <3>1 DEF FoundLies, FoundLiesAt, Examines, AsFound
  <2>3. QED BY <1>10, <2>1, <2>2, TakeTyped, FoundOn DEF StillAsFound, Examines, Takes
<1>11. CASE (\E x \in Names : Won(n, x)) \/ RenameRefused(n) \/ RenameFailed(n)
  BY <1>11, TakeTyped, FoundOn DEF Won, RenameRefused, RenameFailed, Examines, Takes
<1>12. CASE DropTurn(n)
  BY <1>12, TakeTyped, FoundOn DEF DropTurn, Examines, Takes
<1>13. CASE TakeDone(n)
  BY <1>13, FoundElsewhere DEF TakeDone, Idle
<1>14. QED
  BY <1>1, <1>2, <1>3, <1>4, <1>5, <1>6, <1>7, <1>8, <1>9, <1>10, <1>11, <1>12, <1>13 DEF Take

LEMMA FoundActs ==
  ASSUME TypeOK, FoundLies, NEW n \in Nodes, Acts(n) PROVE FoundLiesAt(n)'
<1>1. CASE Settling(n) \/ Tell(n) \/ Told(n)
  <2>1. CASE rx'[n].pc = "list"
    BY <2>1 DEF FoundLiesAt, Examines
  <2>2. CASE UNCHANGED rx
    <3>1. \A x \in Names : lying[x] # 0 => lying'[x] = lying[x] \/ rx'[n].pc = "untake"
      BY LyingMoves
    <3>2. rx[n].pc = "rename" => rx[n].name \in Names
      BY TakeTyped DEF TypeOK, AtAnArtifact, Takes
    <3>3. QED BY <2>2, <3>1, <3>2 DEF FoundLies, FoundLiesAt, Examines
  <2>3. QED
    BY <1>1, <2>1, <2>2, GoesTo, TakeTyped
       DEF Settling, SettleOne, SettleRemember, SettleDone, Tell, Told, Accept, GiveBack,
           RememberRefused, HoldKept, ToldSettle, Takes
<1>2. CASE Crash(n)
  BY <1>2 DEF Crash, Idle, TypeOK, TakeType, FoundLiesAt, Examines
<1>3. QED BY <1>1, <1>2, FoundTake DEF Acts

LEMMA NextFound ==
  ASSUME TypeOK, InTurn, FoundLies, ~Overwrites, [Next]_vars PROVE FoundLies'
<1>1. ASSUME NEW n \in Nodes, Acts(n), NEW m \in Nodes PROVE FoundLiesAt(m)'
  <2>1. CASE m = n
    BY <1>1, <2>1, FoundActs
  <2>2. CASE m # n
    <3>1. UNCHANGED rx[m]
      BY <1>1, <2>2, OthersStay DEF Memory
    <3>2. ASSUME rx[m].pc = "rename" PROVE lying'[rx[m].name] = lying[rx[m].name]
      <4>1. rx[m].name \in Names /\ turns[rx[m].name] = m /\ lying[rx[m].name] # 0
        BY <3>2, TakeTyped DEF TypeOK, AtAnArtifact, Takes, InTurn, FoundLies, FoundLiesAt
      <4>2. ~(rx[n].pc = "rename" /\ rx[n].name = rx[m].name)
        BY <2>2, <4>1, ClaimAssumption DEF InTurn, TypeOK, AtAnArtifact
      <4>3. QED BY <1>1, <4>1, <4>2, LyingMoves
    <3>3. QED BY <3>1, <3>2 DEF FoundLies, FoundLiesAt, Examines
  <2>3. QED BY <2>1, <2>2
<1>2. ASSUME NEW x \in Names, Drop(x) PROVE FoundLies'
  <2>1. UNCHANGED rx /\ \A y \in Names : lying[y] # 0 => lying'[y] = lying[y]
    BY <1>2 DEF Drop, local, TypeOK, SiteType
  <2>2. \A m \in Nodes : rx[m].pc = "rename" => rx[m].name \in Names
    BY TakeTyped DEF TypeOK, AtAnArtifact, Takes
  <2>3. QED BY <2>1, <2>2 DEF FoundLies, FoundLiesAt, Examines
<1>3. CASE UNCHANGED vars
  BY <1>3 DEF vars, FoundLies, FoundLiesAt, Examines
<1>4. QED BY <1>1, <1>2, <1>3 DEF Next, Acts, FoundLies

\* Where no producer writes over a lying artifact, a claim takes the very
\* artifact its listing found, whatever other nodes do between the two and
\* whichever calls fail.
THEOREM ClaimsAsFound == ASSUME ~Overwrites PROVE Spec => ClaimsWhatItFound
<1> DEFINE Step == \A n \in Nodes, x \in Names : Receives(n, x) => lying[x] = rx[n].found[x]
<1>1. Init => FoundLies
  BY DEF Init, FoundLies, FoundLiesAt, Examines, Idle
<1>2. TypeOK /\ InTurn /\ FoundLies /\ [Next]_vars => FoundLies'
  BY NextFound
<1>3. FoundLies => Step
  BY DEF FoundLies, FoundLiesAt, Receives
<1> HIDE DEF Step
<1>4. Spec => [][Step]_vars
  BY <1>1, <1>2, <1>3, TypeCorrect, TurnExcludes, PTL DEF Spec
<1>5. QED BY <1>4 DEF Step, ClaimsWhatItFound

-----------------------------------------------------------------------------
(* What a step does to what is claimed.                                    *)

\* Restore touches one claimed name; answered that it is settled, nothing
\* lies under it any more.
LEMMA RestoreClears ==
  ASSUME TypeOK, NEW n \in Nodes, NEW c \in Claims, NEW answer, NEW isRefused,
         Restore(n, c, answer, isRefused)
  PROVE  /\ \A d \in Claims : d # c => claimed'[d] = claimed[d]
         /\ claimed'[c] \in {0, claimed[c]}
         /\ Settled(answer) => claimed'[c] = 0
<1>1. CASE Found(c) = "back" /\ answer # "failed"
  BY <1>1 DEF Restore, TypeOK, SiteType
<1>2. CASE ~(Found(c) = "back" /\ answer # "failed")
  <2>1. UNCHANGED claimed
    BY <1>2 DEF Restore
  <2>2. answer \in {Found(c), "failed", "lost"}
    BY DEF Restore, RestoreAnswers
  <2>3. Settled(answer) => claimed[c] = 0
    BY <1>2, <2>2 DEF Settled, Found
  <2>4. QED BY <2>1, <2>3
<1>3. QED BY <1>1, <1>2

\* A step of one node moves only what it claimed itself.
LEMMA OthersClaims ==
  ASSUME TypeOK, Tidy, NEW n \in Nodes, Acts(n), NEW c \in Claims, c.by # n
  PROVE  claimed'[c] = claimed[c]
<1>1. CASE RecoverReturn(n)
  <2>1. PICK d \in rx[n].left, answer \in Answers : Restore(n, d, answer, FALSE)
    BY <1>1 DEF RecoverReturn, Answers
  <2>2. d \in Claims /\ d.by = n
    BY TakeTyped, TakeOwn DEF Takes
  <2>3. QED BY <2>1, <2>2, RestoreClears
<1>2. CASE SettleOne(n)
  <2>1. PICK h \in settling[n].todo, answer \in Answers : Restore(n, h.claim, answer, h.refused)
    BY <1>2 DEF SettleOne, Answers
  <2>2. h.claim \in Claims /\ h.claim.by = n
    BY TakeOwn DEF Tidy, TidyAt, TypeOK, MemoryType, Held
  <2>3. QED BY <2>1, <2>2, RestoreClears
<1>3. CASE GiveBack(n)
  <2>1. PICK j \in jobs[n], isRefused \in BOOLEAN, answer \in Answers :
          Restore(n, j.claim, answer, isRefused)
    BY <1>3 DEF GiveBack, Answers
  <2>2. j.claim \in Claims /\ j.claim.by = n
    BY TakeOwn DEF TypeOK, CycleType, Jobs
  <2>3. QED BY <2>1, <2>2, RestoreClears
<1>4. CASE Accept(n)
  <2>1. PICK j \in jobs[n] : Deleted(j.claim) \/ UNCHANGED claimed
    BY <1>4 DEF Accept
  <2>2. j.claim.by = n
    BY TakeOwn
  <2>3. QED BY <2>1, <2>2 DEF Deleted, TypeOK, SiteType
<1>5. CASE (\E y \in Names : Won(n, y)) \/ RenameFailed(n)
  <2>1. Renamed(ClaimedName(n)) \/ UNCHANGED claimed
    BY <1>5 DEF Won, RenameFailed
  <2>2. ClaimedName(n).by = n
    BY <1>5, ClaimedNameTyped DEF Won, RenameFailed
  <2>3. QED BY <2>1, <2>2 DEF Renamed, TypeOK, SiteType
<1>6. CASE /\ ~RecoverReturn(n) /\ ~SettleOne(n) /\ ~GiveBack(n) /\ ~Accept(n)
           /\ ~(\E y \in Names : Won(n, y)) /\ ~RenameFailed(n)
  BY <1>6 DEF Acts, StartTake, Take, Settling, Tell, Told, Crash, site, RecoverList, RecoverTurn,
         RecoverTurnsDone, RecoverHold, RecoverDone, TakeSettle, List, Sift, Leave, TakeTurn,
         StillAsFound, RenameRefused, DropTurn, TakeDone, SettleRemember, SettleDone,
         RememberRefused, HoldKept, ToldSettle
<1>7. QED BY <1>1, <1>2, <1>3, <1>4, <1>5, <1>6

-----------------------------------------------------------------------------
(* What a cycle carries stays claimed for it until its verdict.            *)

\* A claim that is neither held nor in a cycle of n.
Apart(n, c) == (\A h \in held[n] : h.claim # c) /\ (\A j \in jobs[n] : j.claim # c)

\* What n recovers, what its receive has won, what is in its cycles and what
\* it holds are different claims, so that no return of the one takes the
\* other away.
HandsApartAt(n) ==
  /\ rx[n].pc \in {"recover", "turns", "giveback", "hold"} => jobs[n] = {}
  /\ ~Ordered /\ recovering[n] => rx[n].pc = "idle" /\ jobs[n] = {}
  /\ \A c \in rx[n].taken : claimed[c] # 0 /\ Apart(n, c)
  /\ rx[n].pc = "untake" => \A c \in rx[n].won : claimed[c] # 0 /\ c \notin rx[n].taken /\ Apart(n, c)
  /\ \A j \in jobs[n] :
       /\ j.stage = "carried" => claimed[j.claim] # 0
       /\ \A k \in jobs[n] : j.claim = k.claim => j = k
       /\ \A h \in held[n] : h.claim # j.claim

HandsApart == \A n \in Nodes : HandsApartAt(n)

\* Why a node starts over only with nothing in its hands: it is not asked
\* while a cycle is on, or what it asks when it starts is answered.
StartsAfresh == Ordered \/ {"list", "delete", "drop_turn"} \cap Failing = {}

LEMMA ApartGoes ==
  ASSUME TypeOK, HandsApart, NEW n \in Nodes, NEW r, Goes(n, r),
         UNCHANGED <<claimed, held, jobs>>, Ordered \/ UNCHANGED recovering,
         r.taken \subseteq rx[n].taken, r.won = {} \/ r.pc # "untake",
         r.pc \in {"recover", "turns", "giveback", "hold"}
           => rx[n].pc \in {"recover", "turns", "giveback", "hold"},
         r.pc = "idle" \/ rx[n].pc # "idle"
  PROVE  HandsApartAt(n)'
<1>1. rx'[n] = r
  BY GoesTo
<1>2. QED BY <1>1 DEF HandsApart, HandsApartAt, Apart

LEMMA ApartTake ==
  ASSUME TypeOK, Tidy, StartsAfresh, HandsApart, NEW n \in Nodes, StartTake(n) \/ Take(n)
  PROVE  HandsApartAt(n)'
<1>1. CASE StartTake(n)
  <2>1. /\ rx'[n].pc = IF recovering[n] THEN "recover" ELSE "settle"
        /\ rx'[n].taken = rx[n].taken /\ rx'[n].won = rx[n].won
    BY <1>1, TakeTyped, GoesTo DEF StartTake, Takes
  <2>2. /\ rx[n].pc = "idle" /\ ~recovering'[n] /\ UNCHANGED <<claimed, held, jobs>>
        /\ Ordered => jobs[n] = {}
    BY <1>1 DEF StartTake, site, TypeOK, MemoryType
  <2>3. QED BY <2>1, <2>2 DEF HandsApart, HandsApartAt, Apart
<1>2. CASE RecoverList(n)
  BY <1>2, TakeTyped, InHand, ApartGoes
     DEF RecoverList, RecoverFailed, StartsAfresh, Fails, site, Takes
<1>3. CASE RecoverTurn(n)
  <2>1. CASE UNCHANGED <<recovering, rx>>
    BY <1>3, <2>1 DEF RecoverTurn, HandsApart, HandsApartAt, Apart
  <2>2. CASE RecoverFailed(n) /\ Ordered
    BY <1>3, <2>2, TakeTyped, InHand, ApartGoes DEF RecoverTurn, RecoverFailed, Takes
  <2>3. QED BY <1>3, <2>1, <2>2 DEF RecoverTurn, StartsAfresh, Fails
<1>4. CASE RecoverTurnsDone(n)
  BY <1>4, TakeTyped, InHand, ApartGoes DEF RecoverTurnsDone, site, Takes
<1>5. CASE RecoverReturn(n)
  <2>1. PICK c \in rx[n].left, answer \in {"back", "gone", "kept", "failed", "lost"} :
          Goes(n, [rx[n] EXCEPT !.left = @ \ {c},
                                !.pc  = IF Settled(answer) THEN "giveback" ELSE "hold",
                                !.won = IF Settled(answer) THEN {} ELSE {c}])
    BY <1>5 DEF RecoverReturn
  <2>2. rx'[n].pc \in {"giveback", "hold"} /\ rx'[n].taken = rx[n].taken
    BY <2>1, TakeTyped, GoesTo DEF Takes
  <2>3. rx[n].pc = "giveback" /\ UNCHANGED <<recovering, held, jobs>>
    BY <1>5 DEF RecoverReturn
  <2>4. rx[n].taken = {}
    BY <2>3, InHand
  <2>5. QED BY <2>2, <2>3, <2>4 DEF HandsApart, HandsApartAt, Apart
<1>6. CASE RecoverHold(n)
  <2>1. rx'[n].pc = "giveback" /\ rx'[n].taken = rx[n].taken
    BY <1>6, TakeTyped, GoesTo DEF RecoverHold, Takes
  <2>2. rx[n].pc = "hold" /\ UNCHANGED <<claimed, recovering, jobs>>
    BY <1>6 DEF RecoverHold, site
  <2>3. rx[n].taken = {}
    BY <2>2, InHand
  <2>4. QED BY <2>1, <2>2, <2>3 DEF HandsApart, HandsApartAt, Apart
<1>7. CASE RecoverDone(n)
  BY <1>7, TakeTyped, InHand, ApartGoes DEF RecoverDone, site, Takes
<1>8. CASE TakeSettle(n)
  BY <1>8, TakeTyped, InHand, ApartGoes DEF TakeSettle, site, Takes
<1>9. CASE List(n)
  BY <1>9, TakeTyped, InHand, ApartGoes DEF List, Idle, site, Takes
<1>10. CASE Sift(n)
  BY <1>10, TakeTyped, InHand, ApartGoes DEF Sift, site, Takes
<1>11. CASE Leave(n)
  BY <1>11, TakeTyped, InHand, ApartGoes DEF Leave, site, Takes
<1>12. CASE TakeTurn(n)
  BY <1>12, TakeTyped, InHand, ApartGoes DEF TakeTurn, Takes
<1>13. CASE StillAsFound(n)
  BY <1>13, TakeTyped, InHand, ApartGoes DEF StillAsFound, site, Takes
<1>14. CASE \E x \in Names : Won(n, x)
  <2>1. PICK c \in Claims :
          /\ c \notin Known(n) /\ Renamed(c)
          /\ rx'[n].pc = "untake" /\ rx'[n].won = {c} /\ rx'[n].taken = rx[n].taken
    <3>1. /\ ClaimedName(n) \in Claims /\ ClaimedName(n) \notin Known(n) /\ Renamed(ClaimedName(n))
          /\ Goes(n, [rx[n] EXCEPT !.pc = "untake", !.won = {ClaimedName(n)}])
      BY <1>14, ClaimedNameTyped DEF Won
    <3>2. rx'[n] = [rx[n] EXCEPT !.pc = "untake", !.won = {ClaimedName(n)}]
      BY <3>1, GoesTo
    <3>3. QED BY <3>1, <3>2, TakeTyped DEF Takes
  <2>2. rx[n].pc = "rename" /\ UNCHANGED <<recovering, held, jobs>>
    BY <1>14 DEF Won
  <2>3. claimed'[c] # 0 /\ \A d \in Claims : d # c => claimed'[d] = claimed[d]
    BY <2>1 DEF Renamed, TypeOK, SiteType
  <2>4. Apart(n, c)' /\ c \notin rx[n].taken
    BY <2>1, <2>2 DEF Known, Apart
  <2>5. /\ rx[n].taken \subseteq Claims
        /\ \A j \in jobs[n] : j.claim \in Claims /\ j.claim # c
    BY <2>1, TakeTyped DEF Known, Takes, TypeOK, CycleType, Jobs
  <2>6. QED BY <2>1, <2>2, <2>3, <2>4, <2>5 DEF HandsApart, HandsApartAt, Apart
<1>15. CASE RenameRefused(n)
  BY <1>15, TakeTyped, InHand, ApartGoes DEF RenameRefused, site, Takes
<1>16. CASE RenameFailed(n)
  <2>1. /\ rx'[n].pc = "untake" /\ rx'[n].won = rx[n].won /\ rx'[n].taken = rx[n].taken
    BY <1>16, TakeTyped, GoesTo DEF RenameFailed, Takes
  <2>2. /\ rx[n].pc = "rename" /\ UNCHANGED <<recovering, held, jobs>>
        /\ Renamed(ClaimedName(n)) \/ UNCHANGED claimed
    BY <1>16 DEF RenameFailed
  <2>3. \A d \in Known(n) \cap Claims : claimed'[d] = claimed[d]
    BY <1>16, <2>2, ClaimedNameTyped DEF RenameFailed, Renamed, TypeOK, SiteType
  <2>4. /\ rx[n].taken \subseteq Known(n) \cap Claims
        /\ \A j \in jobs[n] : j.claim \in Known(n) \cap Claims
        /\ rx[n].won = {}
    BY <2>2, TakeTyped, InHand DEF Known, Takes, TypeOK, CycleType, Jobs
  <2>5. QED BY <2>1, <2>2, <2>3, <2>4 DEF HandsApart, HandsApartAt, Apart
<1>17. CASE DropTurn(n)
  <2>1. /\ rx[n].pc = "untake" /\ rx'[n].pc = "examine"
        /\ rx'[n].taken \subseteq rx[n].taken \cup rx[n].won
    <3>1. \/ Goes(n, [rx[n] EXCEPT !.pc = "examine", !.name = NoName, !.won = {},
                                   !.taken = @ \cup rx[n].won])
          \/ Goes(n, [rx[n] EXCEPT !.pc = "examine", !.name = NoName, !.won = {},
                                   !.broken = TRUE])
      BY <1>17 DEF DropTurn
    <3>2. rx'[n].taken = rx[n].taken \cup rx[n].won \/ rx'[n].taken = rx[n].taken
      BY <3>1, TakeTyped, GoesTo DEF Takes
    <3>3. rx'[n].pc = "examine"
      BY <3>1, TakeTyped, GoesTo DEF Takes
    <3>4. QED BY <1>17, <3>2, <3>3 DEF DropTurn
  <2>2. UNCHANGED <<claimed, recovering, held, jobs>>
    BY <1>17 DEF DropTurn
  <2>3. QED BY <2>1, <2>2 DEF HandsApart, HandsApartAt, Apart
<1>18. CASE TakeDone(n)
  <2> DEFINE new == {[claim |-> c, stage |-> "carried", refused |-> FALSE] : c \in rx[n].taken}
  <2>1. \A j \in new : /\ j = [claim |-> j.claim, stage |-> "carried", refused |-> FALSE]
                       /\ j.claim \in rx[n].taken
    OBVIOUS
  <2>2. /\ rx[n].pc = "examine" /\ UNCHANGED <<claimed, recovering, held>>
        /\ rx'[n] = Idle /\ jobs'[n] = jobs[n] \cup new
    BY <1>18, GoesTo DEF TakeDone, site, TypeOK, CycleType
  <2> HIDE DEF new
  <2>3. \A j \in jobs'[n] :
          /\ j.stage = "carried" => claimed[j.claim] # 0
          /\ \A k \in jobs'[n] : j.claim = k.claim => j = k
          /\ \A h \in held[n] : h.claim # j.claim
    BY <2>1, <2>2 DEF HandsApart, HandsApartAt, Apart
  <2>4. Ordered \/ ~recovering[n]
    BY <2>2 DEF HandsApart, HandsApartAt, TypeOK, MemoryType
  <2>5. QED BY <2>2, <2>3, <2>4 DEF HandsApartAt, Idle
<1>19. QED
  BY <1>1, <1>2, <1>3, <1>4, <1>5, <1>6, <1>7, <1>8, <1>9, <1>10, <1>11, <1>12, <1>13, <1>14,
     <1>15, <1>16, <1>17, <1>18 DEF Take

LEMMA ApartSettling ==
  ASSUME TypeOK, Tidy, HandsApart, NEW n \in Nodes, Settling(n) PROVE HandsApartAt(n)'
<1>1. CASE SettleOne(n)
  <2>1. PICK h \in settling[n].todo, answer \in Answers :
          /\ Restore(n, h.claim, answer, h.refused)
          /\ held' = IF Settled(answer) THEN [held EXCEPT ![n] = @ \ {h}] ELSE held
    BY <1>1 DEF SettleOne, Answers
  <2>2. h \in held[n] /\ h.claim \in Claims
    BY DEF Tidy, TidyAt, TypeOK, MemoryType, Held
  <2>3. /\ UNCHANGED <<rx, recovering, jobs>> /\ held'[n] \subseteq held[n]
        /\ \A d \in Claims : d # h.claim => claimed'[d] = claimed[d]
    BY <1>1, <2>1, <2>2, RestoreClears DEF SettleOne, TypeOK, MemoryType
  <2>4. /\ rx[n].taken \subseteq Claims /\ rx[n].won \subseteq Claims
        /\ \A j \in jobs[n] : j.claim \in Claims
    BY TakeTyped DEF Takes, TypeOK, CycleType, Jobs
  <2>5. QED BY <2>2, <2>3, <2>4 DEF HandsApart, HandsApartAt, Apart
<1>2. CASE SettleRemember(n)
  BY <1>2 DEF SettleRemember, site, HandsApart, HandsApartAt, Apart
<1>3. CASE SettleDone(n)
  <2>1. CASE UNCHANGED rx
    BY <1>3, <2>1 DEF SettleDone, site, HandsApart, HandsApartAt, Apart
  <2>2. CASE Goes(n, [rx[n] EXCEPT !.pc = "list"]) /\ settling[n].by = "take"
    BY <1>3, <2>2, TakeTyped, ApartGoes DEF SettleDone, site, Takes, TypeOK, SettlesInTake
  <2>3. QED BY <1>3, <2>1, <2>2 DEF SettleDone
<1>4. QED BY <1>1, <1>2, <1>3 DEF Settling

\* A cycle that ends or goes to a stage after its verdict, its claim given
\* away or held.
LEMMA ApartCycle ==
  ASSUME TypeOK, HandsApart, NEW n \in Nodes, NEW j \in jobs[n], NEW k,
         k.claim = j.claim, k.stage # "carried",
         UNCHANGED <<rx, recovering>>,
         \A d \in Claims : d # j.claim => claimed'[d] = claimed[d],
         \/ jobs'[n] = (jobs[n] \ {j}) \cup {k} /\ UNCHANGED held
         \/ jobs'[n] = jobs[n] \ {j} /\ \A h \in held'[n] : h \in held[n] \/ h.claim = j.claim
  PROVE  HandsApartAt(n)'
<1>1. /\ rx[n].taken \subseteq Claims /\ rx[n].won \subseteq Claims
      /\ \A i \in jobs[n] : i.claim \in Claims
  BY TakeTyped DEF Takes, TypeOK, CycleType, Jobs
<1>2. jobs[n] # {}
  OBVIOUS
<1>3. \A i \in jobs[n] : i # j => i.claim # j.claim
  BY DEF HandsApart, HandsApartAt
<1>4. \A c \in rx[n].taken : claimed'[c] # 0 /\ Apart(n, c)'
  BY <1>1, <1>3 DEF HandsApart, HandsApartAt, Apart
<1>5. rx[n].pc = "untake" =>
        \A c \in rx[n].won : claimed'[c] # 0 /\ c \notin rx[n].taken /\ Apart(n, c)'
  BY <1>1, <1>3 DEF HandsApart, HandsApartAt, Apart
<1>6. \A i \in jobs'[n] :
       /\ i.stage = "carried" => claimed'[i.claim] # 0
       /\ \A l \in jobs'[n] : i.claim = l.claim => i = l
       /\ \A h \in held'[n] : h.claim # i.claim
  BY <1>1, <1>3 DEF HandsApart, HandsApartAt
<1>7. QED BY <1>2, <1>4, <1>5, <1>6 DEF HandsApart, HandsApartAt

LEMMA ApartTold ==
  ASSUME TypeOK, HandsApart, NEW n \in Nodes, Tell(n) \/ Told(n) PROVE HandsApartAt(n)'
<1> USE DEF At, Over
<1> DEFINE After(j, s, isRefused) == [claim |-> j.claim, stage |-> s, refused |-> isRefused]
<1>1. CASE Accept(n)
  <2>1. PICK j \in jobs[n] :
          /\ Deleted(j.claim) \/ UNCHANGED claimed
          /\ At(n, j, "settle", FALSE) \/ Over(n, j)
    BY <1>1 DEF Accept
  <2>2. UNCHANGED <<rx, recovering, held>>
    BY <1>1 DEF Accept
  <2>3. \A d \in Claims : d # j.claim => claimed'[d] = claimed[d]
    BY <2>1 DEF Deleted, TypeOK, SiteType
  <2>4. \/ jobs'[n] = (jobs[n] \ {j}) \cup {After(j, "settle", FALSE)}
        \/ jobs'[n] = jobs[n] \ {j}
    BY <2>1 DEF TypeOK, CycleType
  <2>5. After(j, "settle", FALSE).claim = j.claim /\ After(j, "settle", FALSE).stage # "carried"
    OBVIOUS
  <2> HIDE DEF After
  <2>6. QED BY <2>2, <2>3, <2>4, <2>5, ApartCycle
<1>2. CASE GiveBack(n)
  <2>1. PICK j \in jobs[n], isRefused \in BOOLEAN, answer \in Answers :
          /\ Restore(n, j.claim, answer, isRefused)
          /\ At(n, j, "hold", isRefused) \/ At(n, j, "remember", TRUE) \/ Over(n, j)
    BY <1>2 DEF GiveBack, Answers
  <2>2. UNCHANGED <<rx, recovering, held>>
    BY <1>2 DEF GiveBack
  <2>3. \A d \in Claims : d # j.claim => claimed'[d] = claimed[d]
    BY <2>1, RestoreClears DEF TypeOK, CycleType, Jobs
  <2>4. PICK s \in {"hold", "remember"}, b \in BOOLEAN :
          jobs'[n] = (jobs[n] \ {j}) \cup {After(j, s, b)} \/ jobs'[n] = jobs[n] \ {j}
    BY <2>1 DEF TypeOK, CycleType
  <2>5. After(j, s, b).claim = j.claim /\ After(j, s, b).stage # "carried"
    OBVIOUS
  <2> HIDE DEF After
  <2>6. QED BY <2>2, <2>3, <2>4, <2>5, ApartCycle
<1>3. CASE RememberRefused(n) \/ HoldKept(n) \/ ToldSettle(n)
  <2>1. PICK j \in jobs[n] :
          /\ jobs' = [jobs EXCEPT ![n] = @ \ {j}]
          /\ UNCHANGED held \/ Hold(n, j.claim, j.refused)
    BY <1>3 DEF RememberRefused, HoldKept, ToldSettle
  <2>2. UNCHANGED <<rx, recovering, claimed>>
    BY <1>3 DEF RememberRefused, HoldKept, ToldSettle, site
  <2>3. \A h \in held'[n] : h \in held[n] \/ h.claim = j.claim
    BY <2>1 DEF Hold, TypeOK, MemoryType
  <2>4. jobs'[n] = jobs[n] \ {j}
    BY <2>1 DEF TypeOK, CycleType
  <2>5. After(j, "settle", FALSE).claim = j.claim /\ After(j, "settle", FALSE).stage # "carried"
    OBVIOUS
  <2> HIDE DEF After
  <2>6. QED BY <2>2, <2>3, <2>4, <2>5, ApartCycle
<1>4. QED BY <1>1, <1>2, <1>3 DEF Tell, Told

LEMMA NextApart ==
  ASSUME TypeOK, Tidy, StartsAfresh, HandsApart, [Next]_vars PROVE HandsApart'
<1>1. ASSUME NEW m \in Nodes, UNCHANGED Memory(m), \A c \in Claims : c.by = m => claimed'[c] = claimed[c]
      PROVE  HandsApartAt(m)'
  <2>1. \A c \in rx[m].taken \cup rx[m].won : claimed'[c] = claimed[c]
    BY <1>1, TakeTyped, TakeOwn DEF Takes
  <2>2. \A j \in jobs[m] : claimed'[j.claim] = claimed[j.claim]
    BY <1>1, TakeOwn DEF TypeOK, CycleType, Jobs
  <2>3. QED BY <1>1, <2>1, <2>2 DEF Memory, HandsApart, HandsApartAt, Apart
<1>2. ASSUME NEW n \in Nodes, Acts(n) PROVE HandsApart'
  <2>1. HandsApartAt(n)'
    <3>1. CASE Crash(n)
      BY <3>1 DEF Crash, HandsApartAt, Idle, TypeOK, TakeType, CycleType
    <3>2. QED BY <1>2, <3>1, ApartTake, ApartSettling, ApartTold DEF Acts
  <2>2. \A m \in Nodes : m # n => HandsApartAt(m)'
    BY <1>1, <1>2, OthersStay, OthersClaims
  <2>3. QED BY <2>1, <2>2 DEF HandsApart
<1>3. ASSUME NEW x \in Names, Drop(x) PROVE HandsApart'
  BY <1>1, <1>3 DEF Drop, local, Memory, HandsApart
<1>4. CASE UNCHANGED vars
  BY <1>1, <1>4 DEF vars, Memory, HandsApart
<1>5. QED BY <1>2, <1>3, <1>4 DEF Next, Acts

\* One holder at a time: while a cycle has its artifact, that lies claimed
\* for it, at an ordered Location always, and at any other whenever a node
\* that starts is answered what it asks.
THEOREM CyclesHold == ASSUME StartsAfresh PROVE Spec => []HeldByItsCycle
<1>1. Init => HandsApart
  BY DEF Init, HandsApart, HandsApartAt, Idle
<1>2. TypeOK /\ Tidy /\ HandsApart /\ [Next]_vars => HandsApart'
  BY NextApart
<1>3. HandsApart => HeldByItsCycle
  BY DEF HandsApart, HandsApartAt, HeldByItsCycle
<1>4. QED BY <1>1, <1>2, <1>3, TypeCorrect, AlwaysTidy, PTL DEF Spec

-----------------------------------------------------------------------------
(* No claim is forgotten, where the calls that make, keep and end one are  *)
(* answered.                                                               *)

\* What n claimed it knows of, or will find when it recovers.
ClaimsKnown(n) ==
  \A c \in Claims :
    c.by = n /\ claimed[c] # 0 => c \in Known(n) \/ recovering[n] \/ rx[n].pc = "recover"

\* A cycle that only has to remember or to settle has nothing claimed left.
GivenAway(n) == \A j \in jobs[n] : j.stage \in {"remember", "settle"} => claimed[j.claim] = 0

ClaimsFollowed == NoClaimLeft /\ \A n \in Nodes : GivenAway(n)

LEMMA FollowedAt == ASSUME ClaimsFollowed, NEW n \in Nodes PROVE ClaimsKnown(n) /\ GivenAway(n)
BY DEF ClaimsFollowed, NoClaimLeft, ClaimsKnown

\* A receive that goes on as r and still knows what it knew.
LEMMA ClaimsGo ==
  ASSUME TypeOK, ClaimsFollowed, NEW n \in Nodes, NEW r, Goes(n, r), UNCHANGED <<claimed, held, jobs>>,
         rx[n].left \cup rx[n].won \cup rx[n].taken \subseteq r.left \cup r.won \cup r.taken,
         recovering[n] \/ rx[n].pc = "recover" => recovering'[n] \/ r.pc = "recover"
  PROVE  ClaimsKnown(n)' /\ GivenAway(n)'
<1>1. rx'[n] = r
  BY GoesTo
<1>2. Known(n) \subseteq Known(n)'
  BY <1>1 DEF Known
<1>3. QED BY <1>1, <1>2, FollowedAt DEF ClaimsKnown, GivenAway

\* A step that leaves n's cycles alone keeps what they have given away.
LEMMA AwayStays ==
  ASSUME TypeOK, ClaimsFollowed, NEW n \in Nodes, UNCHANGED jobs,
         \A j \in jobs[n] : claimed'[j.claim] \in {0, claimed[j.claim]}
  PROVE  GivenAway(n)'
BY FollowedAt DEF GivenAway

LEMMA ClaimsTake ==
  ASSUME TypeOK, Tidy, ClaimsFollowed, {"rename", "drop_turn"} \cap Failing = {},
         NEW n \in Nodes, StartTake(n) \/ Take(n)
  PROVE  ClaimsKnown(n)' /\ GivenAway(n)'
<1>1. CASE StartTake(n)
  BY <1>1, TakeTyped, ClaimsGo DEF StartTake, site, Takes, TypeOK, MemoryType
<1>2. CASE RecoverList(n)
  <2>1. UNCHANGED <<claimed, held, jobs>> /\ rx[n].pc = "recover"
    BY <1>2 DEF RecoverList, site
  <2>2. CASE RecoverFailed(n)
    BY <2>2 , FollowedAt, <2>1 DEF RecoverFailed, TypeOK, MemoryType, ClaimsKnown, GivenAway
  <2>3. CASE Goes(n, [rx[n] EXCEPT !.pc = "turns", !.left = {c \in Claims : Own(n, c)}])
    <3>1. rx'[n] = [rx[n] EXCEPT !.pc = "turns", !.left = {c \in Claims : Own(n, c)}]
      BY <2>3, GoesTo
    <3>2. rx'[n].left = {c \in Claims : Own(n, c)}
      BY <3>1, TakeTyped DEF Takes
    <3>3. QED BY <2>1, <3>2, FollowedAt DEF Own, Known, ClaimsKnown, GivenAway
  <2>4. QED BY <1>2, <2>2, <2>3 DEF RecoverList
<1>3. CASE RecoverTurn(n)
  <2>1. CASE UNCHANGED <<recovering, rx>>
    BY <1>3, <2>1, FollowedAt DEF RecoverTurn, Known, ClaimsKnown, GivenAway
  <2>2. CASE RecoverFailed(n)
    BY <1>3, <2>2, FollowedAt
       DEF RecoverTurn, RecoverFailed, TypeOK, MemoryType, ClaimsKnown, GivenAway
  <2>3. QED BY <1>3, <2>1, <2>2 DEF RecoverTurn
<1>4. CASE RecoverTurnsDone(n)
  BY <1>4, TakeTyped, ClaimsGo DEF RecoverTurnsDone, site, Takes
<1>5. CASE RecoverReturn(n)
  <2>1. PICK c \in rx[n].left, answer \in {"back", "gone", "kept", "failed", "lost"} :
          /\ Restore(n, c, answer, FALSE)
          /\ Goes(n, [rx[n] EXCEPT !.left = @ \ {c},
                                   !.pc  = IF Settled(answer) THEN "giveback" ELSE "hold",
                                   !.won = IF Settled(answer) THEN {} ELSE {c}])
    BY <1>5 DEF RecoverReturn
  <2>2. /\ rx'[n].left = rx[n].left \ {c} /\ rx'[n].taken = rx[n].taken
        /\ rx'[n].won = IF Settled(answer) THEN {} ELSE {c}
    BY <2>1, TakeTyped, GoesTo DEF Takes
  <2>3. rx[n].pc = "giveback" /\ UNCHANGED <<recovering, held, jobs>> /\ c \in Claims
    BY <1>5, TakeTyped DEF RecoverReturn, Takes
  <2>4. rx[n].won = {}
    BY <2>3, InHand
  <2>5. /\ \A d \in Claims : d # c => claimed'[d] = claimed[d]
        /\ claimed'[c] \in {0, claimed[c]}
        /\ Settled(answer) => claimed'[c] = 0
    BY <2>1, <2>3, RestoreClears
  <2>6. GivenAway(n)'
    BY <2>3, <2>5, AwayStays DEF TypeOK, CycleType, Jobs
  <2>7. Known(n) \subseteq Known(n)' \cup {c} /\ (~Settled(answer) => c \in Known(n)')
    BY <2>2, <2>3, <2>4 DEF Known
  <2>8. QED BY <2>3, <2>5, <2>6, <2>7, FollowedAt DEF ClaimsKnown
<1>6. CASE RecoverHold(n)
  <2>1. PICK c \in rx[n].won : Hold(n, c, FALSE)
    BY <1>6 DEF RecoverHold
  <2>2. /\ rx'[n].left = rx[n].left /\ rx'[n].taken = rx[n].taken
        /\ rx[n].pc = "hold" /\ UNCHANGED <<claimed, recovering, jobs>>
    BY <1>6, TakeTyped, GoesTo DEF RecoverHold, site, Takes
  <2>3. rx[n].won = {c}
    BY <2>1, InHand
  <2>4. /\ [claim |-> c, refused |-> FALSE] \in held'[n]
        /\ \A h \in held[n] : h.claim # c => h \in held'[n]
    BY <2>1 DEF Hold, TypeOK, MemoryType
  <2>5. Known(n) \subseteq Known(n)'
    <3>1. c \in Known(n)'
      BY <2>4 DEF Known
    <3>2. \A h \in held[n] : h.claim \in Known(n)'
      BY <2>4, <3>1 DEF Known
    <3>3. QED BY <2>2, <2>3, <3>1, <3>2 DEF Known
  <2>6. QED BY <2>2, <2>5, FollowedAt DEF ClaimsKnown, GivenAway
<1>7. CASE RecoverDone(n)
  BY <1>7, TakeTyped, ClaimsGo DEF RecoverDone, site, Takes
<1>8. CASE TakeSettle(n)
  BY <1>8, TakeTyped, ClaimsGo DEF TakeSettle, site, Takes
<1>9. CASE List(n)
  BY <1>9, TakeTyped, InHand, ClaimsGo DEF List, Idle, site, Takes
<1>10. CASE Sift(n)
  BY <1>10, TakeTyped, ClaimsGo DEF Sift, site, Takes
<1>11. CASE Leave(n)
  BY <1>11, TakeTyped, ClaimsGo DEF Leave, site, Takes
<1>12. CASE TakeTurn(n)
  BY <1>12, TakeTyped, ClaimsGo DEF TakeTurn, Takes
<1>13. CASE StillAsFound(n)
  BY <1>13, TakeTyped, ClaimsGo DEF StillAsFound, site, Takes
<1>14. CASE \E x \in Names : Won(n, x)
  <2>1. /\ ClaimedName(n) \in Claims /\ ClaimedName(n) \notin Known(n) /\ Renamed(ClaimedName(n))
        /\ Goes(n, [rx[n] EXCEPT !.pc = "untake", !.won = {ClaimedName(n)}])
        /\ rx[n].pc = "rename" /\ UNCHANGED <<recovering, held, jobs>>
    BY <1>14, ClaimedNameTyped DEF Won
  <2>2. rx'[n] = [rx[n] EXCEPT !.pc = "untake", !.won = {ClaimedName(n)}]
    BY <2>1, GoesTo
  <2>3. rx'[n].won = {ClaimedName(n)} /\ rx'[n].left = rx[n].left /\ rx'[n].taken = rx[n].taken
    BY <2>2, TakeTyped DEF Takes
  <2>4. \A d \in Claims : d # ClaimedName(n) => claimed'[d] = claimed[d]
    BY <2>1 DEF Renamed, TypeOK, SiteType
  <2>5. rx[n].won = {}
    BY <2>1, InHand
  <2>6. Known(n) \cup {ClaimedName(n)} \subseteq Known(n)'
    BY <2>1, <2>3, <2>5 DEF Known
  <2>7. \A j \in jobs[n] : j.claim # ClaimedName(n) /\ j.claim \in Claims
    BY <2>1 DEF Known, TypeOK, CycleType, Jobs
  <2>8. QED BY <2>1, <2>4, <2>6, <2>7, FollowedAt, AwayStays DEF ClaimsKnown
<1>15. CASE RenameRefused(n)
  BY <1>15, TakeTyped, ClaimsGo DEF RenameRefused, site, Takes
<1>16. CASE DropTurn(n)
  <2>1. Goes(n, [rx[n] EXCEPT !.pc = "examine", !.name = NoName, !.won = {},
                              !.taken = @ \cup rx[n].won])
    BY <1>16 DEF DropTurn, Fails
  <2>2. UNCHANGED <<claimed, recovering, held, jobs>> /\ rx[n].pc = "untake"
    BY <1>16 DEF DropTurn
  <2>3. QED BY <2>1, <2>2, TakeTyped, ClaimsGo DEF Takes
<1>17. CASE TakeDone(n)
  <2> DEFINE new == {[claim |-> c, stage |-> "carried", refused |-> FALSE] : c \in rx[n].taken}
  <2>1. /\ \A j \in new : j.stage = "carried"
        /\ \A c \in rx[n].taken : \E j \in new : j.claim = c
    <3>1. \A c \in rx[n].taken :
            /\ [claim |-> c, stage |-> "carried", refused |-> FALSE] \in new
            /\ [claim |-> c, stage |-> "carried", refused |-> FALSE].claim = c
      OBVIOUS
    <3>2. \A c \in rx[n].taken : \E j \in new : j.claim = c
      BY <3>1, Zenon
    <3>3. QED BY <3>2
  <2>2. /\ rx[n].pc = "examine" /\ UNCHANGED <<claimed, recovering, held>>
        /\ rx'[n] = Idle /\ jobs'[n] = jobs[n] \cup new
    BY <1>17, GoesTo DEF TakeDone, site, TypeOK, CycleType
  <2> HIDE DEF new
  <2>3. Known(n) \subseteq Known(n)'
    BY <2>1, <2>2, InHand DEF Known
  <2>4. QED BY <2>1, <2>2, <2>3, FollowedAt DEF ClaimsKnown, GivenAway
<1>18. QED
  BY <1>1, <1>2, <1>3, <1>4, <1>5, <1>6, <1>7, <1>8, <1>9, <1>10, <1>11, <1>12, <1>13, <1>14,
     <1>15, <1>16, <1>17 DEF Take, RenameFailed, Fails

LEMMA ClaimsSettling ==
  ASSUME TypeOK, Tidy, ClaimsFollowed, NEW n \in Nodes, Settling(n)
  PROVE  ClaimsKnown(n)' /\ GivenAway(n)'
<1>1. CASE SettleOne(n)
  <2>1. PICK h \in settling[n].todo, answer \in Answers :
          /\ Restore(n, h.claim, answer, h.refused)
          /\ held' = IF Settled(answer) THEN [held EXCEPT ![n] = @ \ {h}] ELSE held
    BY <1>1 DEF SettleOne, Answers
  <2>2. h \in held[n] /\ h.claim \in Claims /\ UNCHANGED <<rx, recovering, jobs>>
    BY <1>1 DEF SettleOne, Tidy, TidyAt, TypeOK, MemoryType, Held
  <2>3. /\ \A d \in Claims : d # h.claim => claimed'[d] = claimed[d]
        /\ claimed'[h.claim] \in {0, claimed[h.claim]}
        /\ Settled(answer) => claimed'[h.claim] = 0
    BY <2>1, <2>2, RestoreClears
  <2>4. GivenAway(n)'
    BY <2>2, <2>3, AwayStays DEF TypeOK, CycleType, Jobs
  <2>5. /\ ~Settled(answer) => held'[n] = held[n]
        /\ \A g \in held[n] : g # h => g \in held'[n]
    BY <2>1 DEF TypeOK, MemoryType
  <2>6. Known(n) \subseteq Known(n)' \cup {h.claim} /\ (~Settled(answer) => h.claim \in Known(n)')
    BY <2>2, <2>5 DEF Known
  <2>7. QED BY <2>2, <2>3, <2>4, <2>6, FollowedAt DEF ClaimsKnown
<1>2. CASE SettleRemember(n)
  BY <1>2, FollowedAt DEF SettleRemember, site, ClaimsKnown, GivenAway, Known
<1>3. CASE SettleDone(n)
  <2>1. CASE UNCHANGED rx
    BY <1>3, <2>1, FollowedAt DEF SettleDone, site, ClaimsKnown, GivenAway, Known
  <2>2. CASE Goes(n, [rx[n] EXCEPT !.pc = "list"]) /\ settling[n].by = "take"
    BY <1>3, <2>2, TakeTyped, ClaimsGo DEF SettleDone, site, Takes, TypeOK, SettlesInTake
  <2>3. QED BY <1>3, <2>1, <2>2 DEF SettleDone
<1>4. QED BY <1>1, <1>2, <1>3 DEF Settling

LEMMA ClaimsTold ==
  ASSUME TypeOK, ClaimsFollowed, "delete" \notin Failing, NEW n \in Nodes, Tell(n) \/ Told(n)
  PROVE  ClaimsKnown(n)' /\ GivenAway(n)'
<1> USE DEF At, Over
<1> DEFINE After(j, s, isRefused) == [claim |-> j.claim, stage |-> s, refused |-> isRefused]
<1>1. ASSUME NEW j \in jobs[n], UNCHANGED <<rx, recovering>>,
             \A d \in Claims : d # j.claim => claimed'[d] = claimed[d],
             claimed'[j.claim] \in {0, claimed[j.claim]},
             \/ /\ jobs'[n] = jobs[n] \ {j} /\ UNCHANGED held
                /\ claimed'[j.claim] = 0
             \/ \E s \in Stages, b \in BOOLEAN :
                  /\ jobs'[n] = (jobs[n] \ {j}) \cup {After(j, s, b)} /\ UNCHANGED held
                  /\ s \in {"remember", "settle"} => claimed'[j.claim] = 0
      PROVE  ClaimsKnown(n)' /\ GivenAway(n)'
  <2>1. \A i \in jobs[n] : i.claim \in Claims
    BY DEF TypeOK, CycleType, Jobs
  <2>2. CASE jobs'[n] = jobs[n] \ {j} /\ UNCHANGED held /\ claimed'[j.claim] = 0
    <3>1. Known(n) \subseteq Known(n)' \cup {j.claim}
      BY <1>1, <2>2 DEF Known
    <3>2. QED BY <1>1, <2>1, <2>2, <3>1, FollowedAt DEF ClaimsKnown, GivenAway
  <2>3. ASSUME NEW s \in Stages, NEW b \in BOOLEAN,
               jobs'[n] = (jobs[n] \ {j}) \cup {After(j, s, b)}, UNCHANGED held,
               s \in {"remember", "settle"} => claimed'[j.claim] = 0
        PROVE  ClaimsKnown(n)' /\ GivenAway(n)'
    <3>1. After(j, s, b).claim = j.claim /\ After(j, s, b).stage = s
      OBVIOUS
    <3> HIDE DEF After
    <3>2. Known(n) \subseteq Known(n)'
      BY <1>1, <2>3, <3>1 DEF Known
    <3>3. QED BY <1>1, <2>1, <2>3, <3>1, <3>2, FollowedAt DEF ClaimsKnown, GivenAway
  <2>4. QED BY <1>1, <2>2, <2>3
<1>2. CASE Accept(n)
  <2>1. PICK j \in jobs[n] : Deleted(j.claim) /\ At(n, j, "settle", FALSE)
    BY <1>2 DEF Accept, Fails
  <2>2. UNCHANGED <<rx, recovering, held>> /\ j.claim \in Claims
    BY <1>2 DEF Accept, TypeOK, CycleType, Jobs
  <2>3. claimed'[j.claim] = 0 /\ \A d \in Claims : d # j.claim => claimed'[d] = claimed[d]
    BY <2>1, <2>2 DEF Deleted, TypeOK, SiteType
  <2>4. jobs'[n] = (jobs[n] \ {j}) \cup {After(j, "settle", FALSE)}
    BY <2>1 DEF TypeOK, CycleType
  <2> HIDE DEF After
  <2>5. QED BY <1>1, <2>2, <2>3, <2>4 DEF Stages
<1>3. CASE GiveBack(n)
  <2>1. PICK j \in jobs[n], isRefused \in BOOLEAN, answer \in Answers :
          /\ Restore(n, j.claim, answer, isRefused)
          /\ IF ~Settled(answer) THEN At(n, j, "hold", isRefused)
             ELSE IF answer = "back" /\ isRefused THEN At(n, j, "remember", TRUE)
             ELSE Over(n, j)
    BY <1>3 DEF GiveBack, Answers
  <2>2. UNCHANGED <<rx, recovering, held>> /\ j.claim \in Claims
    BY <1>3 DEF GiveBack, TypeOK, CycleType, Jobs
  <2>3. /\ \A d \in Claims : d # j.claim => claimed'[d] = claimed[d]
        /\ claimed'[j.claim] \in {0, claimed[j.claim]}
        /\ Settled(answer) => claimed'[j.claim] = 0
    BY <2>1, <2>2, RestoreClears
  <2>4. \/ jobs'[n] = jobs[n] \ {j} /\ Settled(answer)
        \/ jobs'[n] = (jobs[n] \ {j}) \cup {After(j, "remember", TRUE)} /\ Settled(answer)
        \/ jobs'[n] = (jobs[n] \ {j}) \cup {After(j, "hold", isRefused)}
    BY <2>1 DEF TypeOK, CycleType
  <2> HIDE DEF After
  <2>5. QED BY <1>1, <2>2, <2>3, <2>4 DEF Stages
<1>4. CASE RememberRefused(n) \/ ToldSettle(n)
  <2>1. PICK j \in jobs[n] : j.stage \in {"remember", "settle"} /\ Over(n, j)
    BY <1>4 DEF RememberRefused, ToldSettle
  <2>2. UNCHANGED <<rx, recovering, held, claimed>>
    BY <1>4 DEF RememberRefused, ToldSettle, site
  <2>3. jobs'[n] = jobs[n] \ {j} /\ claimed[j.claim] = 0
    BY <2>1, FollowedAt DEF GivenAway, TypeOK, CycleType
  <2> HIDE DEF After
  <2>4. QED BY <1>1, <2>2, <2>3
<1>5. CASE HoldKept(n)
  <2>1. PICK j \in jobs[n] : Hold(n, j.claim, j.refused) /\ Over(n, j)
    BY <1>5 DEF HoldKept
  <2>2. UNCHANGED <<rx, recovering, claimed>> /\ jobs'[n] = jobs[n] \ {j}
    BY <1>5, <2>1 DEF HoldKept, site, TypeOK, CycleType
  <2>3. /\ [claim |-> j.claim, refused |-> j.refused] \in held'[n]
        /\ \A h \in held[n] : h.claim # j.claim => h \in held'[n]
    BY <2>1 DEF Hold, TypeOK, MemoryType
  <2>4. j.claim \in Known(n)'
    BY <2>3 DEF Known
  <2>5. \A h \in held[n] : h.claim \in Known(n)'
    BY <2>3, <2>4 DEF Known
  <2>6. Known(n) \subseteq Known(n)'
    BY <2>2, <2>4, <2>5 DEF Known
  <2>7. QED BY <2>2, <2>6, FollowedAt DEF ClaimsKnown, GivenAway
<1>6. QED BY <1>2, <1>3, <1>4, <1>5 DEF Tell, Told

LEMMA NextFollowed ==
  ASSUME TypeOK, Tidy, ClaimsFollowed, {"rename", "drop_turn", "delete"} \cap Failing = {},
         [Next]_vars
  PROVE  ClaimsFollowed'
<1>1. ASSUME \A m \in Nodes : ClaimsKnown(m)' /\ GivenAway(m)' PROVE ClaimsFollowed'
  BY <1>1 DEF ClaimsFollowed, NoClaimLeft, ClaimsKnown, Claims
<1>2. ASSUME NEW m \in Nodes, UNCHANGED Memory(m), \A c \in Claims : c.by = m => claimed'[c] = claimed[c]
      PROVE  ClaimsKnown(m)' /\ GivenAway(m)'
  <2>1. \A j \in jobs[m] : claimed'[j.claim] = claimed[j.claim]
    BY <1>2, TakeOwn DEF TypeOK, CycleType, Jobs
  <2>2. QED BY <1>2, <2>1, FollowedAt DEF Memory, ClaimsKnown, GivenAway, Known
<1>3. ASSUME NEW n \in Nodes, Acts(n) PROVE ClaimsFollowed'
  <2>1. ClaimsKnown(n)' /\ GivenAway(n)'
    <3>1. CASE Crash(n)
      BY <3>1 DEF Crash, TypeOK, MemoryType, CycleType, ClaimsKnown, GivenAway
    <3>2. QED BY <1>3, <3>1, ClaimsTake, ClaimsSettling, ClaimsTold DEF Acts
  <2>2. \A m \in Nodes : m # n => ClaimsKnown(m)' /\ GivenAway(m)'
    BY <1>2, <1>3, OthersStay, OthersClaims
  <2>3. QED BY <1>1, <2>1, <2>2
<1>4. ASSUME NEW x \in Names, Drop(x) PROVE ClaimsFollowed'
  BY <1>1, <1>2, <1>4 DEF Drop, local, Memory
<1>5. CASE UNCHANGED vars
  BY <1>1, <1>2, <1>5 DEF vars, Memory
<1>6. QED BY <1>3, <1>4, <1>5 DEF Next, Acts

\* No claimed artifact waits for a restart: it is in its cycle, on its way
\* back or held, or its node is starting.  A rename, a dropped turn or a
\* delete whose answer is lost is the way one can be forgotten.
THEOREM NoClaimIsLeft ==
  ASSUME {"rename", "drop_turn", "delete"} \cap Failing = {} PROVE Spec => []NoClaimLeft
<1>1. Init => ClaimsFollowed
  BY DEF Init, ClaimsFollowed, NoClaimLeft, GivenAway
<1>2. TypeOK /\ Tidy /\ ClaimsFollowed /\ [Next]_vars => ClaimsFollowed'
  BY NextFollowed
<1>3. ClaimsFollowed => NoClaimLeft
  BY DEF ClaimsFollowed
<1>4. QED BY <1>1, <1>2, <1>3, TypeCorrect, AlwaysTidy, PTL DEF Spec

-----------------------------------------------------------------------------
(* What a node refused and returned it does not claim again.               *)

\* What n set aside lies there, remembered as it lies or about to be, and a
\* listing that still has it is one the refusals are yet to be taken from.
AsideAt(n) ==
  /\ \A x, y \in settling[n].mark : x = y
  /\ \A x \in setAside[n] :
       /\ lying[x] # 0
       /\ \/ refused[n][x] = lying[x]
          \/ \E j \in jobs[n] : j.stage = "remember" /\ j.claim.dropped = x
          \/ x \in settling[n].mark
       /\ rx[n].pc = "sift" => rx[n].found[x] = lying[x]
       /\ Examines(n) => x \notin rx[n].rest /\ x # rx[n].name

AsideKnown == \A n \in Nodes : AsideAt(n)

\* Between its settle and its end an ordered receive has no verdict waiting,
\* so what its node set aside it remembers.
LEMMA AsideRemembered ==
  ASSUME Tidy, Ordered, AsideKnown, NEW n \in Nodes, rx[n].pc \notin {"idle", "settling"}
  PROVE  \A x \in setAside[n] : refused[n][x] = lying[x] /\ lying[x] # 0
<1>1. jobs[n] = {} /\ settling[n].mark = {}
  BY DEF Tidy, TidyAt, Unlocked
<1>2. QED BY <1>1 DEF AsideKnown, AsideAt

\* The steps that ask for no return of a refused artifact.
AsksNoReturn(n) ==
  StartTake(n) \/ Take(n) \/ SettleRemember(n) \/ SettleDone(n) \/ Accept(n) \/ Told(n) \/ Crash(n)

\* They set nothing aside, and what was set aside stays as it lies or is set
\* aside no more.
LEMMA AsideStays ==
  ASSUME TypeOK, AsideKnown, NEW n \in Nodes, AsksNoReturn(n), NEW m \in Nodes, NEW x \in setAside'[m]
  PROVE  x \in setAside[m] /\ lying'[x] = lying[x] /\ lying[x] # 0
<1>1. x \in setAside[m] => lying[x] # 0 /\ x \in Names
  BY DEF AsideKnown, AsideAt, TypeOK, PastType
<1>2. CASE RecoverReturn(n)
  <2>1. PICK c \in rx[n].left, answer \in Answers : Restore(n, c, answer, FALSE)
    BY <1>2 DEF RecoverReturn, Answers
  <2>2. c \in Claims /\ setAside' = setAside
    BY <2>1, TakeTyped DEF Takes, Restore
  <2>3. QED BY <1>1, <2>1, <2>2, RestoreFills
<1>3. CASE (\E y \in Names : Won(n, y)) \/ RenameFailed(n)
  <2>1. Renamed(ClaimedName(n)) \/ UNCHANGED <<lying, setAside>>
    BY <1>3 DEF Won, RenameFailed
  <2>2. ASSUME Renamed(ClaimedName(n)) PROVE x \in setAside[m] /\ lying'[x] = lying[x]
    <3>1. setAside'[m] = setAside[m] \ {ClaimedName(n).dropped}
      BY <2>2 DEF Renamed
    <3>2. lying' = [lying EXCEPT ![ClaimedName(n).dropped] = 0]
      BY <2>2 DEF Renamed
    <3>3. QED BY <1>1, <3>1, <3>2 DEF TypeOK, SiteType
  <2>3. QED BY <1>1, <2>1, <2>2
<1>4. CASE Crash(n)
  BY <1>1, <1>4 DEF Crash, site, TypeOK, PastType
<1>5. CASE /\ ~RecoverReturn(n) /\ ~Crash(n)
           /\ ~(\E y \in Names : Won(n, y)) /\ ~RenameFailed(n)
  <2>1. UNCHANGED <<lying, setAside>>
    BY <1>5 DEF AsksNoReturn, StartTake, Take, Told, site, past, RecoverList, RecoverTurn,
         RecoverTurnsDone, RecoverHold, RecoverDone, TakeSettle, List, Sift, Leave, TakeTurn,
         StillAsFound, RenameRefused, DropTurn, TakeDone, SettleRemember, SettleDone, Accept,
         RememberRefused, HoldKept, ToldSettle
  <2>2. QED BY <1>1, <2>1
<1>6. QED BY <1>2, <1>3, <1>4, <1>5

\* A return sets aside, if at all, the one artifact returned, at its node.
LEMMA AsideReturns ==
  ASSUME TypeOK, AsideKnown, NEW n \in Nodes, NEW c \in Claims, NEW answer, NEW isRefused,
         Restore(n, c, answer, isRefused), "restore" \notin Failing,
         NEW m \in Nodes, NEW x \in setAside'[m]
  PROVE  /\ lying'[x] # 0
         /\ \/ x \in setAside[m] /\ lying'[x] = lying[x]
            \/ m = n /\ x = c.dropped /\ answer = "back" /\ isRefused
<1>1. x \in setAside[m] => lying[x] # 0 /\ x \in Names
  BY DEF AsideKnown, AsideAt, TypeOK, PastType
<1>2. answer = Found(c)
  BY DEF Restore, RestoreAnswers, Fails
<1>3. CASE answer = "back"
  <2>1. /\ lying[c.dropped] = 0 /\ claimed[c] # 0 /\ c.dropped \in Names
        /\ lying' = [lying EXCEPT ![c.dropped] = claimed[c]]
        /\ setAside' = IF isRefused THEN [setAside EXCEPT ![n] = @ \cup {c.dropped}] ELSE setAside
    BY <1>2, <1>3 DEF Restore, Found, Claims
  <2>2. x \in setAside[m] \/ (m = n /\ x = c.dropped /\ isRefused)
    BY <2>1 DEF TypeOK, PastType
  <2>3. QED BY <1>1, <1>3, <2>1, <2>2 DEF TypeOK, SiteType
<1>4. CASE answer # "back"
  BY <1>1, <1>2, <1>4 DEF Restore
<1>5. QED BY <1>3, <1>4

\* A receive that goes on as r, with no more of its listing than before.
LEMMA AsideGoes ==
  ASSUME TypeOK, AsideKnown, NEW n \in Nodes, AsksNoReturn(n), NEW r, Goes(n, r),
         UNCHANGED <<refused, jobs, settling>>, r.pc # "sift",
         r.pc \in {"examine", "still", "rename", "untake"}
           => /\ Examines(n) /\ r.rest \subseteq rx[n].rest
              /\ r.name \in {rx[n].name, NoName} \cup rx[n].rest
  PROVE  AsideAt(n)'
<1>1. rx'[n] = r
  BY GoesTo
<1>2. \A x \in setAside'[n] : x \in setAside[n] /\ lying'[x] = lying[x] /\ lying[x] # 0 /\ x # NoName
  BY AsideStays, ClaimAssumption DEF TypeOK, PastType
<1>3. QED BY <1>1, <1>2 DEF AsideKnown, AsideAt, Examines

\* What n has in settling, with its cycles, while its receive rests.
LEMMA AsideRests ==
  ASSUME TypeOK, AsideKnown, NEW n \in Nodes, AsksNoReturn(n), UNCHANGED <<rx, refused>>,
         settling'[n].mark = settling[n].mark,
         \A j \in jobs[n] : j.stage = "remember" => j \in jobs'[n]
  PROVE  AsideAt(n)'
<1>1. \A x \in setAside'[n] : x \in setAside[n] /\ lying'[x] = lying[x] /\ lying[x] # 0
  BY AsideStays
<1>2. QED BY <1>1 DEF AsideKnown, AsideAt, Examines

LEMMA AsideTake ==
  ASSUME TypeOK, Tidy, Ordered, AsideKnown, NEW n \in Nodes, StartTake(n) \/ Take(n)
  PROVE  AsideAt(n)'
<1> USE DEF AsksNoReturn
<1>1. CASE StartTake(n)
  BY <1>1, TakeTyped, AsideGoes DEF StartTake, Takes
<1>2. CASE RecoverList(n)
  BY <1>2, TakeTyped, AsideGoes DEF RecoverList, RecoverFailed, Takes
<1>3. CASE RecoverTurn(n)
  <2>1. CASE UNCHANGED <<recovering, rx>>
    BY <1>3, <2>1, AsideRests DEF RecoverTurn
  <2>2. CASE RecoverFailed(n)
    BY <1>3, <2>2, TakeTyped, AsideGoes DEF RecoverTurn, RecoverFailed, Takes
  <2>3. QED BY <1>3, <2>1, <2>2 DEF RecoverTurn
<1>4. CASE RecoverTurnsDone(n) \/ RecoverHold(n) \/ RecoverDone(n)
  BY <1>4, TakeTyped, AsideGoes DEF RecoverTurnsDone, RecoverHold, RecoverDone, Takes
<1>5. CASE RecoverReturn(n)
  <2>1. PICK c \in rx[n].left, answer \in {"back", "gone", "kept", "failed", "lost"} :
          Goes(n, [rx[n] EXCEPT !.left = @ \ {c},
                                !.pc  = IF Settled(answer) THEN "giveback" ELSE "hold",
                                !.won = IF Settled(answer) THEN {} ELSE {c}])
    BY <1>5 DEF RecoverReturn
  <2>2. UNCHANGED <<refused, jobs, settling>>
    BY <1>5 DEF RecoverReturn
  <2>3. QED BY <2>1, <2>2, TakeTyped, AsideGoes DEF Takes
<1>6. CASE TakeSettle(n)
  <2>1. /\ rx'[n].pc \in {"list", "settling"} /\ UNCHANGED <<refused, jobs>>
        /\ settling'[n].mark = settling[n].mark
    <3>1. rx'[n].pc \in {"list", "settling"}
      BY <1>6, TakeTyped, GoesTo DEF TakeSettle, Takes
    <3>2. settling[n].mark = {}
      BY <1>6 DEF TakeSettle, Settle, Tidy, TidyAt, Unlocked
    <3>3. settling'[n].mark = {}
      BY <1>6, <3>2 DEF TakeSettle, Settle, TypeOK, MemoryType
    <3>4. QED BY <1>6, <3>1, <3>2, <3>3 DEF TakeSettle
  <2>2. \A x \in setAside'[n] : x \in setAside[n] /\ lying'[x] = lying[x] /\ lying[x] # 0
    BY AsideStays
  <2>3. QED BY <2>1, <2>2 DEF AsideKnown, AsideAt, Examines
<1>7. CASE List(n)
  <2>1. CASE Goes(n, Idle)
    BY <1>7, <2>1, AsideGoes DEF List, Idle
  <2>2. CASE Goes(n, [rx[n] EXCEPT !.pc = "sift", !.found = lying])
    <3>1. rx'[n] = [rx[n] EXCEPT !.pc = "sift", !.found = lying]
      BY <2>2, GoesTo
    <3>2. rx'[n].pc = "sift" /\ rx'[n].found = lying /\ UNCHANGED <<refused, jobs, settling>>
      BY <1>7, <3>1, TakeTyped DEF List, Takes
    <3>3. \A x \in setAside'[n] : x \in setAside[n] /\ lying'[x] = lying[x] /\ lying[x] # 0
      BY AsideStays
    <3>4. QED BY <3>2, <3>3 DEF AsideKnown, AsideAt, Examines
  <2>3. QED BY <1>7, <2>1, <2>2 DEF List
<1>8. CASE Sift(n)
  <2> DEFINE kept == {x \in Names : rx[n].found[x] # 0 /\ ~LiesRefused(n, x)}
  <2>1. \A x \in setAside[n] : LiesRefused(n, x) /\ refused[n][x] = lying[x] /\ x \in Names
    <3>1. \A x \in setAside[n] : refused[n][x] = lying[x] /\ lying[x] # 0 /\ rx[n].found[x] = lying[x]
      BY <1>8, AsideRemembered DEF Sift, AsideKnown, AsideAt
    <3>2. QED BY <3>1 DEF LiesRefused, TypeOK, PastType
  <2>2. refused'[n] = StillRefused(n) /\ UNCHANGED <<jobs, settling>> /\ rx[n].pc = "sift"
    BY <1>8 DEF Sift, TypeOK, MemoryType
  <2>3. rx'[n].pc = "examine" /\ rx'[n].rest = kept /\ rx'[n].name = NoName
    <3>1. Goes(n, [rx[n] EXCEPT !.pc = "examine", !.rest = kept,
                                !.found = [x \in Names |-> IF x \in kept THEN @[x] ELSE 0]])
      BY <1>8 DEF Sift
    <3>2. rx[n] \in Takes /\ rx[n].name = NoName
      BY <1>8, TakeTyped DEF Sift, TypeOK, AtAnArtifact
    <3> HIDE DEF kept
    <3>3. QED BY <3>1, <3>2, GoesTo DEF Takes
  <2>4. \A x \in setAside'[n] : /\ x \in setAside[n] /\ lying'[x] = lying[x] /\ lying[x] # 0
                                /\ x # NoName
    BY AsideStays, ClaimAssumption DEF TypeOK, PastType
  <2>5. \A x \in setAside[n] : refused'[n][x] = lying[x] /\ x \notin kept
    BY <2>1, <2>2 DEF StillRefused
  <2> HIDE DEF kept
  <2>6. QED BY <2>2, <2>3, <2>4, <2>5 DEF AsideKnown, AsideAt, Examines
<1>9. CASE Leave(n)
  BY <1>9, TakeTyped, AsideGoes DEF Leave, Examines, Takes
<1>10. CASE TakeTurn(n)
  BY <1>10, TakeTyped, AsideGoes DEF TakeTurn, Examines, Takes
<1>11. CASE StillAsFound(n)
  BY <1>11, TakeTyped, AsideGoes DEF StillAsFound, Examines, Takes
<1>12. CASE (\E x \in Names : Won(n, x)) \/ RenameRefused(n) \/ RenameFailed(n)
  BY <1>12, TakeTyped, AsideGoes DEF Won, RenameRefused, RenameFailed, Examines, Takes
<1>13. CASE DropTurn(n)
  BY <1>13, TakeTyped, AsideGoes DEF DropTurn, Examines, Takes
<1>14. CASE TakeDone(n)
  <2>1. rx'[n] = Idle /\ jobs[n] \subseteq jobs'[n] /\ UNCHANGED <<refused, settling>>
    BY <1>14, GoesTo DEF TakeDone, TypeOK, CycleType
  <2>2. \A x \in setAside'[n] : x \in setAside[n] /\ lying'[x] = lying[x] /\ lying[x] # 0
    BY AsideStays
  <2>3. QED BY <2>1, <2>2 DEF Idle, AsideKnown, AsideAt, Examines
<1>15. QED
  BY <1>1, <1>2, <1>3, <1>4, <1>5, <1>6, <1>7, <1>8, <1>9, <1>10, <1>11, <1>12, <1>13, <1>14
     DEF Take

\* The stamp of x asked and answered: what is set aside under it is known.
LEMMA RememberKnows ==
  ASSUME TypeOK, NEW n \in Nodes, NEW x \in Names, Remember(n, x), "stamp" \notin Failing
  PROVE  /\ lying[x] # 0 => refused'[n][x] = lying[x]
         /\ \A y \in Names : y # x => refused'[n][y] = refused[n][y]
<1>1. refused' = IF lying[x] = 0 THEN refused ELSE [refused EXCEPT ![n][x] = lying[x]]
  BY DEF Remember, Fails
<1>2. refused[n] \in [Names -> Stamps]
  BY DEF TypeOK, MemoryType
<1>3. QED BY <1>1, <1>2 DEF TypeOK, MemoryType

LEMMA AsideSettling ==
  ASSUME TypeOK, Tidy, Ordered, {"stamp", "restore"} \cap Failing = {}, AsideKnown,
         NEW n \in Nodes, Settling(n)
  PROVE  AsideAt(n)'
<1>1. CASE SettleOne(n)
  <2>1. PICK h \in settling[n].todo, answer \in Answers :
          /\ Restore(n, h.claim, answer, h.refused)
          /\ settling' = [settling EXCEPT ![n].todo = @ \ {h}, ![n].mark = Marks(h, answer)]
    BY <1>1 DEF SettleOne, Answers
  <2>2. /\ h.claim \in Claims /\ settling[n].mark = {} /\ UNCHANGED <<rx, refused, jobs>>
        /\ rx[n].pc \in {"idle", "settling"}
    BY <1>1 DEF SettleOne, Tidy, TidyAt, TypeOK, MemoryType, Settlings, Held
  <2>3. settling'[n].mark = Marks(h, answer)
    BY <2>1 DEF TypeOK, MemoryType, Settlings
  <2>4. \A x \in setAside'[n] :
          /\ lying'[x] # 0
          /\ (x \in setAside[n] /\ lying'[x] = lying[x]) \/ x \in Marks(h, answer)
    BY <2>1, <2>2, AsideReturns DEF Marks
  <2>5. \A x, y \in Marks(h, answer) : x = y
    BY DEF Marks
  <2>6. QED BY <2>2, <2>3, <2>4, <2>5 DEF AsideKnown, AsideAt, Examines
<1>2. CASE SettleRemember(n)
  <2>1. PICK x \in settling[n].mark : Remember(n, x)
    BY <1>2 DEF SettleRemember
  <2>2. /\ x \in Names /\ \A y \in settling[n].mark : y = x
        /\ UNCHANGED <<rx, jobs, lying, setAside>> /\ settling'[n].mark = {}
    BY <1>2 DEF SettleRemember, site, past, AsideKnown, AsideAt, TypeOK, MemoryType, Settlings
  <2>3. \A y \in setAside[n] : refused'[n][y] = IF y = x THEN lying[y] ELSE refused[n][y]
    BY <2>1, <2>2, RememberKnows DEF AsideKnown, AsideAt, TypeOK, PastType
  <2>4. QED BY <2>2, <2>3 DEF AsideKnown, AsideAt, Examines
<1>3. CASE SettleDone(n)
  <2>1. /\ UNCHANGED <<refused, jobs, lying, setAside>> /\ settling[n].mark = {}
        /\ settling'[n].mark = {}
    BY <1>3 DEF SettleDone, Unlocked, site, past, TypeOK, MemoryType
  <2>2. UNCHANGED rx \/ rx'[n].pc = "list"
    BY <1>3, TakeTyped, GoesTo DEF SettleDone, Takes
  <2>3. QED BY <2>1, <2>2 DEF AsideKnown, AsideAt, Examines
<1>4. QED BY <1>1, <1>2, <1>3 DEF Settling

LEMMA AsideTold ==
  ASSUME TypeOK, Tidy, Ordered, {"stamp", "restore"} \cap Failing = {}, AsideKnown,
         NEW n \in Nodes, Tell(n) \/ Told(n)
  PROVE  AsideAt(n)'
<1> USE DEF AsksNoReturn
<1>1. CASE Accept(n)
  <2>1. PICK j \in jobs[n] : j.stage = "carried" /\ (At(n, j, "settle", FALSE) \/ Over(n, j))
    BY <1>1 DEF Accept
  <2>2. \A i \in jobs[n] : i.stage = "remember" => i \in jobs'[n]
    BY <2>1 DEF At, Over, TypeOK, CycleType
  <2>3. QED BY <1>1, <2>2, AsideRests DEF Accept
<1>2. CASE GiveBack(n)
  <2>1. PICK j \in jobs[n], isRefused \in BOOLEAN, answer \in Answers :
          /\ j.stage = "carried"
          /\ Restore(n, j.claim, answer, isRefused)
          /\ IF ~Settled(answer) THEN At(n, j, "hold", isRefused)
             ELSE IF answer = "back" /\ isRefused THEN At(n, j, "remember", TRUE)
             ELSE Over(n, j)
    BY <1>2 DEF GiveBack, Answers
  <2>2. UNCHANGED <<rx, refused, settling>> /\ j.claim \in Claims /\ rx[n].pc = "idle"
    BY <1>2 DEF GiveBack, Tidy, TidyAt, TypeOK, CycleType, Jobs
  <2>3. \A i \in jobs[n] : i.stage = "remember" => i \in jobs'[n]
    BY <2>1 DEF At, Over, TypeOK, CycleType
  <2>4. ASSUME answer = "back", isRefused
        PROVE  \E i \in jobs'[n] : i.stage = "remember" /\ i.claim.dropped = j.claim.dropped
    <3> DEFINE new == [claim |-> j.claim, stage |-> "remember", refused |-> TRUE]
    <3>1. new \in jobs'[n]
      BY <2>1, <2>4 DEF Settled, At, TypeOK, CycleType
    <3>2. new.stage = "remember" /\ new.claim = j.claim
      OBVIOUS
    <3> HIDE DEF new
    <3>3. QED BY <3>1, <3>2
  <2>5. \A x \in setAside'[n] :
          /\ lying'[x] # 0
          /\ (x \in setAside[n] /\ lying'[x] = lying[x])
             \/ (x = j.claim.dropped /\ answer = "back" /\ isRefused)
    BY <2>1, <2>2, AsideReturns
  <2>6. QED BY <2>2, <2>3, <2>4, <2>5 DEF AsideKnown, AsideAt, Examines
<1>3. CASE RememberRefused(n)
  <2>1. PICK j \in jobs[n] : j.stage = "remember" /\ Remember(n, j.claim.dropped) /\ Over(n, j)
    BY <1>3 DEF RememberRefused
  <2>2. j.claim.dropped \in Names /\ UNCHANGED <<rx, settling, lying, setAside>>
    BY <1>3 DEF RememberRefused, site, past, TypeOK, CycleType, Jobs, Claims
  <2>3. \A y \in setAside[n] :
          refused'[n][y] = IF y = j.claim.dropped THEN lying[y] ELSE refused[n][y]
    BY <2>1, <2>2, RememberKnows DEF AsideKnown, AsideAt, TypeOK, PastType
  <2>4. jobs'[n] = jobs[n] \ {j}
    BY <2>1 DEF Over, TypeOK, CycleType
  <2>5. QED BY <2>2, <2>3, <2>4 DEF AsideKnown, AsideAt, Examines
<1>4. CASE HoldKept(n)
  <2>1. PICK j \in jobs[n] : j.stage = "hold" /\ Over(n, j)
    BY <1>4 DEF HoldKept
  <2>2. \A i \in jobs[n] : i.stage = "remember" => i \in jobs'[n]
    BY <2>1 DEF Over, TypeOK, CycleType
  <2>3. QED BY <1>4, <2>2, AsideRests DEF HoldKept, Told
<1>5. CASE ToldSettle(n)
  <2>1. PICK j \in jobs[n] : j.stage = "settle" /\ Settle(n, "told") /\ Over(n, j)
    BY <1>5 DEF ToldSettle
  <2>2. \A i \in jobs[n] : i.stage = "remember" => i \in jobs'[n]
    BY <2>1 DEF Over, TypeOK, CycleType
  <2>3. settling[n].mark = {}
    BY <2>1 DEF Settle, Tidy, TidyAt, Unlocked
  <2>4. settling'[n].mark = {}
    BY <2>1, <2>3 DEF Settle, TypeOK, MemoryType
  <2>5. QED BY <1>5, <2>2, <2>3, <2>4, AsideRests DEF ToldSettle, Told
<1>6. QED BY <1>1, <1>2, <1>3, <1>4, <1>5 DEF Tell, Told

LEMMA NextAside ==
  ASSUME TypeOK, Tidy, Ordered, {"stamp", "restore"} \cap Failing = {}, AsideKnown, [Next]_vars
  PROVE  AsideKnown'
<1>1. ASSUME NEW m \in Nodes, UNCHANGED Memory(m),
             \A x \in setAside'[m] : x \in setAside[m] /\ lying'[x] = lying[x]
      PROVE  AsideAt(m)'
  BY <1>1 DEF Memory, AsideKnown, AsideAt, Examines
<1>2. ASSUME NEW n \in Nodes, Acts(n), NEW m \in Nodes, m # n, NEW x \in setAside'[m]
      PROVE  x \in setAside[m] /\ lying'[x] = lying[x]
  <2>1. CASE AsksNoReturn(n)
    BY <1>2, <2>1, AsideStays
  <2>2. CASE SettleOne(n)
    <3>1. PICK h \in settling[n].todo, answer \in Answers : Restore(n, h.claim, answer, h.refused)
      BY <2>2 DEF SettleOne, Answers
    <3>2. h.claim \in Claims
      BY DEF TypeOK, MemoryType, Settlings, Held
    <3>3. QED BY <1>2, <3>1, <3>2, AsideReturns
  <2>3. CASE GiveBack(n)
    <3>1. PICK j \in jobs[n], isRefused \in BOOLEAN, answer \in Answers :
            Restore(n, j.claim, answer, isRefused)
      BY <2>3 DEF GiveBack, Answers
    <3>2. j.claim \in Claims
      BY DEF TypeOK, CycleType, Jobs
    <3>3. QED BY <1>2, <3>1, <3>2, AsideReturns
  <2>4. QED BY <1>2, <2>1, <2>2, <2>3 DEF Acts, Settling, Tell, AsksNoReturn
<1>3. ASSUME NEW n \in Nodes, Acts(n) PROVE AsideKnown'
  <2>1. AsideAt(n)'
    <3>1. CASE Crash(n)
      <4>1. setAside'[n] = {} /\ settling'[n].mark = {}
        BY <3>1 DEF Crash, Unlocked, TypeOK, MemoryType, PastType
      <4>2. QED BY <4>1 DEF AsideAt
    <3>2. QED BY <1>3, <3>1, AsideTake, AsideSettling, AsideTold DEF Acts
  <2>2. \A m \in Nodes : m # n => AsideAt(m)'
    BY <1>1, <1>2, <1>3, OthersStay
  <2>3. QED BY <2>1, <2>2 DEF AsideKnown
<1>4. ASSUME NEW x \in Names, Drop(x) PROVE AsideKnown'
  <2>1. \A m \in Nodes : UNCHANGED Memory(m) /\ setAside'[m] = setAside[m] \ {x}
    BY <1>4 DEF Drop, local, Memory
  <2>2. \A m \in Nodes : \A y \in setAside'[m] : y \in setAside[m] /\ lying'[y] = lying[y]
    BY <1>4, <2>1 DEF Drop, TypeOK, SiteType, PastType
  <2>3. QED BY <1>1, <2>1, <2>2 DEF AsideKnown
<1>5. CASE UNCHANGED vars
  BY <1>1, <1>5 DEF vars, Memory, AsideKnown
<1>6. QED BY <1>3, <1>4, <1>5 DEF Next, Acts

\* At an ordered Location, where a return and the stamp asked after it are
\* answered, a node does not claim again what it refused and returned, until
\* somebody moves it or writes anew under its name.
THEOREM RefusedStaysAside ==
  ASSUME Ordered, {"stamp", "restore"} \cap Failing = {} PROVE Spec => NotReceivedAgain
<1> DEFINE Step == \A n \in Nodes, x \in Names : Receives(n, x) => x \notin setAside[n]
<1>1. Init => AsideKnown
  BY DEF Init, AsideKnown, AsideAt, Unlocked
<1>2. TypeOK /\ Tidy /\ AsideKnown /\ [Next]_vars => AsideKnown'
  BY NextAside
<1>3. AsideKnown => Step
  BY DEF AsideKnown, AsideAt, Examines, Receives
<1> HIDE DEF Step
<1>4. Spec => [][Step]_vars
  BY <1>1, <1>2, <1>3, TypeCorrect, AlwaysTidy, PTL DEF Spec
<1>5. QED BY <1>4 DEF Step, NotReceivedAgain

=============================================================================
