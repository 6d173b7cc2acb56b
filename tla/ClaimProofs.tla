---------------------------- MODULE ClaimProofs ----------------------------
(***************************************************************************)
(* What is proved of Claim, for every set of nodes, names and times, every *)
(* bound, every choice of failing operations and both modes of a Location. *)
(***************************************************************************)
EXTENDS Claim, TLAPS

-----------------------------------------------------------------------------
(* How one step of a receive keeps the types.                              *)

LEMMA TakeTyped == ASSUME TypeOK, NEW n \in Nodes PROVE rx[n] \in Takes
BY DEF TypeOK, TakeType

\* The claims a receive holds, and the others its node knows of, are its own.
LEMMA TakeOwn ==
  ASSUME TypeOK, NEW n \in Nodes
  PROVE  /\ \A c \in rx[n].left \cup rx[n].won \cup rx[n].taken : c.by = n
         /\ \A j \in jobs[n] : j.claim.by = n
         /\ \A h \in held[n] : h.claim.by = n
BY DEF TypeOK, KeepsItsOwn, Known

\* A receive that goes on as r, nothing else it knows of changed.
LEMMA GoesTyped ==
  ASSUME TypeOK, NEW n \in Nodes, NEW r \in Takes, Goes(n, r),
         r.pc \in {"still", "rename", "untake"} <=> r.name # NoName,
         \A c \in r.left \cup r.won \cup r.taken : c.by = n,
         settling'[n].by = "take" => r.pc = "settling",
         \A m \in Nodes : m # n => settling'[m] = settling[m],
         UNCHANGED <<held, jobs>>
  PROVE  TakeType' /\ AtAnArtifact' /\ SettlesInTake' /\ KeepsItsOwn'
<1>1. TakeType' /\ AtAnArtifact' /\ SettlesInTake'
  BY DEF TypeOK, TakeType, AtAnArtifact, SettlesInTake, Goes
<1>2. ASSUME NEW m \in Nodes, NEW c \in Known(m)' PROVE c.by = m
  <2>1. CASE m = n
    BY <1>2, <2>1 DEF TypeOK, TakeType, KeepsItsOwn, Known, Goes
  <2>2. CASE m # n
    <3>1. Known(m)' = Known(m)
      BY <2>2 DEF TypeOK, TakeType, Known, Goes
    <3>2. QED BY <1>2, <3>1 DEF TypeOK, KeepsItsOwn
  <2>3. QED BY <2>1, <2>2
<1>3. QED BY <1>1, <1>2 DEF KeepsItsOwn

LEMMA ZeroStamp == 0 \in Stamps
BY ClaimAssumption DEF Stamps

LEMMA IdleTyped == Idle \in Takes
BY ZeroStamp DEF Idle, Takes, Places, NoStamps

LEMMA RestoreTyped ==
  ASSUME TypeOK, NEW n \in Nodes, NEW c \in Claims, NEW answer, NEW isRefused,
         Restore(n, c, answer, isRefused)
  PROVE  /\ lying' \in [Names -> Stamps]
         /\ claimed' \in [Claims -> Stamps]
         /\ setAside' \in [Nodes -> SUBSET Names]
<1>1. c.dropped \in Names /\ claimed[c] \in Stamps /\ 0 \in Stamps
  BY ZeroStamp DEF TypeOK, SiteType, Claims
<1>2. CASE Found(c) = "back" /\ answer # "failed"
  BY <1>1, <1>2 DEF Restore, TypeOK, SiteType, PastType
<1>3. CASE ~(Found(c) = "back" /\ answer # "failed")
  BY <1>3 DEF Restore, TypeOK, SiteType, PastType
<1>4. QED BY <1>2, <1>3

LEMMA ClaimedNameTyped ==
  ASSUME NEW n \in Nodes, Fresh(n, rx[n].name) # {}
  PROVE  /\ ClaimedName(n) \in Claims
         /\ ClaimedName(n).by = n
         /\ ClaimedName(n).dropped = rx[n].name
         /\ claimed[ClaimedName(n)] = 0
         /\ ClaimedName(n) \notin Known(n)
<1>1. ClaimedName(n) \in Fresh(n, rx[n].name)
  BY DEF ClaimedName
<1>2. QED BY <1>1 DEF Fresh

LEMMA RenamedTyped ==
  ASSUME TypeOK, NEW c \in Claims, Renamed(c)
  PROVE  /\ lying' \in [Names -> Stamps]
         /\ claimed' \in [Claims -> Stamps]
         /\ setAside' \in [Nodes -> SUBSET Names]
<1>1. c.dropped \in Names /\ 0 \in Stamps
  BY ZeroStamp DEF Claims
<1>2. QED BY <1>1 DEF Renamed, TypeOK, SiteType, PastType

-----------------------------------------------------------------------------
(* Every action keeps the types.                                           *)

LEMMA InitTyped == ASSUME Init PROVE TypeOK
<1>1. 0 \in Stamps /\ NoStamps \in [Names -> Stamps] /\ Unlocked \in Settlings
  BY ZeroStamp DEF NoStamps, Unlocked, Settlings
<1>2. Idle \in Takes
  BY IdleTyped
<1>3. SiteType /\ MemoryType /\ TakeType /\ CycleType /\ PastType
  BY <1>1, <1>2, ClaimAssumption
     DEF Init, SiteType, MemoryType, TakeType, CycleType, PastType
<1>4. KeepsItsOwn /\ AtAnArtifact /\ SettlesInTake
  BY DEF Init, KeepsItsOwn, AtAnArtifact, SettlesInTake, Known, Idle, Unlocked
<1>5. QED BY <1>3, <1>4 DEF TypeOK

LEMMA StartTakeTyped == ASSUME TypeOK, NEW n \in Nodes, StartTake(n) PROVE TypeOK'
<1>1. TakeType' /\ AtAnArtifact' /\ SettlesInTake' /\ KeepsItsOwn'
  BY TakeTyped, TakeOwn, GoesTyped DEF StartTake, Takes, Places, TypeOK, AtAnArtifact, SettlesInTake
<1>2. SiteType' /\ MemoryType' /\ CycleType' /\ PastType'
  BY DEF StartTake, TypeOK, SiteType, MemoryType, CycleType, PastType, site, past
<1>3. QED BY <1>1, <1>2 DEF TypeOK

LEMMA RecoverListTyped == ASSUME TypeOK, NEW n \in Nodes, RecoverList(n) PROVE TypeOK'
<1>1. TakeType' /\ AtAnArtifact' /\ SettlesInTake' /\ KeepsItsOwn'
  BY TakeTyped, TakeOwn, GoesTyped DEF RecoverList, RecoverFailed, Own, Takes, Places, TypeOK, AtAnArtifact, SettlesInTake
<1>2. SiteType' /\ MemoryType' /\ CycleType' /\ PastType'
  BY DEF RecoverList, RecoverFailed, Own, TypeOK, SiteType, MemoryType, CycleType, PastType, site, past
<1>3. QED BY <1>1, <1>2 DEF TypeOK

LEMMA RecoverTurnTyped == ASSUME TypeOK, NEW n \in Nodes, RecoverTurn(n) PROVE TypeOK'
<1>1. TakeType' /\ AtAnArtifact' /\ SettlesInTake' /\ KeepsItsOwn'
  <2>1. CASE UNCHANGED rx
    BY <2>1 DEF RecoverTurn, TypeOK, TakeType, AtAnArtifact, SettlesInTake, KeepsItsOwn, Known
  <2>2. CASE RecoverFailed(n)
    BY <2>2, TakeTyped, TakeOwn, GoesTyped
       DEF RecoverTurn, RecoverFailed, Takes, Places, TypeOK, AtAnArtifact, SettlesInTake
  <2>3. QED BY <2>1, <2>2 DEF RecoverTurn
<1>2. SiteType' /\ MemoryType' /\ CycleType' /\ PastType'
  BY DEF RecoverTurn, RecoverFailed, TypeOK, SiteType, MemoryType, CycleType, PastType, past
<1>3. QED BY <1>1, <1>2 DEF TypeOK

LEMMA RecoverTurnsDoneTyped == ASSUME TypeOK, NEW n \in Nodes, RecoverTurnsDone(n) PROVE TypeOK'
<1>1. TakeType' /\ AtAnArtifact' /\ SettlesInTake' /\ KeepsItsOwn'
  BY TakeTyped, TakeOwn, GoesTyped DEF RecoverTurnsDone, Takes, Places, TypeOK, AtAnArtifact, SettlesInTake
<1>2. SiteType' /\ MemoryType' /\ CycleType' /\ PastType'
  BY DEF RecoverTurnsDone, TypeOK, SiteType, MemoryType, CycleType, PastType, site, past
<1>3. QED BY <1>1, <1>2 DEF TypeOK

LEMMA RecoverReturnTyped == ASSUME TypeOK, NEW n \in Nodes, RecoverReturn(n) PROVE TypeOK'
<1>1. PICK c \in rx[n].left, answer \in {"back", "gone", "kept", "failed", "lost"} :
        /\ Restore(n, c, answer, FALSE)
        /\ Goes(n, [rx[n] EXCEPT !.left = @ \ {c},
                                 !.pc  = IF Settled(answer) THEN "giveback" ELSE "hold",
                                 !.won = IF Settled(answer) THEN {} ELSE {c}])
  BY DEF RecoverReturn
<1>2. rx[n] \in Takes /\ rx[n].pc = "giveback" /\ c \in Claims /\ c.by = n
  BY TakeTyped, TakeOwn DEF RecoverReturn, Takes
<1>3. UNCHANGED <<held, jobs>>
  BY DEF RecoverReturn
<1> DEFINE p == IF Settled(answer) THEN "giveback" ELSE "hold"
           w == IF Settled(answer) THEN {} ELSE {c}
           r == [rx[n] EXCEPT !.left = @ \ {c}, !.pc = p, !.won = w]
<1>4. TakeType' /\ AtAnArtifact' /\ SettlesInTake' /\ KeepsItsOwn'
  <2>1. p \in Places \ {"still", "rename", "untake"} /\ w \subseteq {c}
    BY DEF Places
  <2> HIDE DEF p, w
  <2>2. /\ r \in Takes
        /\ r.pc = p /\ r.name = rx[n].name
        /\ r.left \subseteq rx[n].left /\ r.won \subseteq {c} /\ r.taken = rx[n].taken
    BY <1>2, <2>1 DEF Takes
  <2>3. Goes(n, r)
    BY <1>1 DEF p, w
  <2> HIDE DEF r
  <2>4. rx[n].name = NoName /\ settling[n].by # "take" /\ UNCHANGED settling
    BY <1>2 DEF TypeOK, AtAnArtifact, SettlesInTake, RecoverReturn
  <2>5. \A d \in r.left \cup r.won \cup r.taken : d.by = n
    BY <1>2, <2>2, TakeOwn
  <2>6. QED BY <1>3, <2>1, <2>2, <2>3, <2>4, <2>5, GoesTyped
<1>5. /\ lying' \in [Names -> Stamps]
      /\ claimed' \in [Claims -> Stamps]
      /\ setAside' \in [Nodes -> SUBSET Names]
  BY <1>1, <1>2, RestoreTyped
<1>6. SiteType' /\ MemoryType' /\ CycleType' /\ PastType'
  BY <1>5 DEF RecoverReturn, TypeOK, SiteType, MemoryType, CycleType, PastType
<1>7. QED BY <1>4, <1>6 DEF TypeOK

LEMMA HoldTyped ==
  ASSUME TypeOK, NEW n \in Nodes, NEW c \in Claims, NEW isRefused \in BOOLEAN,
         Hold(n, c, isRefused), c.by = n
  PROVE  /\ held' \in [Nodes -> SUBSET Held]
         /\ \A m \in Nodes : \A h \in held[m]' : h \in held[m] \/ (m = n /\ h.claim = c)
<1> DEFINE h == [claim |-> c, refused |-> isRefused]
<1>1. h \in Held /\ h.claim = c
  BY DEF Held
<1>2. QED BY <1>1 DEF Hold, TypeOK, MemoryType

LEMMA RecoverHoldTyped == ASSUME TypeOK, NEW n \in Nodes, RecoverHold(n) PROVE TypeOK'
<1> DEFINE r == [rx[n] EXCEPT !.pc = "giveback", !.won = {}]
<1>1. PICK c \in rx[n].won : Hold(n, c, FALSE)
  BY DEF RecoverHold
<1>2. c \in Claims /\ c.by = n
  BY TakeTyped, TakeOwn DEF Takes
<1>3. held' \in [Nodes -> SUBSET Held]
  BY <1>1, <1>2, HoldTyped
<1>4. r \in Takes /\ rx' = [rx EXCEPT ![n] = r] /\ jobs' = jobs
  BY TakeTyped DEF RecoverHold, Goes, Takes, Places
<1>5. TakeType' /\ AtAnArtifact' /\ SettlesInTake'
  BY <1>4 DEF RecoverHold, TypeOK, TakeType, AtAnArtifact, SettlesInTake, Takes
<1>6. ASSUME NEW m \in Nodes, NEW d \in Known(m)' PROVE d.by = m
  <2>1. \A h \in held[m]' : h.claim.by = m
    <3>1. \A h \in held[m]' : h \in held[m] \/ (m = n /\ h.claim = c)
      BY <1>1, <1>2, HoldTyped
    <3>2. QED BY <1>2, <3>1, TakeOwn
  <2>2. \A e \in rx[m].left' \cup rx[m].won' \cup rx[m].taken' : e.by = m
    BY <1>4, TakeTyped, TakeOwn DEF TypeOK, TakeType, Takes
  <2>3. QED BY <1>4, <1>6, <2>1, <2>2, TakeOwn DEF Known
<1>7. SiteType' /\ MemoryType' /\ CycleType' /\ PastType'
  BY <1>3 DEF RecoverHold, TypeOK, SiteType, MemoryType, CycleType, PastType, site, past
<1>8. QED BY <1>5, <1>6, <1>7 DEF TypeOK, KeepsItsOwn

LEMMA RecoverDoneTyped == ASSUME TypeOK, NEW n \in Nodes, RecoverDone(n) PROVE TypeOK'
<1>1. TakeType' /\ AtAnArtifact' /\ SettlesInTake' /\ KeepsItsOwn'
  BY TakeTyped, TakeOwn, GoesTyped DEF RecoverDone, Takes, Places, TypeOK, AtAnArtifact, SettlesInTake
<1>2. SiteType' /\ MemoryType' /\ CycleType' /\ PastType'
  BY DEF RecoverDone, TypeOK, SiteType, MemoryType, CycleType, PastType, site, past
<1>3. QED BY <1>1, <1>2 DEF TypeOK

LEMMA TakeSettleTyped == ASSUME TypeOK, NEW n \in Nodes, TakeSettle(n) PROVE TypeOK'
<1>1. TakeType' /\ AtAnArtifact' /\ SettlesInTake' /\ KeepsItsOwn'
  BY TakeTyped, TakeOwn, GoesTyped DEF TakeSettle, Settle, Settlings, Takes, Places, TypeOK, AtAnArtifact, SettlesInTake
<1>2. SiteType' /\ MemoryType' /\ CycleType' /\ PastType'
  BY DEF TakeSettle, Settle, Settlings, TypeOK, SiteType, MemoryType, CycleType, PastType, site, past
<1>3. QED BY <1>1, <1>2 DEF TypeOK

LEMMA SettleOneTyped == ASSUME TypeOK, NEW n \in Nodes, SettleOne(n) PROVE TypeOK'
<1>1. PICK h \in settling[n].todo, answer \in {"back", "gone", "kept", "failed", "lost"} :
        /\ Restore(n, h.claim, answer, h.refused)
        /\ settling' = [settling EXCEPT ![n].todo = @ \ {h}, ![n].mark = Marks(h, answer)]
        /\ held' = IF Settled(answer) THEN [held EXCEPT ![n] = @ \ {h}] ELSE held
  BY DEF SettleOne
<1>2. h \in Held /\ h.claim \in Claims
  BY DEF TypeOK, MemoryType, Settlings, Held
<1>3. Marks(h, answer) \in SUBSET Names
  BY <1>2 DEF Marks, Claims
<1>4. /\ held' \in [Nodes -> SUBSET Held]
      /\ \A m \in Nodes : held[m]' \subseteq held[m]
  BY <1>1 DEF TypeOK, MemoryType
<1>5. settling' \in [Nodes -> Settlings]
  BY <1>1, <1>3 DEF TypeOK, MemoryType, Settlings
<1>6. /\ lying' \in [Names -> Stamps]
      /\ claimed' \in [Claims -> Stamps]
      /\ setAside' \in [Nodes -> SUBSET Names]
  BY <1>1, <1>2, RestoreTyped
<1>7. SiteType' /\ MemoryType' /\ TakeType' /\ CycleType' /\ PastType' /\ AtAnArtifact'
  BY <1>4, <1>5, <1>6
     DEF SettleOne, TypeOK, SiteType, MemoryType, TakeType, CycleType, PastType, AtAnArtifact
<1>8. SettlesInTake'
  BY <1>1 DEF SettleOne, TypeOK, MemoryType, Settlings, SettlesInTake
<1>9. KeepsItsOwn'
  BY <1>4 DEF SettleOne, TypeOK, KeepsItsOwn, Known
<1>10. QED BY <1>7, <1>8, <1>9 DEF TypeOK

LEMMA RememberTyped ==
  ASSUME TypeOK, NEW n \in Nodes, NEW x \in Names, Remember(n, x)
  PROVE  refused' \in [Nodes -> [Names -> Stamps]]
<1>1. lying[x] \in Stamps
  BY DEF TypeOK, SiteType
<1>2. CASE lying[x] = 0
  BY <1>2 DEF Remember, TypeOK, MemoryType
<1>3. CASE lying[x] # 0
  <2> DEFINE memory == [refused[n] EXCEPT ![x] = lying[x]]
  <2>1. memory \in [Names -> Stamps]
    BY <1>1 DEF TypeOK, MemoryType
  <2>2. refused' \in {refused, [refused EXCEPT ![n] = memory]}
    BY <1>3 DEF Remember
  <2> HIDE DEF memory
  <2>3. QED BY <2>1, <2>2 DEF TypeOK, MemoryType
<1>4. QED BY <1>2, <1>3

LEMMA SettleRememberTyped == ASSUME TypeOK, NEW n \in Nodes, SettleRemember(n) PROVE TypeOK'
<1>1. refused' \in [Nodes -> [Names -> Stamps]]
  BY RememberTyped DEF SettleRemember, TypeOK, MemoryType, Settlings
<1>2. settling' \in [Nodes -> Settlings]
  BY DEF SettleRemember, TypeOK, MemoryType, Settlings
<1>3. SettlesInTake'
  BY DEF SettleRemember, TypeOK, MemoryType, Settlings, SettlesInTake
<1>4. QED
  BY <1>1, <1>2, <1>3 DEF SettleRemember, TypeOK, SiteType, MemoryType, TakeType, CycleType, PastType,
                    KeepsItsOwn, AtAnArtifact, Known, site, past

LEMMA SettleDoneTyped == ASSUME TypeOK, NEW n \in Nodes, SettleDone(n) PROVE TypeOK'
<1>1. settling' \in [Nodes -> Settlings] /\ settling'[n].by = "nobody"
      /\ \A m \in Nodes : m # n => settling'[m] = settling[m]
  BY DEF SettleDone, Unlocked, Settlings, TypeOK, MemoryType
<1>2. TakeType' /\ AtAnArtifact' /\ SettlesInTake' /\ KeepsItsOwn'
  <2>1. CASE UNCHANGED rx
    BY <1>1, <2>1 DEF SettleDone, TypeOK, TakeType, AtAnArtifact, SettlesInTake, KeepsItsOwn, Known
  <2>2. CASE settling[n].by = "take" /\ Goes(n, [rx[n] EXCEPT !.pc = "list"])
    BY <1>1, <2>2, TakeTyped, TakeOwn, GoesTyped
       DEF SettleDone, Takes, Places, TypeOK, AtAnArtifact, SettlesInTake
  <2>3. QED BY <2>1, <2>2 DEF SettleDone
<1>3. SiteType' /\ MemoryType' /\ CycleType' /\ PastType'
  BY <1>1 DEF SettleDone, TypeOK, SiteType, MemoryType, CycleType, PastType, site, past
<1>4. QED BY <1>2, <1>3 DEF TypeOK

LEMMA ListTyped == ASSUME TypeOK, NEW n \in Nodes, List(n) PROVE TypeOK'
<1>1. TakeType' /\ AtAnArtifact' /\ SettlesInTake' /\ KeepsItsOwn'
  <2>1. CASE Goes(n, Idle)
    BY <2>1, IdleTyped, GoesTyped DEF List, Idle, TypeOK, SettlesInTake
  <2>2. CASE Goes(n, [rx[n] EXCEPT !.pc = "sift", !.found = lying])
    BY <2>2, TakeTyped, TakeOwn, GoesTyped
       DEF List, Takes, Places, TypeOK, SiteType, AtAnArtifact, SettlesInTake
  <2>3. QED BY <2>1, <2>2 DEF List
<1>2. SiteType' /\ MemoryType' /\ CycleType' /\ PastType'
  BY DEF List, TypeOK, SiteType, MemoryType, CycleType, PastType, site, past
<1>3. QED BY <1>1, <1>2 DEF TypeOK

LEMMA SiftTyped == ASSUME TypeOK, NEW n \in Nodes, Sift(n) PROVE TypeOK'
<1> DEFINE kept == {x \in Names : rx[n].found[x] # 0 /\ ~LiesRefused(n, x)}
           found == [x \in Names |-> IF x \in kept THEN rx[n].found[x] ELSE 0]
<1>1. rx[n] \in Takes /\ found \in [Names -> Stamps]
  BY TakeTyped, ZeroStamp DEF Takes
<1>2. Goes(n, [rx[n] EXCEPT !.pc = "examine", !.rest = kept, !.found = found])
  BY <1>1 DEF Sift, Takes
<1> HIDE DEF found
<1>3. TakeType' /\ AtAnArtifact' /\ SettlesInTake' /\ KeepsItsOwn'
  BY <1>1, <1>2, TakeOwn, GoesTyped DEF Sift, Takes, Places, TypeOK, AtAnArtifact, SettlesInTake
<1>4. StillRefused(n) \in [Names -> Stamps]
  BY ZeroStamp DEF StillRefused, TypeOK, MemoryType
<1>5. SiteType' /\ MemoryType' /\ CycleType' /\ PastType'
  BY <1>4 DEF Sift, TypeOK, SiteType, MemoryType, CycleType, PastType, site, past
<1>6. QED BY <1>3, <1>5 DEF TypeOK

LEMMA LeaveTyped == ASSUME TypeOK, NEW n \in Nodes, Leave(n) PROVE TypeOK'
<1>1. TakeType' /\ AtAnArtifact' /\ SettlesInTake' /\ KeepsItsOwn'
  BY TakeTyped, TakeOwn, GoesTyped DEF Leave, Takes, Places, TypeOK, AtAnArtifact, SettlesInTake
<1>2. SiteType' /\ MemoryType' /\ CycleType' /\ PastType'
  BY DEF Leave, TypeOK, SiteType, MemoryType, CycleType, PastType, site, past
<1>3. QED BY <1>1, <1>2 DEF TypeOK

LEMMA TakeTurnTyped == ASSUME TypeOK, NEW n \in Nodes, TakeTurn(n) PROVE TypeOK'
<1>1. PICK x \in rx[n].rest :
        \/ Goes(n, [rx[n] EXCEPT !.rest = @ \ {x}, !.name = x, !.pc = "still"])
        \/ Goes(n, [rx[n] EXCEPT !.rest = @ \ {x}])
        \/ Goes(n, [rx[n] EXCEPT !.rest = @ \ {x}, !.broken = TRUE])
  BY DEF TakeTurn
<1>2. rx[n] \in Takes /\ x \in Names /\ x # NoName /\ rx[n].pc = "examine"
  BY TakeTyped, ClaimAssumption DEF TakeTurn, Takes
<1>3. UNCHANGED <<held, jobs, settling>>
  BY DEF TakeTurn
<1>4. TakeType' /\ AtAnArtifact' /\ SettlesInTake' /\ KeepsItsOwn'
  BY <1>1, <1>2, <1>3, TakeOwn, GoesTyped DEF Takes, Places, TypeOK, AtAnArtifact, SettlesInTake
<1>5. SiteType' /\ MemoryType' /\ CycleType' /\ PastType'
  BY TakeTyped DEF TakeTurn, Takes, TypeOK, SiteType, MemoryType, CycleType, PastType, past
<1>6. QED BY <1>4, <1>5 DEF TypeOK

LEMMA StillAsFoundTyped == ASSUME TypeOK, NEW n \in Nodes, StillAsFound(n) PROVE TypeOK'
<1>1. TakeType' /\ AtAnArtifact' /\ SettlesInTake' /\ KeepsItsOwn'
  BY TakeTyped, TakeOwn, GoesTyped DEF StillAsFound, Takes, Places, TypeOK, AtAnArtifact, SettlesInTake
<1>2. SiteType' /\ MemoryType' /\ CycleType' /\ PastType'
  BY DEF StillAsFound, TypeOK, SiteType, MemoryType, CycleType, PastType, site, past
<1>3. QED BY <1>1, <1>2 DEF TypeOK

LEMMA WonTyped == ASSUME TypeOK, NEW n \in Nodes, NEW x \in Names, Won(n, x) PROVE TypeOK'
<1>1. ClaimedName(n) \in Claims /\ ClaimedName(n).by = n
  BY ClaimedNameTyped DEF Won
<1>2. TakeType' /\ AtAnArtifact' /\ SettlesInTake' /\ KeepsItsOwn'
  <2> DEFINE r == [rx[n] EXCEPT !.pc = "untake", !.won = {ClaimedName(n)}]
  <2>1. /\ r \in Takes
        /\ r.pc = "untake" /\ r.name = rx[n].name
        /\ r.left = rx[n].left /\ r.won = {ClaimedName(n)} /\ r.taken = rx[n].taken
    BY <1>1, TakeTyped DEF Takes, Places
  <2>2. Goes(n, r) /\ UNCHANGED <<held, jobs, settling>> /\ rx[n].pc = "rename"
    BY DEF Won
  <2> HIDE DEF r
  <2>3. \A c \in r.left \cup r.won \cup r.taken : c.by = n
    BY <1>1, <2>1, TakeOwn
  <2>4. rx[n].name # NoName /\ settling[n].by # "take"
    BY <2>2 DEF TypeOK, AtAnArtifact, SettlesInTake
  <2>5. QED BY <2>1, <2>2, <2>3, <2>4, GoesTyped
<1>3. /\ lying' \in [Names -> Stamps]
      /\ claimed' \in [Claims -> Stamps]
      /\ setAside' \in [Nodes -> SUBSET Names]
  BY <1>1, RenamedTyped DEF Won
<1>4. SiteType' /\ MemoryType' /\ CycleType' /\ PastType'
  BY <1>3 DEF Won, TypeOK, SiteType, MemoryType, CycleType, PastType
<1>5. QED BY <1>2, <1>4 DEF TypeOK

LEMMA RenameFailedTyped == ASSUME TypeOK, NEW n \in Nodes, RenameFailed(n) PROVE TypeOK'
<1>1. ClaimedName(n) \in Claims
  BY ClaimedNameTyped DEF RenameFailed
<1>2. TakeType' /\ AtAnArtifact' /\ SettlesInTake' /\ KeepsItsOwn'
  BY TakeTyped, TakeOwn, GoesTyped DEF RenameFailed, Takes, Places, TypeOK, AtAnArtifact, SettlesInTake
<1>3. /\ lying' \in [Names -> Stamps]
      /\ claimed' \in [Claims -> Stamps]
      /\ setAside' \in [Nodes -> SUBSET Names]
  BY <1>1, RenamedTyped DEF RenameFailed, TypeOK, SiteType, PastType
<1>4. SiteType' /\ MemoryType' /\ CycleType' /\ PastType'
  BY <1>3 DEF RenameFailed, TypeOK, SiteType, MemoryType, CycleType, PastType
<1>5. QED BY <1>2, <1>4 DEF TypeOK

LEMMA RenameRefusedTyped == ASSUME TypeOK, NEW n \in Nodes, RenameRefused(n) PROVE TypeOK'
<1>1. TakeType' /\ AtAnArtifact' /\ SettlesInTake' /\ KeepsItsOwn'
  BY TakeTyped, TakeOwn, GoesTyped DEF RenameRefused, Takes, Places, TypeOK, AtAnArtifact, SettlesInTake
<1>2. SiteType' /\ MemoryType' /\ CycleType' /\ PastType'
  BY DEF RenameRefused, TypeOK, SiteType, MemoryType, CycleType, PastType, site, past
<1>3. QED BY <1>1, <1>2 DEF TypeOK

LEMMA DropTurnTyped == ASSUME TypeOK, NEW n \in Nodes, DropTurn(n) PROVE TypeOK'
<1>1. TakeType' /\ AtAnArtifact' /\ SettlesInTake' /\ KeepsItsOwn'
  BY TakeTyped, TakeOwn, GoesTyped DEF DropTurn, Takes, Places, TypeOK, AtAnArtifact, SettlesInTake
<1>2. SiteType' /\ MemoryType' /\ CycleType' /\ PastType'
  BY DEF DropTurn, TypeOK, SiteType, MemoryType, CycleType, PastType, site, past
<1>3. QED BY <1>1, <1>2 DEF TypeOK

\* How a step of one node's cycles keeps the types, its receive and what it
\* holds unchanged or typed.
LEMMA CyclesTyped ==
  ASSUME TypeOK, NEW n \in Nodes, UNCHANGED rx, CycleType',
         \A m \in Nodes : settling'[m].by = "take" => settling[m].by = "take",
         held' \in [Nodes -> SUBSET Held],
         \A m \in Nodes : \A j \in jobs[m]' : j \in jobs[m] \/ j.claim.by = m,
         \A m \in Nodes : \A h \in held[m]' : h \in held[m] \/ h.claim.by = m
  PROVE  TakeType' /\ AtAnArtifact' /\ SettlesInTake' /\ KeepsItsOwn'
<1>1. TakeType' /\ AtAnArtifact' /\ SettlesInTake'
  BY DEF TypeOK, TakeType, AtAnArtifact, SettlesInTake
<1>2. KeepsItsOwn'
  BY TakeOwn DEF KeepsItsOwn, Known
<1>3. QED BY <1>1, <1>2

\* A cycle over, or at another stage.
LEMMA JobTyped ==
  ASSUME TypeOK, NEW n \in Nodes, NEW j \in jobs[n],
         Over(n, j) \/ \E s \in Stages, isRefused \in BOOLEAN : At(n, j, s, isRefused)
  PROVE  /\ CycleType'
         /\ \A m \in Nodes : \A k \in jobs[m]' : k \in jobs[m] \/ k.claim.by = m
<1>1. j.claim \in Claims /\ j.claim.by = n
  BY TakeOwn DEF TypeOK, CycleType, Jobs
<1>2. CASE Over(n, j)
  BY <1>2 DEF Over, TypeOK, CycleType
<1>3. ASSUME NEW s \in Stages, NEW isRefused \in BOOLEAN, At(n, j, s, isRefused)
      PROVE  /\ CycleType'
             /\ \A m \in Nodes : \A k \in jobs[m]' : k \in jobs[m] \/ k.claim.by = m
  <2> DEFINE new == [claim |-> j.claim, stage |-> s, refused |-> isRefused]
  <2>1. new \in Jobs /\ new.claim.by = n
    BY <1>1 DEF Jobs
  <2>2. jobs' = [jobs EXCEPT ![n] = (@ \ {j}) \cup {new}]
    BY <1>3 DEF At
  <2> HIDE DEF new
  <2>3. QED BY <2>1, <2>2 DEF TypeOK, CycleType
<1>4. QED BY <1>2, <1>3

LEMMA TakeDoneTyped == ASSUME TypeOK, NEW n \in Nodes, TakeDone(n) PROVE TypeOK'
<1> DEFINE new == {[claim |-> c, stage |-> "carried", refused |-> FALSE] : c \in rx[n].taken}
<1>1. rx[n] \in Takes /\ \A c \in rx[n].taken : c \in Claims /\ c.by = n
  BY TakeTyped, TakeOwn DEF Takes
<1>2. \A c \in Claims : [claim |-> c, stage |-> "carried", refused |-> FALSE] \in Jobs
  BY DEF Jobs, Stages
<1>3. new \subseteq Jobs /\ \A j \in new : j.claim.by = n
  BY <1>1, <1>2
<1>4. jobs' = [jobs EXCEPT ![n] = @ \cup new] /\ UNCHANGED held
  BY DEF TakeDone
<1> HIDE DEF new
<1>5. CycleType' /\ \A m \in Nodes : \A j \in jobs[m]' : j \in jobs[m] \/ (m = n /\ j \in new)
  BY <1>3, <1>4 DEF TypeOK, CycleType
<1>6. TakeType' /\ AtAnArtifact' /\ SettlesInTake'
  BY IdleTyped DEF TakeDone, Goes, TypeOK, TakeType, AtAnArtifact, SettlesInTake, Idle
<1>7. ASSUME NEW m \in Nodes, NEW d \in Known(m)' PROVE d.by = m
  <2>1. \A j \in jobs[m]' : j.claim.by = m
    BY <1>3, <1>5, TakeOwn
  <2>2. \A e \in rx[m].left' \cup rx[m].won' \cup rx[m].taken' : e.by = m
    BY TakeOwn DEF TakeDone, Goes, Idle, TypeOK, TakeType
  <2>3. QED BY <1>4, <1>7, <2>1, <2>2, TakeOwn DEF Known
<1>8. Seen(n) \in [Names -> Stamps]
  BY <1>1, ZeroStamp DEF Seen, Takes
<1>9. SiteType' /\ MemoryType' /\ PastType'
  BY <1>8 DEF TakeDone, TypeOK, SiteType, MemoryType, PastType, site, past
<1>10. QED BY <1>5, <1>6, <1>7, <1>9 DEF TypeOK, KeepsItsOwn

LEMMA AcceptTyped == ASSUME TypeOK, NEW n \in Nodes, Accept(n) PROVE TypeOK'
<1>1. PICK j \in jobs[n] :
        /\ At(n, j, "settle", FALSE) \/ Over(n, j)
        /\ Deleted(j.claim) \/ UNCHANGED <<claimed, consumed>>
  BY DEF Accept
<1>2. j.claim \in Claims /\ j \in Jobs
  BY DEF TypeOK, CycleType, Jobs
<1>3. /\ CycleType'
      /\ \A m \in Nodes : \A k \in jobs[m]' : k \in jobs[m] \/ k.claim.by = m
  BY <1>1, JobTyped DEF Stages
<1>4. UNCHANGED <<rx, held, settling>>
  BY DEF Accept
<1>5. TakeType' /\ AtAnArtifact' /\ SettlesInTake' /\ KeepsItsOwn'
  BY <1>3, <1>4, CyclesTyped DEF TypeOK, MemoryType
<1>6. {claimed[j.claim]} \ {0} \in SUBSET Versions
  BY <1>2, ClaimAssumption DEF TypeOK, SiteType, Stamps, Versions
<1>7. claimed' \in [Claims -> Stamps] /\ consumed' \in SUBSET Versions
  BY <1>1, <1>6, ZeroStamp DEF Deleted, TypeOK, SiteType, PastType
<1>8. SiteType' /\ MemoryType' /\ PastType'
  BY <1>7 DEF Accept, TypeOK, SiteType, MemoryType, PastType
<1>9. QED BY <1>3, <1>5, <1>8 DEF TypeOK

LEMMA GiveBackTyped == ASSUME TypeOK, NEW n \in Nodes, GiveBack(n) PROVE TypeOK'
<1>1. PICK j \in jobs[n], isRefused \in BOOLEAN,
           answer \in {"back", "gone", "kept", "failed", "lost"} :
        /\ Restore(n, j.claim, answer, isRefused)
        /\ verdicts' = IF isRefused THEN [verdicts EXCEPT ![n] = @ \cup ({claimed[j.claim]} \ {0})]
                       ELSE verdicts
        /\ At(n, j, "hold", isRefused) \/ At(n, j, "remember", TRUE) \/ Over(n, j)
  BY DEF GiveBack
<1>2. j.claim \in Claims
  BY DEF TypeOK, CycleType, Jobs
<1>3. /\ CycleType'
      /\ \A m \in Nodes : \A k \in jobs[m]' : k \in jobs[m] \/ k.claim.by = m
  BY <1>1, JobTyped DEF Stages
<1>4. UNCHANGED <<rx, held, settling>>
  BY DEF GiveBack
<1>5. TakeType' /\ AtAnArtifact' /\ SettlesInTake' /\ KeepsItsOwn'
  BY <1>3, <1>4, CyclesTyped DEF TypeOK, MemoryType
<1>6. {claimed[j.claim]} \ {0} \in SUBSET Versions
  BY <1>2, ClaimAssumption DEF TypeOK, SiteType, Stamps, Versions
<1>7. verdicts' \in [Nodes -> SUBSET Versions]
  BY <1>1, <1>6 DEF TypeOK, PastType
<1>8. /\ lying' \in [Names -> Stamps]
      /\ claimed' \in [Claims -> Stamps]
      /\ setAside' \in [Nodes -> SUBSET Names]
  BY <1>1, <1>2, RestoreTyped
<1>9. SiteType' /\ MemoryType' /\ PastType'
  BY <1>7, <1>8 DEF GiveBack, TypeOK, SiteType, MemoryType, PastType
<1>10. QED BY <1>3, <1>5, <1>9 DEF TypeOK

LEMMA RememberRefusedTyped == ASSUME TypeOK, NEW n \in Nodes, RememberRefused(n) PROVE TypeOK'
<1>1. PICK j \in jobs[n] : Remember(n, j.claim.dropped) /\ Over(n, j)
  BY DEF RememberRefused
<1>2. j.claim.dropped \in Names
  BY DEF TypeOK, CycleType, Jobs, Claims
<1>3. /\ CycleType'
      /\ \A m \in Nodes : \A k \in jobs[m]' : k \in jobs[m] \/ k.claim.by = m
  BY <1>1, JobTyped
<1>4. UNCHANGED <<rx, held, settling>>
  BY DEF RememberRefused
<1>5. TakeType' /\ AtAnArtifact' /\ SettlesInTake' /\ KeepsItsOwn'
  BY <1>3, <1>4, CyclesTyped DEF TypeOK, MemoryType
<1>6. refused' \in [Nodes -> [Names -> Stamps]]
  BY <1>1, <1>2, RememberTyped
<1>7. SiteType' /\ MemoryType' /\ PastType'
  BY <1>6 DEF RememberRefused, TypeOK, SiteType, MemoryType, PastType, site, past
<1>8. QED BY <1>3, <1>5, <1>7 DEF TypeOK

LEMMA HoldKeptTyped == ASSUME TypeOK, NEW n \in Nodes, HoldKept(n) PROVE TypeOK'
<1>1. PICK j \in jobs[n] : Hold(n, j.claim, j.refused) /\ Over(n, j)
  BY DEF HoldKept
<1>2. j.claim \in Claims /\ j.refused \in BOOLEAN /\ j.claim.by = n
  BY TakeOwn DEF TypeOK, CycleType, Jobs
<1>3. /\ CycleType'
      /\ \A m \in Nodes : \A k \in jobs[m]' : k \in jobs[m] \/ k.claim.by = m
  BY <1>1, JobTyped
<1>4. /\ held' \in [Nodes -> SUBSET Held]
      /\ \A m \in Nodes : \A h \in held[m]' : h \in held[m] \/ (m = n /\ h.claim = j.claim)
  BY <1>1, <1>2, HoldTyped
<1>5. UNCHANGED <<rx, settling>>
  BY DEF HoldKept
<1>6. TakeType' /\ AtAnArtifact' /\ SettlesInTake' /\ KeepsItsOwn'
  BY <1>2, <1>3, <1>4, <1>5, CyclesTyped
<1>7. SiteType' /\ MemoryType' /\ PastType'
  BY <1>4 DEF HoldKept, TypeOK, SiteType, MemoryType, PastType, site, past
<1>8. QED BY <1>3, <1>6, <1>7 DEF TypeOK

LEMMA ToldSettleTyped == ASSUME TypeOK, NEW n \in Nodes, ToldSettle(n) PROVE TypeOK'
<1>1. PICK j \in jobs[n] : Settle(n, "told") /\ Over(n, j)
  BY DEF ToldSettle
<1>2. /\ CycleType'
      /\ \A m \in Nodes : \A k \in jobs[m]' : k \in jobs[m] \/ k.claim.by = m
  BY <1>1, JobTyped
<1>3. settling' \in [Nodes -> Settlings]
      /\ \A m \in Nodes : settling'[m].by = "take" => settling[m].by = "take"
  <2> DEFINE new == [by |-> "told", todo |-> held[n], mark |-> {}]
  <2>1. new \in Settlings /\ new.by = "told"
    BY DEF TypeOK, MemoryType, Settlings
  <2>2. settling' \in {settling, [settling EXCEPT ![n] = new]}
    BY <1>1 DEF Settle
  <2> HIDE DEF new
  <2>3. QED BY <2>1, <2>2 DEF TypeOK, MemoryType
<1>4. UNCHANGED <<rx, held>>
  BY DEF ToldSettle
<1>5. TakeType' /\ AtAnArtifact' /\ SettlesInTake' /\ KeepsItsOwn'
  BY <1>2, <1>3, <1>4, CyclesTyped DEF TypeOK, MemoryType
<1>6. SiteType' /\ MemoryType' /\ PastType'
  BY <1>3 DEF ToldSettle, TypeOK, SiteType, MemoryType, PastType, site, past
<1>7. QED BY <1>2, <1>5, <1>6 DEF TypeOK

LEMMA CrashTyped == ASSUME TypeOK, NEW n \in Nodes, Crash(n) PROVE TypeOK'
<1>1. Idle \in Takes /\ Unlocked \in Settlings /\ NoStamps \in [Names -> Stamps]
  BY IdleTyped, ZeroStamp DEF Unlocked, Settlings, NoStamps
<1>2. SiteType'
  BY ClaimAssumption DEF Crash, TypeOK, SiteType, site
<1>3. MemoryType' /\ TakeType' /\ CycleType' /\ PastType'
  BY <1>1 DEF Crash, TypeOK, MemoryType, TakeType, CycleType, PastType
<1>4. AtAnArtifact' /\ SettlesInTake'
  BY DEF Crash, TypeOK, MemoryType, TakeType, AtAnArtifact, SettlesInTake, Idle, Unlocked
<1>5. KeepsItsOwn'
  BY DEF Crash, TypeOK, MemoryType, TakeType, CycleType, KeepsItsOwn, Known, Idle
<1>6. QED BY <1>2, <1>3, <1>4, <1>5 DEF TypeOK

LEMMA DropTyped == ASSUME TypeOK, NEW x \in Names, Drop(x) PROVE TypeOK'
<1>1. drops + 1 \in Stamps /\ drops + 1 \in Versions
  BY ClaimAssumption DEF Drop, TypeOK, SiteType, Stamps, Versions
<1>2. {lying[x]} \ {0} \in SUBSET Versions
  BY ClaimAssumption DEF TypeOK, SiteType, Stamps, Versions
<1>3. SiteType' /\ PastType'
  BY <1>1, <1>2 DEF Drop, TypeOK, SiteType, PastType
<1>4. MemoryType' /\ TakeType' /\ CycleType' /\ AtAnArtifact' /\ SettlesInTake' /\ KeepsItsOwn'
  BY DEF Drop, local, TypeOK, MemoryType, TakeType, CycleType, AtAnArtifact, SettlesInTake,
         KeepsItsOwn, Known
<1>5. QED BY <1>3, <1>4 DEF TypeOK

LEMMA StutterTyped == ASSUME TypeOK, UNCHANGED vars PROVE TypeOK'
BY DEF vars, TypeOK, SiteType, MemoryType, TakeType, CycleType, PastType, AtAnArtifact,
       SettlesInTake, KeepsItsOwn, Known

LEMMA NextTyped == ASSUME TypeOK, [Next]_vars PROVE TypeOK'
<1>1. ASSUME NEW n \in Nodes, Take(n) PROVE TypeOK'
  BY <1>1, RecoverListTyped, RecoverTurnTyped, RecoverTurnsDoneTyped, RecoverReturnTyped,
     RecoverHoldTyped, RecoverDoneTyped, TakeSettleTyped, ListTyped, SiftTyped, LeaveTyped,
     TakeTurnTyped, StillAsFoundTyped, WonTyped, RenameRefusedTyped, RenameFailedTyped,
     DropTurnTyped, TakeDoneTyped DEF Take
<1>2. ASSUME NEW n \in Nodes, Settling(n) PROVE TypeOK'
  BY <1>2, SettleOneTyped, SettleRememberTyped, SettleDoneTyped DEF Settling
<1>3. ASSUME NEW n \in Nodes, Tell(n) \/ Told(n) PROVE TypeOK'
  BY <1>3, AcceptTyped, GiveBackTyped, RememberRefusedTyped, HoldKeptTyped, ToldSettleTyped
     DEF Tell, Told
<1>4. QED
  BY <1>1, <1>2, <1>3, StartTakeTyped, CrashTyped, DropTyped, StutterTyped DEF Next

\* Every reachable state is typed: no node ever knows of another's claim, and
\* none is at an artifact without having asked for its turn.
THEOREM TypeCorrect == Spec => []TypeOK
<1>1. Init => TypeOK
  BY InitTyped
<1>2. TypeOK /\ [Next]_vars => TypeOK'
  BY NextTyped
<1>3. QED BY <1>1, <1>2, PTL DEF Spec

-----------------------------------------------------------------------------
(* Nothing is lost or doubled: a version moves, from a name to a free one, *)
(* and every action moves one, or none.                                    *)

Whereabouts == <<lying, claimed, drops, consumed, replaced>>

Answers == {"back", "gone", "kept", "failed", "lost"}

\* A claimed artifact asked to go back, answered or not.
AskedBack(c) ==
  /\ \E n \in Nodes, answer \in Answers, isRefused \in BOOLEAN : Restore(n, c, answer, isRefused)
  /\ UNCHANGED <<drops, consumed, replaced>>

\* A lying artifact moved to a claimed name nothing has.
Moved(c) == claimed[c] = 0 /\ Renamed(c) /\ UNCHANGED <<drops, consumed, replaced>>

\* A claimed artifact deleted.
Gone(c) == Deleted(c) /\ UNCHANGED <<lying, drops, replaced>>

LEMMA TakeMoves ==
  ASSUME TypeOK, NEW n \in Nodes, Take(n)
  PROVE  UNCHANGED Whereabouts \/ \E c \in Claims : AskedBack(c) \/ Moved(c)
<1>1. CASE \E x \in Names : Won(n, x)
  BY <1>1, ClaimedNameTyped DEF Won, Moved
<1>2. CASE RenameFailed(n)
  <2>1. UNCHANGED <<drops, consumed, replaced>> /\ ClaimedName(n) \in Claims
        /\ claimed[ClaimedName(n)] = 0
    BY <1>2, ClaimedNameTyped DEF RenameFailed
  <2>2. QED BY <1>2, <2>1 DEF RenameFailed, Moved, Whereabouts
<1>3. CASE RecoverReturn(n)
  <2>1. PICK c \in rx[n].left, answer \in Answers : Restore(n, c, answer, FALSE)
    BY <1>3 DEF RecoverReturn, Answers
  <2>2. c \in Claims
    BY TakeTyped DEF Takes
  <2>3. QED BY <1>3, <2>1, <2>2 DEF RecoverReturn, AskedBack
<1>4. CASE ~(\E x \in Names : Won(n, x)) /\ ~RenameFailed(n) /\ ~RecoverReturn(n)
  BY <1>4 DEF Take, Whereabouts, site, past, RecoverList, RecoverTurn, RecoverTurnsDone, RecoverHold,
              RecoverDone, TakeSettle, List, Sift, Leave, TakeTurn, StillAsFound, RenameRefused,
              DropTurn, TakeDone
<1>5. QED BY <1>1, <1>2, <1>3, <1>4

LEMMA SettlingMoves ==
  ASSUME TypeOK, NEW n \in Nodes, Settling(n)
  PROVE  UNCHANGED Whereabouts \/ \E c \in Claims : AskedBack(c)
<1>1. CASE SettleOne(n)
  <2>1. PICK h \in settling[n].todo, answer \in Answers : Restore(n, h.claim, answer, h.refused)
    BY <1>1 DEF SettleOne, Answers
  <2>2. h.claim \in Claims /\ h.refused \in BOOLEAN
    BY DEF TypeOK, MemoryType, Settlings, Held
  <2>3. QED BY <1>1, <2>1, <2>2 DEF SettleOne, AskedBack
<1>2. CASE SettleRemember(n) \/ SettleDone(n)
  BY <1>2 DEF SettleRemember, SettleDone, Whereabouts, site, past
<1>3. QED BY <1>1, <1>2 DEF Settling

LEMMA ToldMoves ==
  ASSUME TypeOK, NEW n \in Nodes, Tell(n) \/ Told(n)
  PROVE  UNCHANGED Whereabouts \/ \E c \in Claims : AskedBack(c) \/ Gone(c)
<1>1. CASE Accept(n)
  <2>1. PICK j \in jobs[n] : Deleted(j.claim) \/ UNCHANGED <<claimed, consumed>>
    BY <1>1 DEF Accept
  <2>2. j.claim \in Claims /\ UNCHANGED <<lying, drops, replaced>>
    BY <1>1 DEF Accept, TypeOK, CycleType, Jobs
  <2>3. QED BY <2>1, <2>2 DEF Gone, Whereabouts
<1>2. CASE GiveBack(n)
  <2>1. PICK j \in jobs[n], isRefused \in BOOLEAN, answer \in Answers :
          Restore(n, j.claim, answer, isRefused)
    BY <1>2 DEF GiveBack, Answers
  <2>2. j.claim \in Claims /\ UNCHANGED <<drops, consumed, replaced>>
    BY <1>2 DEF GiveBack, TypeOK, CycleType, Jobs
  <2>3. QED BY <2>1, <2>2 DEF AskedBack
<1>3. CASE Told(n)
  BY <1>3 DEF Told, RememberRefused, HoldKept, ToldSettle, Whereabouts, site, past
<1>4. QED BY <1>1, <1>2, <1>3 DEF Tell

\* What any step does to where the versions are.
LEMMA NextMoves ==
  ASSUME TypeOK, [Next]_vars
  PROVE  \/ UNCHANGED Whereabouts
         \/ \E c \in Claims : AskedBack(c) \/ Moved(c) \/ Gone(c)
         \/ \E x \in Names : Drop(x)
<1>1. ASSUME NEW n \in Nodes, StartTake(n) \/ Crash(n) PROVE UNCHANGED Whereabouts
  BY <1>1 DEF StartTake, Crash, Whereabouts, site, past
<1>2. CASE UNCHANGED vars
  BY <1>2 DEF vars, Whereabouts
<1>3. QED BY <1>1, <1>2, TakeMoves, SettlingMoves, ToldMoves DEF Next

LEMMA InitConserved == ASSUME Init PROVE Conservation
<1>1. Written /\ OnePlace
  BY DEF Init, Written, OnePlace, NoStamps
<1>2. Accounted
  BY DEF Init, Accounted
<1>3. QED BY <1>1, <1>2 DEF Conservation

\* A claimed artifact back under its dropped name, which is free.
LEMMA RestoreConserves ==
  ASSUME TypeOK, Conservation, NEW n \in Nodes, NEW c \in Claims, NEW answer, NEW isRefused,
         Restore(n, c, answer, isRefused), UNCHANGED <<drops, consumed, replaced>>
  PROVE  Conservation'
<1>1. CASE UNCHANGED <<lying, claimed>>
  BY <1>1 DEF Conservation, Written, OnePlace, Accounted
<1>2. CASE Found(c) = "back" /\ answer # "failed"
  <2>1. /\ lying[c.dropped] = 0 /\ claimed[c] # 0 /\ c.dropped \in Names
        /\ lying' = [lying EXCEPT ![c.dropped] = claimed[c]]
        /\ claimed' = [claimed EXCEPT ![c] = 0]
    BY <1>2 DEF Restore, Found, Claims
  <2>2. Written'
    BY <2>1 DEF TypeOK, SiteType, Stamps, Conservation, Written
  <2>3. OnePlace'
    BY <2>1 DEF TypeOK, SiteType, PastType, Versions, Stamps, Conservation, OnePlace
  <2>4. Accounted'
    BY <2>1 DEF TypeOK, SiteType, Conservation, Accounted
  <2>5. QED BY <2>2, <2>3, <2>4 DEF Conservation
<1>3. QED BY <1>1, <1>2 DEF Restore

\* A lying artifact under a claimed name nothing has.
LEMMA RenamedConserves ==
  ASSUME TypeOK, Conservation, NEW c \in Claims, claimed[c] = 0, Renamed(c),
         UNCHANGED <<drops, consumed, replaced>>
  PROVE  Conservation'
<1>1. /\ lying[c.dropped] # 0 /\ c.dropped \in Names
      /\ lying' = [lying EXCEPT ![c.dropped] = 0]
      /\ claimed' = [claimed EXCEPT ![c] = lying[c.dropped]]
  BY DEF Renamed, Claims
<1>2. Written'
  BY <1>1 DEF TypeOK, SiteType, Stamps, Conservation, Written
<1>3. OnePlace'
  BY <1>1 DEF TypeOK, SiteType, PastType, Versions, Stamps, Conservation, OnePlace
<1>4. Accounted'
  BY <1>1 DEF TypeOK, SiteType, Conservation, Accounted
<1>5. QED BY <1>2, <1>3, <1>4 DEF Conservation

\* A claimed artifact deleted.
LEMMA DeletedConserves ==
  ASSUME TypeOK, Conservation, NEW c \in Claims, Deleted(c), UNCHANGED <<lying, drops, replaced>>
  PROVE  Conservation'
<1>1. /\ claimed' = [claimed EXCEPT ![c] = 0]
      /\ consumed' = consumed \cup ({claimed[c]} \ {0})
  BY DEF Deleted
<1>2. Written'
  BY <1>1, ClaimAssumption DEF TypeOK, SiteType, Stamps, Conservation, Written
<1>3. OnePlace'
  BY <1>1 DEF TypeOK, SiteType, PastType, Versions, Stamps, Conservation, OnePlace
<1>4. Accounted'
  BY <1>1, ClaimAssumption DEF TypeOK, SiteType, Stamps, Conservation, Accounted
<1>5. QED BY <1>2, <1>3, <1>4 DEF Conservation

\* A new version, over the one lying there.
LEMMA DropConserves == ASSUME TypeOK, Conservation, NEW x \in Names, Drop(x) PROVE Conservation'
<1>1. /\ drops \in Nat /\ drops' = drops + 1
      /\ lying' = [lying EXCEPT ![x] = drops + 1]
      /\ replaced' = replaced \cup ({lying[x]} \ {0})
      /\ UNCHANGED <<claimed, consumed>>
  BY ClaimAssumption DEF Drop, TypeOK, SiteType, Stamps
<1>2. Written'
  BY <1>1, ClaimAssumption DEF TypeOK, SiteType, Stamps, Conservation, Written
<1>3. OnePlace'
  BY <1>1, ClaimAssumption
     DEF TypeOK, SiteType, PastType, Versions, Stamps, Conservation, Written, OnePlace
<1>4. Accounted'
  BY <1>1, ClaimAssumption DEF TypeOK, SiteType, Stamps, Conservation, Accounted
<1>5. QED BY <1>2, <1>3, <1>4 DEF Conservation

LEMMA StillConserves == ASSUME Conservation, UNCHANGED Whereabouts PROVE Conservation'
BY DEF Whereabouts, Conservation, Written, OnePlace, Accounted

LEMMA NextConserves == ASSUME TypeOK, Conservation, [Next]_vars PROVE Conservation'
BY NextMoves, RestoreConserves, RenamedConserves, DeletedConserves, DropConserves, StillConserves
   DEF AskedBack, Moved, Gone

\* Nothing a producer writes is lost or doubled, in any interleaving of any
\* number of nodes, failures and deaths, and never replaced by a return.
THEOREM NothingLost == Spec => []Conservation
<1>1. Init => Conservation
  BY InitConserved
<1>2. TypeOK /\ Conservation /\ [Next]_vars => Conservation'
  BY NextConserves
<1>3. QED BY <1>1, <1>2, TypeCorrect, PTL DEF Spec

-----------------------------------------------------------------------------
(* The turn excludes, and a claim takes what its listing found.            *)

LEMMA GoesTo == ASSUME TypeOK, NEW n \in Nodes, NEW r, Goes(n, r) PROVE rx'[n] = r
BY DEF TypeOK, TakeType, Goes

\* An artifact's turn stays its holder's, whatever step any other node takes.
LEMMA InTurnTake ==
  ASSUME TypeOK, InTurn, NEW n \in Nodes, StartTake(n) \/ Take(n) \/ Settling(n) \/ Crash(n)
  PROVE  InTurn'
<1>1. \A m \in Nodes : m # n => rx'[m] = rx[m]
  BY DEF StartTake, Take, Settling, Crash, Goes, RecoverFailed, RecoverList, RecoverTurn,
         RecoverTurnsDone, RecoverReturn, RecoverHold, RecoverDone, TakeSettle, List, Sift, Leave,
         TakeTurn, StillAsFound, Won, RenameRefused, RenameFailed, DropTurn, TakeDone, SettleOne,
         SettleRemember, SettleDone, TypeOK, TakeType
<1>2. \A x \in Names : turns'[x] = turns[x] \/ turns[x] \in {n, NoNode}
  BY DEF StartTake, Take, Settling, Crash, site, RecoverList, RecoverTurn, Holds,
         RecoverTurnsDone, RecoverReturn, RecoverHold, RecoverDone, TakeSettle, List, Sift, Leave,
         TakeTurn, StillAsFound, Won, RenameRefused, RenameFailed, DropTurn, TakeDone, SettleOne,
         SettleRemember, SettleDone, TypeOK, SiteType, InTurn, AtAnArtifact
<1>3. rx'[n].name # NoName => rx'[n].name \in Names /\ turns'[rx'[n].name] = n
  <2>1. CASE TakeTurn(n)
    <3>1. PICK x \in rx[n].rest :
            \/ /\ turns' = [turns EXCEPT ![x] = n]
               /\ Goes(n, [rx[n] EXCEPT !.rest = @ \ {x}, !.name = x, !.pc = "still"])
            \/ Goes(n, [rx[n] EXCEPT !.rest = @ \ {x}])
            \/ Goes(n, [rx[n] EXCEPT !.rest = @ \ {x}, !.broken = TRUE])
      BY <2>1 DEF TakeTurn
    <3>2. rx[n] \in Takes /\ x \in Names /\ rx[n].name = NoName
      BY <2>1, TakeTyped DEF TakeTurn, Takes, TypeOK, AtAnArtifact
    <3>3. CASE /\ turns' = [turns EXCEPT ![x] = n]
               /\ Goes(n, [rx[n] EXCEPT !.rest = @ \ {x}, !.name = x, !.pc = "still"])
      <4>1. rx'[n].name = x
        BY <3>2, <3>3, GoesTo DEF Takes
      <4>2. QED BY <3>2, <3>3, <4>1 DEF TypeOK, SiteType
    <3>4. CASE Goes(n, [rx[n] EXCEPT !.rest = @ \ {x}])
      BY <3>2, <3>4, GoesTo DEF Takes
    <3>5. CASE Goes(n, [rx[n] EXCEPT !.rest = @ \ {x}, !.broken = TRUE])
      BY <3>2, <3>5, GoesTo DEF Takes
    <3>6. QED BY <3>1, <3>3, <3>4, <3>5
  <2>2. CASE DropTurn(n)
    BY <2>2 DEF DropTurn, Goes, TypeOK, TakeType, Takes
  <2>3. CASE RecoverTurn(n)
    BY <2>3 DEF RecoverTurn, RecoverFailed, Goes, TypeOK, TakeType, AtAnArtifact, Takes
  <2>4. CASE ~TakeTurn(n) /\ ~DropTurn(n) /\ ~RecoverTurn(n)
    <3>1. UNCHANGED turns
      BY <2>4 DEF StartTake, Take, Settling, Crash, site, RecoverList, RecoverTurnsDone,
             RecoverReturn, RecoverHold, RecoverDone, TakeSettle, List, Sift, Leave, StillAsFound,
             Won, RenameRefused, RenameFailed, TakeDone, SettleOne, SettleRemember, SettleDone
    <3>2. rx'[n].name \in {NoName, rx[n].name}
      <4>1. CASE StartTake(n)
        BY <4>1, TakeTyped DEF StartTake, Goes, TypeOK, TakeType, Takes
      <4>2. CASE RecoverReturn(n)
        BY <4>2, TakeTyped DEF RecoverReturn, Goes, TypeOK, TakeType, Takes
      <4>3. CASE TakeSettle(n)
        BY <4>3, TakeTyped DEF TakeSettle, Goes, TypeOK, TakeType, Takes
      <4>4. CASE StillAsFound(n)
        BY <4>4, TakeTyped DEF StillAsFound, Goes, TypeOK, TakeType, Takes
      <4>5. CASE Settling(n)
        BY <4>5, TakeTyped DEF Settling, SettleOne, SettleRemember, SettleDone, Goes, TypeOK,
                               TakeType, Takes
      <4>6. CASE Sift(n)
        BY <4>6, TakeTyped DEF Sift, Goes, TypeOK, TakeType, Takes
      <4>7. CASE TakeDone(n)
        <5>1. rx'[n] = Idle
          BY <4>7, GoesTo DEF TakeDone
        <5>2. QED BY <5>1 DEF Idle
      <4>8. CASE List(n)
        <5>1. CASE rx'[n] = Idle
          BY <5>1 DEF Idle
        <5>2. CASE rx'[n] = [rx[n] EXCEPT !.pc = "sift", !.found = lying]
          BY <5>2, TakeTyped DEF Takes
        <5>3. QED BY <4>8, <5>1, <5>2, GoesTo DEF List
      <4>9. CASE Crash(n)
        BY <4>9 DEF Crash, Idle, TypeOK, TakeType
      <4>10. CASE RecoverList(n)
        BY <4>10, TakeTyped, GoesTo DEF RecoverList, RecoverFailed, Takes
      <4>11. CASE RecoverTurnsDone(n) \/ RecoverDone(n)
        BY <4>11, TakeTyped, GoesTo DEF RecoverTurnsDone, RecoverDone, Takes
      <4>12. CASE RecoverHold(n)
        BY <4>12, TakeTyped, GoesTo DEF RecoverHold, Takes
      <4>13. CASE Leave(n)
        BY <4>13, TakeTyped, GoesTo DEF Leave, Takes
      <4>14. CASE RenameRefused(n)
        BY <4>14, TakeTyped, GoesTo DEF RenameRefused, Takes
      <4>15. CASE RenameFailed(n)
        BY <4>15, TakeTyped, GoesTo DEF RenameFailed, Takes
      <4>16. CASE \E x \in Names : Won(n, x)
        BY <4>16, TakeTyped, GoesTo DEF Won, Takes
      <4>17. QED
        BY <2>4, <4>1, <4>2, <4>3, <4>4, <4>5, <4>6, <4>7, <4>8, <4>9, <4>10, <4>11, <4>12,
           <4>13, <4>14, <4>15, <4>16 DEF Take
    <3>3. QED BY <3>1, <3>2, TakeTyped DEF InTurn, Takes
  <2>5. QED BY <2>1, <2>2, <2>3, <2>4
<1>4. ASSUME NEW m \in Nodes, rx'[m].name # NoName PROVE turns'[rx'[m].name] = m
  <2>1. CASE m = n
    BY <1>3, <1>4, <2>1
  <2>2. CASE m # n
    BY <1>1, <1>2, <1>4, <2>2, TakeTyped, ClaimAssumption DEF InTurn, Takes
  <2>3. QED BY <2>1, <2>2
<1>5. QED BY <1>4 DEF InTurn

LEMMA NextInTurn == ASSUME TypeOK, InTurn, [Next]_vars PROVE InTurn'
<1>1. ASSUME UNCHANGED <<rx, turns>> PROVE InTurn'
  BY <1>1 DEF InTurn
<1>2. ASSUME NEW n \in Nodes, Tell(n) \/ Told(n) PROVE UNCHANGED <<rx, turns>>
  BY <1>2 DEF Tell, Told, Accept, GiveBack, RememberRefused, HoldKept, ToldSettle, site
<1>3. ASSUME NEW x \in Names, Drop(x) PROVE UNCHANGED <<rx, turns>>
  BY <1>3 DEF Drop, local
<1>4. CASE UNCHANGED vars
  BY <1>1, <1>4 DEF vars
<1>5. QED BY <1>1, <1>2, <1>3, <1>4, InTurnTake DEF Next

\* No node is between having an artifact's turn and dropping it but its one
\* holder, whatever fails and whoever dies and recovers meanwhile.
THEOREM TurnExcludes == Spec => []InTurn
<1>1. Init => InTurn
  BY DEF Init, InTurn, Idle
<1>2. TypeOK /\ InTurn /\ [Next]_vars => InTurn'
  BY NextInTurn
<1>3. QED BY <1>1, <1>2, TypeCorrect, PTL DEF Spec

=============================================================================
