--------------------------- MODULE CustodyProofs ---------------------------
(***************************************************************************)
(* Claim implements Custody: proved for every set of nodes, names and      *)
(* times, every bound and every choice of failing operations.              *)
(***************************************************************************)
EXTENDS ClaimProofs

\* A step that custody allows, or does not see.
Keeps == [Promised!Next]_(Promised!custody)

LEMMA HandsSame == ASSUME UNCHANGED claimed PROVE UNCHANGED Hands
BY DEF Hands

LEMMA StillKept == ASSUME UNCHANGED Whereabouts PROVE Keeps
BY HandsSame DEF Keeps, Whereabouts, Promised!custody

LEMMA InHands ==
  ASSUME TypeOK, Conservation, NEW c \in Claims, claimed[c] # 0
  PROVE  /\ <<c.by, c.dropped, claimed[c]>> \in Hands
         /\ c.by \in Nodes /\ c.dropped \in Names /\ claimed[c] \in 1..drops
<1>1. claimed[c] \in Nat /\ drops \in Nat /\ claimed[c] <= drops
  BY ClaimAssumption DEF TypeOK, SiteType, Stamps, Conservation, Written
<1>2. QED BY <1>1 DEF Hands, Claims

\* A claimed name emptied is its version out of its node's hands: no other
\* name holds it.
LEMMA HandsLess ==
  ASSUME TypeOK, Conservation, NEW c \in Claims, claimed[c] # 0,
         claimed' = [claimed EXCEPT ![c] = 0]
  PROVE  Hands' = Hands \ {<<c.by, c.dropped, claimed[c]>>}
<1> DEFINE out == <<c.by, c.dropped, claimed[c]>>
<1>1. ASSUME NEW e \in Hands' PROVE e \in Hands \ {out}
  <2>1. PICK d \in Claims : claimed'[d] # 0 /\ e = <<d.by, d.dropped, claimed'[d]>>
    BY <1>1 DEF Hands
  <2>2. d # c /\ claimed'[d] = claimed[d]
    BY <2>1 DEF TypeOK, SiteType
  <2>3. claimed[d] # claimed[c]
    BY <2>1, <2>2 DEF Conservation, OnePlace
  <2>4. QED BY <2>1, <2>2, <2>3 DEF Hands
<1>2. ASSUME NEW e \in Hands, e # out PROVE e \in Hands'
  <2>1. PICK d \in Claims : claimed[d] # 0 /\ e = <<d.by, d.dropped, claimed[d]>>
    BY <1>2 DEF Hands
  <2>2. d # c
    BY <1>2, <2>1
  <2>3. claimed'[d] = claimed[d]
    BY <2>2 DEF TypeOK, SiteType
  <2>4. QED BY <2>1, <2>3 DEF Hands
<1>3. QED BY <1>1, <1>2

\* A claimed name filled is its version in its node's hands.
LEMMA HandsMore ==
  ASSUME TypeOK, NEW c \in Claims, claimed[c] = 0, NEW v, v # 0,
         claimed' = [claimed EXCEPT ![c] = v]
  PROVE  Hands' = Hands \cup {<<c.by, c.dropped, v>>}
<1>1. claimed'[c] = v /\ \A d \in Claims : d # c => claimed'[d] = claimed[d]
  BY DEF TypeOK, SiteType
<1>2. ASSUME NEW e \in Hands' PROVE e \in Hands \cup {<<c.by, c.dropped, v>>}
  <2>1. PICK d \in Claims : claimed'[d] # 0 /\ e = <<d.by, d.dropped, claimed'[d]>>
    BY <1>2 DEF Hands
  <2>2. CASE d = c
    BY <1>1, <2>1, <2>2
  <2>3. CASE d # c
    BY <1>1, <2>1, <2>3 DEF Hands
  <2>4. QED BY <2>2, <2>3
<1>3. ASSUME NEW e \in Hands PROVE e \in Hands'
  <2>1. PICK d \in Claims : claimed[d] # 0 /\ e = <<d.by, d.dropped, claimed[d]>>
    BY <1>3 DEF Hands
  <2>2. d # c
    BY <2>1
  <2>3. QED BY <1>1, <2>1, <2>2 DEF Hands
<1>4. <<c.by, c.dropped, v>> \in Hands'
  BY <1>1 DEF Hands
<1>5. QED BY <1>2, <1>3, <1>4

-----------------------------------------------------------------------------
(* The steps that move a version.                                          *)

LEMMA RestoreKept ==
  ASSUME TypeOK, Conservation, NEW n \in Nodes, NEW c \in Claims, NEW answer, NEW isRefused,
         Restore(n, c, answer, isRefused), UNCHANGED <<drops, consumed, replaced>>
  PROVE  Keeps
<1>1. CASE UNCHANGED <<lying, claimed>>
  BY <1>1, StillKept DEF Whereabouts
<1>2. CASE Found(c) = "back" /\ answer # "failed"
  <2>1. /\ lying[c.dropped] = 0 /\ claimed[c] # 0
        /\ lying' = [lying EXCEPT ![c.dropped] = claimed[c]]
        /\ claimed' = [claimed EXCEPT ![c] = 0]
    BY <1>2 DEF Restore, Found
  <2>2. Promised!Return(c.by, c.dropped, claimed[c])
    BY <2>1, InHands, HandsLess DEF Promised!Return
  <2>3. Promised!Next
    BY <2>1, <2>2, InHands DEF Promised!Next
  <2>4. QED BY <2>3 DEF Keeps
<1>3. QED BY <1>1, <1>2 DEF Restore

LEMMA RenamedKept ==
  ASSUME TypeOK, NEW c \in Claims, claimed[c] = 0, Renamed(c),
         UNCHANGED <<drops, consumed, replaced>>
  PROVE  Keeps
<1>1. /\ lying[c.dropped] # 0 /\ c.dropped \in Names /\ c.by \in Nodes
      /\ lying' = [lying EXCEPT ![c.dropped] = 0]
      /\ claimed' = [claimed EXCEPT ![c] = lying[c.dropped]]
  BY DEF Renamed, Claims
<1>2. Hands' = Hands \cup {<<c.by, c.dropped, lying[c.dropped]>>}
  BY <1>1, HandsMore
<1>3. Promised!Claim(c.by, c.dropped)
  BY <1>1, <1>2 DEF Promised!Claim
<1>4. QED BY <1>1, <1>3 DEF Keeps, Promised!Next

LEMMA DeletedKept ==
  ASSUME TypeOK, Conservation, NEW c \in Claims, Deleted(c), UNCHANGED <<lying, drops, replaced>>
  PROVE  Keeps
<1>1. /\ claimed' = [claimed EXCEPT ![c] = 0]
      /\ consumed' = consumed \cup ({claimed[c]} \ {0})
  BY DEF Deleted
<1>2. CASE claimed[c] = 0
  <2>1. claimed' = claimed /\ consumed' = consumed
    BY <1>1, <1>2 DEF TypeOK, SiteType
  <2>2. QED BY <2>1, StillKept DEF Whereabouts
<1>3. CASE claimed[c] # 0
  <2>1. Promised!Consume(c.by, c.dropped, claimed[c])
    BY <1>1, <1>3, InHands, HandsLess DEF Promised!Consume
  <2>2. Promised!Next
    BY <1>3, <2>1, InHands DEF Promised!Next
  <2>3. QED BY <2>2 DEF Keeps
<1>4. QED BY <1>2, <1>3

LEMMA DropKept == ASSUME NEW x \in Names, Drop(x) PROVE Keeps
<1>1. Promised!Write(x)
  BY HandsSame DEF Drop, Promised!Write
<1>2. QED BY <1>1 DEF Keeps, Promised!Next

-----------------------------------------------------------------------------
(* Every step.                                                             *)

LEMMA NextKept == ASSUME TypeOK, Conservation, [Next]_vars PROVE Keeps
BY NextMoves, RestoreKept, RenamedKept, DeletedKept, DropKept, StillKept DEF AskedBack, Moved, Gone

\* Claim implements Custody, whatever races, fails or dies: a version only
\* ever moves whole, between its name and the one node that claimed it, and
\* what is consumed or replaced is so for good.
THEOREM ClaimKeepsCustody == Spec => KeepsCustody
<1>1. Init => Promised!Init
  BY DEF Init, NoStamps, Promised!Init, Hands
<1>2. TypeOK /\ Conservation /\ [Next]_vars => [Promised!Next]_(Promised!custody)
  BY NextKept DEF Keeps
<1>3. QED BY <1>1, <1>2, TypeCorrect, NothingLost, PTL DEF Spec, Promised!Spec, KeepsCustody

=============================================================================
