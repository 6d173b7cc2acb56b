--------------------------- MODULE ServingProofs ---------------------------
(***************************************************************************)
(* What is proved of Serving, for every set of connections and every       *)
(* bound, whether peers leave, say parts, time out or fail: a turn is made *)
(* only where something was said and no answer is owed, one answer of a    *)
(* connection is out at a time, the wait leaves no freed connection out,   *)
(* and only a failed write leaves a peer waiting on a request nobody       *)
(* answers.                                                                *)
(***************************************************************************)
EXTENDS Serving, WellFoundedInduction, TLAPS

\* The first of those that spoke is one of them.
LEMMA MinIsIn == ASSUME NEW S \in SUBSET Nat, S # {} PROVE Min(S) \in S
<1> DEFINE R == OpToRel(<, Nat)
<1>1. \A x, y \in Nat : x < y => <<x, y>> \in R
  BY DEF OpToRel
<1>2. IsWellFoundedOn(R, Nat)
  BY NatLessThanWellFounded
<1> HIDE DEF R
<1>3. PICK m \in S : \A y \in S : ~ (<<y, m>> \in R)
  BY <1>2, WFMin
<1>4. ASSUME NEW y \in S PROVE m <= y
  <2>1. y \in Nat /\ m \in Nat /\ ~ (y < m)
    BY <1>1, <1>3
  <2>2. QED BY <2>1
<1>5. QED BY <1>4 DEF Min

\* A connection let go leaves a list of connections.
LEMMA RemoveTyped ==
  ASSUME NEW S, NEW s \in Seq(S), NEW i \in 1..Len(s) PROVE RemoveAt(s, i) \in Seq(S)
BY DEF RemoveAt

\* A list something was added to is not empty.
LEMMA AppendNotEmpty ==
  ASSUME NEW S, NEW s \in Seq(S), NEW e \in S PROVE Append(s, e) # <<>>
<1>1. Len(Append(s, e)) = Len(s) + 1 /\ Len(s) \in Nat
  OBVIOUS
<1>2. Len(<<>>) = 0
  OBVIOUS
<1>3. QED BY <1>1, <1>2

\* What a list that is not empty begins with, and the rest.
LEMMA NotEmpty ==
  ASSUME NEW S, NEW s \in Seq(S), s # <<>>
  PROVE  s[1] \in S /\ Head(s) \in S /\ Tail(s) \in Seq(S)
<1>1. Len(s) \in Nat /\ Len(s) # 0 /\ s \in [1..Len(s) -> S]
  OBVIOUS
<1>2. s[1] \in S
  BY <1>1
<1>3. QED BY <1>1, <1>2

-----------------------------------------------------------------------------
(* The inductive invariant.                                                *)

\* Where a receive stands.
Receiving == [pc : Places, at : Nat \ {0}, on : SUBSET Conns, spoke : Nat,
              new : BOOLEAN, word : BOOLEAN]

Typed ==
  /\ queue \in Seq(Conns) /\ open \in Seq(Conns)
  /\ inbox \in [Conns -> Seq(0..MaxSaid)] /\ read \in [Conns -> Seq(0..MaxSaid)]
  /\ said \in [Conns -> 0..MaxSaid]
  /\ peer \in [Conns -> {"away", "there", "left"}]
  /\ busy \in [Conns -> BOOLEAN] /\ shut \in [Conns -> BOOLEAN]
  /\ told \in BOOLEAN /\ owed \in SUBSET Owed
  /\ answered \in [Conns -> SUBSET Requests] /\ unwritten \in [Conns -> SUBSET Requests]
  /\ taken \in [Conns -> SUBSET Requests]
  /\ rx \in Receiving

\* An answer not freed yet keeps its connection busy, and is its only one.
OnePerConn ==
  /\ \A a \in owed : a.stage # "tell" => busy[a.conn]
  /\ \A a, b \in owed :
       a.stage # "tell" /\ b.stage # "tell" /\ a.conn = b.conn => a = b

\* The connection at this place of the list may have its turn.
MayTurn(i) ==
  /\ i \in 1..Len(open)
  /\ ~busy[open[i]] /\ (Waiting(open[i]) \/ Readable(open[i]))

\* A turn that reads on goes on with a kept connection that owes no answer.
GoesOn == rx.pc = "within" => rx.spoke \in 1..Len(open) /\ ~busy[open[rx.spoke]]

\* What the wait found stays so until the turn: only a turn makes busy, and
\* reads.
FoundStays ==
  /\ rx.pc = "look" => rx.on = {}
  /\ rx.pc \in {"read", "poll"} => \A c \in rx.on : ~busy[c]
  /\ rx.pc \in {"hear", "accept"} /\ rx.new => queue # <<>>
  /\ rx.pc \in {"hear", "accept"} /\ rx.spoke # 0 => MayTurn(rx.spoke)
  /\ rx.pc = "turn" => MayTurn(rx.spoke)
  /\ GoesOn

\* The wait hears of c: it waits on it, or a word of it is there or comes.
Heard(c) ==
  busy[c] \/ c \in rx.on \/ told \/ \E a \in owed : a.conn = c /\ a.stage = "tell"

\* Every connection looked at so far is heard of.
Covered ==
  rx.pc \in {"read", "poll"} =>
    \A i \in 1..Len(open) : rx.pc = "poll" \/ i < rx.at => Heard(open[i])

Inv == Typed /\ OnePerConn /\ FoundStays /\ Covered /\ LeftByAFailedWriteOnly

LEMMA IdleTyped == Idle \in Receiving /\ [Idle EXCEPT !.pc = "look"] \in Receiving
<1>1. 1 \in Nat \ {0} /\ {} \in SUBSET Conns /\ 0 \in Nat /\ FALSE \in BOOLEAN
  OBVIOUS
<1>2. QED BY <1>1 DEF Idle, Receiving, Places

LEMMA InitInv == Init => Inv
<1> SUFFICES ASSUME Init PROVE Inv
  OBVIOUS
<1>1. Typed
  <2>1. <<>> \in Seq(Conns) /\ <<>> \in Seq(0..MaxSaid) /\ 0 \in 0..MaxSaid
    BY ServingAssumption
  <2>2. rx \in Receiving
    BY IdleTyped DEF Init
  <2>3. QED BY <2>1, <2>2 DEF Init, Typed
<1>2. OnePerConn /\ FoundStays /\ Covered
  BY DEF Init, Idle, OnePerConn, FoundStays, GoesOn, Covered
<1>3. LeftByAFailedWriteOnly
  BY DEF Init, LeftByAFailedWriteOnly
<1>4. QED BY <1>1, <1>2, <1>3 DEF Inv

-----------------------------------------------------------------------------
(* The peers: what may be read only grows.                                 *)

LEMMA PeersKeep ==
  ASSUME Inv, NEW c \in Conns, Peers(c) PROVE Inv'
<1>1. UNCHANGED <<open, read, busy, shut, told, owed, answered, unwritten, taken, rx>>
  BY DEF Peers, Connect, Say, SayPart, Leave, answers
<1>2. Typed'
  <2>1. CASE Connect(c)
    BY <1>1, <2>1 DEF Connect, Inv, Typed
  <2>2. CASE Say(c)
    <3>1. said[c] + 1 \in 0..MaxSaid
      BY <2>2, ServingAssumption DEF Say, Inv, Typed
    <3>2. QED BY <1>1, <2>2, <3>1 DEF Say, Inv, Typed
  <2>3. CASE SayPart(c)
    <3>1. 0 \in 0..MaxSaid
      BY ServingAssumption
    <3>2. QED BY <1>1, <2>3, <3>1 DEF SayPart, Inv, Typed
  <2>4. CASE Leave(c)
    BY <1>1, <2>4 DEF Leave, Inv, Typed
  <2>5. QED BY <2>1, <2>2, <2>3, <2>4 DEF Peers
<1>3. /\ queue # <<>> => queue' # <<>>
      /\ \A d \in Conns : /\ inbox[d] # <<>> => inbox'[d] # <<>>
                          /\ peer[d] = "left" => peer'[d] = "left"
  <2>1. CASE Connect(c)
    <3>1. peer[c] = "away" /\ peer' = [peer EXCEPT ![c] = "there"] /\ UNCHANGED inbox
      BY <2>1 DEF Connect
    <3>2. queue' # <<>>
      BY <2>1, AppendNotEmpty DEF Connect, Inv, Typed
    <3>3. QED BY <3>1, <3>2 DEF Inv, Typed
  <2>2. CASE Say(c)
    <3>1. said[c] + 1 \in 0..MaxSaid
      BY <2>2, ServingAssumption DEF Say, Inv, Typed
    <3>2. Append(inbox[c], said[c] + 1) # <<>>
      BY <3>1, AppendNotEmpty DEF Inv, Typed
    <3>3. QED BY <2>2, <3>2 DEF Say, Inv, Typed
  <2>3. CASE SayPart(c)
    <3>1. 0 \in 0..MaxSaid
      BY ServingAssumption
    <3>2. Append(inbox[c], 0) # <<>>
      BY <3>1, AppendNotEmpty DEF Inv, Typed
    <3>3. QED BY <2>3, <3>2 DEF SayPart, Inv, Typed
  <2>4. CASE Leave(c)
    BY <2>4 DEF Leave, Inv, Typed
  <2>5. QED BY <2>1, <2>2, <2>3, <2>4 DEF Peers
<1>4. \A i \in Nat : MayTurn(i) => MayTurn(i)'
  <2> SUFFICES ASSUME NEW i \in Nat, MayTurn(i) PROVE MayTurn(i)'
    OBVIOUS
  <2>1. open[i] \in Conns
    BY DEF MayTurn, Waiting, Inv, Typed
  <2>2. Readable(open[i]) => Readable(open[i])'
    BY <1>1, <1>3, <2>1 DEF Readable
  <2>3. QED BY <1>1, <2>2 DEF MayTurn, Waiting
<1>5. FoundStays'
  BY <1>1, <1>3, <1>4 DEF FoundStays, GoesOn, Inv, Typed, Receiving
<1>6. OnePerConn' /\ Covered'
  BY <1>1 DEF Inv, OnePerConn, Covered, Heard
<1>7. LeftByAFailedWriteOnly'
  BY <1>1, <1>3 DEF Inv, LeftByAFailedWriteOnly, Typed
<1>8. QED BY <1>2, <1>5, <1>6, <1>7 DEF Inv

-----------------------------------------------------------------------------
(* The receive.  Until its turn it moves nothing but itself.               *)

\* A step of the receive alone keeps what only others change.
LEMMA RoundKeeps ==
  ASSUME Inv, UNCHANGED <<conns, busy, shut, owed, answered, unwritten, taken>>,
         rx' \in Receiving, told' \in BOOLEAN
  PROVE  /\ Typed' /\ OnePerConn' /\ LeftByAFailedWriteOnly'
         /\ \A i \in Nat : MayTurn(i)' = MayTurn(i)
<1>1. UNCHANGED <<queue, open, peer, said, inbox, read, busy, shut, owed, answered, unwritten, taken>>
  BY DEF conns
<1>2. QED BY <1>1 DEF Inv, Typed, OnePerConn, LeftByAFailedWriteOnly, MayTurn, Waiting, Readable

\* Where a receive stands, and what it holds, is typed.
LEMMA StandsTyped ==
  ASSUME Inv PROVE rx \in Receiving /\ told \in BOOLEAN /\ Len(open) \in Nat
BY DEF Inv, Typed

LEMMA StartKeeps == ASSUME Inv, Start \/ NothingWithin PROVE Inv'
<1>1. UNCHANGED <<conns, answers, taken>> /\ (rx' = Idle \/ rx' = [Idle EXCEPT !.pc = "look"])
  BY DEF Start, NothingWithin
<1>2. rx' \in Receiving
  BY <1>1, IdleTyped
<1>3. FoundStays' /\ Covered'
  BY <1>1 DEF Idle, FoundStays, GoesOn, Covered
<1>4. QED BY <1>1, <1>2, <1>3, RoundKeeps, StandsTyped DEF Inv, answers

LEMMA LookKeeps == ASSUME Inv, Look PROVE Inv'
<1>1. rx.pc = "look" /\ UNCHANGED <<conns, answers, taken>> /\ rx.on = {}
  BY DEF Look, Inv, FoundStays, GoesOn
<1>2. rx \in Receiving /\ told \in BOOLEAN /\ Len(open) \in Nat
  BY StandsTyped
<1>3. CASE rx' = [rx EXCEPT !.pc = "read", !.at = 1]
  <2>1. rx' \in Receiving
    <3>1. 1 \in Nat \ {0}
      OBVIOUS
    <3>2. QED BY <1>2, <1>3, <3>1 DEF Receiving, Places
  <2>2. FoundStays' /\ Covered'
    BY <1>1, <1>2, <1>3 DEF FoundStays, GoesOn, Covered, Receiving
  <2>3. QED BY <1>1, <1>2, <2>1, <2>2, RoundKeeps DEF Inv, answers
<1>4. CASE /\ rx' = [rx EXCEPT !.pc = "turn", !.spoke = rx.at]
           /\ rx.at <= Len(open) /\ ~busy[open[rx.at]] /\ Waiting(open[rx.at])
  <2>1. rx' \in Receiving /\ rx'.pc = "turn" /\ rx'.spoke = rx.at /\ rx.at \in Nat
    BY <1>2, <1>4 DEF Receiving, Places
  <2>2. MayTurn(rx.at)
    BY <1>2, <1>4 DEF MayTurn, Waiting, Receiving
  <2>3. /\ \A i \in Nat : MayTurn(i)' = MayTurn(i)
        /\ Typed' /\ OnePerConn' /\ LeftByAFailedWriteOnly'
    BY <1>1, <1>2, <2>1, RoundKeeps DEF answers
  <2>4. FoundStays' /\ Covered'
    BY <2>1, <2>2, <2>3 DEF FoundStays, GoesOn, Covered
  <2>5. QED BY <2>3, <2>4 DEF Inv
<1>5. CASE rx' = [rx EXCEPT !.at = @ + 1]
  <2>1. rx' \in Receiving
    <3>1. rx.at + 1 \in Nat \ {0}
      BY <1>2 DEF Receiving
    <3>2. QED BY <1>2, <1>5, <3>1 DEF Receiving
  <2>2. FoundStays' /\ Covered'
    BY <1>1, <1>2, <1>5 DEF FoundStays, GoesOn, Covered, Receiving
  <2>3. QED BY <1>1, <1>2, <2>1, <2>2, RoundKeeps DEF Inv, answers
<1>6. QED BY <1>2, <1>3, <1>4, <1>5 DEF Look, Owing, Receiving

LEMMA ReadKeeps == ASSUME Inv, Read PROVE Inv'
<1>1. rx.pc = "read" /\ UNCHANGED <<conns, answers, taken>>
  BY DEF Read
<1>2. rx \in Receiving /\ told \in BOOLEAN /\ Len(open) \in Nat
  BY StandsTyped
<1>3. CASE rx.at > Len(open) /\ rx' = [rx EXCEPT !.pc = "poll"]
  <2>1. rx' \in Receiving /\ rx'.pc = "poll" /\ rx'.on = rx.on
    BY <1>2, <1>3 DEF Receiving, Places
  <2>2. FoundStays'
    BY <1>1, <2>1 DEF FoundStays, GoesOn, Inv, answers
  <2>3. Covered'
    BY <1>1, <1>2, <1>3, <2>1 DEF Covered, Heard, Inv, answers, conns, Receiving
  <2>4. QED BY <1>1, <1>2, <2>1, <2>2, <2>3, RoundKeeps DEF Inv, answers
<1>4. ASSUME rx.at <= Len(open),
             rx' = [rx EXCEPT !.at = @ + 1,
                              !.on = IF busy[open[rx.at]] THEN @ ELSE @ \cup {open[rx.at]}]
      PROVE  Inv'
  <2> DEFINE c  == open[rx.at]
             on == IF busy[c] THEN rx.on ELSE rx.on \cup {c}
  <2>1. rx.at \in 1..Len(open) /\ c \in Conns
    BY <1>2, <1>4 DEF Inv, Typed, Receiving
  <2>2. on \in SUBSET Conns
    BY <1>2, <2>1 DEF Receiving
  <2>3. rx' = [rx EXCEPT !.at = rx.at + 1, !.on = on]
    BY <1>2, <1>4 DEF Receiving
  <2>4. /\ rx.on \subseteq on /\ on \subseteq rx.on \cup {c}
        /\ busy[c] \/ c \in on
        /\ c \in on => ~busy[c] \/ c \in rx.on
    OBVIOUS
  <2> HIDE DEF on
  <2>5. rx' \in Receiving /\ rx'.pc = "read" /\ rx'.at = rx.at + 1 /\ rx'.on = on
    <3>1. rx.at + 1 \in Nat \ {0}
      BY <1>2 DEF Receiving
    <3>2. QED BY <1>1, <1>2, <2>2, <2>3, <3>1 DEF Receiving
  <2>6. FoundStays'
    BY <1>1, <2>4, <2>5 DEF FoundStays, GoesOn, Inv, answers
  <2>7. Covered'
    <3>1. SUFFICES ASSUME NEW i \in 1..Len(open), i < rx.at + 1 PROVE Heard(open[i])'
      BY <1>1, <2>5 DEF Covered, conns
    <3>2. CASE i = rx.at
      BY <1>1, <2>4, <2>5, <3>2 DEF Heard, answers, conns
    <3>3. CASE i < rx.at
      BY <1>1, <2>4, <2>5, <3>3 DEF Heard, Covered, Inv, answers, conns
    <3>4. QED BY <2>1, <3>1, <3>2, <3>3
  <2>8. QED BY <1>1, <1>2, <2>5, <2>6, <2>7, RoundKeeps DEF Inv, answers
<1>5. rx.at > Len(open) \/ rx.at <= Len(open)
  BY <1>2 DEF Receiving
<1>6. QED BY <1>3, <1>4, <1>5 DEF Read, Owing

\* The wait finds one that spoke, first or not, free and readable.
LEMMA PollKeeps == ASSUME Inv, Poll PROVE Inv'
<1>1. rx.pc = "poll" /\ UNCHANGED <<conns, answers, taken>>
  BY DEF Poll
<1>2. rx \in Receiving /\ told \in BOOLEAN /\ Len(open) \in Nat
  BY StandsTyped
<1> DEFINE first == IF Spoken = {} THEN 0 ELSE Min(Spoken)
<1>3. first \in Nat /\ (first # 0 => MayTurn(first))
  <2>1. Spoken \in SUBSET Nat
    BY <1>2 DEF Spoken
  <2>2. Spoken # {} => Min(Spoken) \in Spoken
    BY <2>1, MinIsIn
  <2>3. \A i \in Spoken : MayTurn(i)
    BY <1>1 DEF Spoken, MayTurn, Waiting, FoundStays, GoesOn, Inv
  <2>4. QED BY <2>1, <2>2, <2>3
<1>4. rx' = [rx EXCEPT !.pc = "hear", !.new = (queue # <<>>), !.word = told, !.spoke = first]
  BY DEF Poll
<1> HIDE DEF first
<1>5. rx' \in Receiving /\ rx'.pc = "hear" /\ rx'.new = (queue # <<>>) /\ rx'.spoke = first
  BY <1>2, <1>3, <1>4 DEF Receiving, Places
<1>6. /\ \A i \in Nat : MayTurn(i)' = MayTurn(i)
      /\ Typed' /\ OnePerConn' /\ LeftByAFailedWriteOnly'
  BY <1>1, <1>2, <1>5, RoundKeeps DEF answers
<1>7. FoundStays' /\ Covered'
  BY <1>1, <1>3, <1>5, <1>6 DEF FoundStays, GoesOn, Covered, conns
<1>8. QED BY <1>6, <1>7 DEF Inv

LEMMA HearKeeps == ASSUME Inv, Hear PROVE Inv'
<1>1. /\ rx.pc = "hear" /\ UNCHANGED <<conns, busy, shut, owed, answered, unwritten, taken>>
      /\ rx' = [rx EXCEPT !.pc = "accept"]
  BY DEF Hear
<1>2. rx \in Receiving /\ told' \in BOOLEAN
  BY StandsTyped DEF Hear
<1>3. rx' \in Receiving /\ rx'.pc = "accept" /\ rx'.new = rx.new /\ rx'.spoke = rx.spoke
  BY <1>1, <1>2 DEF Receiving, Places
<1>4. /\ \A i \in Nat : MayTurn(i)' = MayTurn(i)
      /\ Typed' /\ OnePerConn' /\ LeftByAFailedWriteOnly'
  BY <1>1, <1>2, <1>3, RoundKeeps
<1>5. FoundStays' /\ Covered'
  BY <1>1, <1>2, <1>3, <1>4 DEF FoundStays, GoesOn, Covered, Inv, conns, Receiving
<1>6. QED BY <1>4, <1>5 DEF Inv

\* Who came is added behind, and the front one let go moves every place up:
\* the one that spoke has its turn all the same.
LEMMA AcceptKeeps == ASSUME Inv, Accept PROVE Inv'
<1>1. /\ rx.pc = "accept"
      /\ UNCHANGED <<peer, said, inbox, read, busy, shut, told, owed, answered, unwritten, taken>>
  BY DEF Accept, answers
<1>2. rx \in Receiving /\ Len(open) \in Nat /\ queue \in Seq(Conns) /\ open \in Seq(Conns)
  BY StandsTyped DEF Inv, Typed
<1>3. OnePerConn' /\ LeftByAFailedWriteOnly'
  BY <1>1 DEF Inv, OnePerConn, LeftByAFailedWriteOnly
<1>4. (rx.spoke # 0 => MayTurn(rx.spoke)) /\ (rx.new => queue # <<>>)
  BY <1>1 DEF Inv, FoundStays, GoesOn
<1>5. ASSUME UNCHANGED <<queue, open>>, rx' = Turns(rx.spoke) PROVE Inv'
  <2>1. \A i \in Nat : MayTurn(i)' = MayTurn(i)
    BY <1>1, <1>5 DEF MayTurn, Waiting, Readable
  <2>2. rx' \in Receiving /\ FoundStays' /\ Covered'
    <3>1. CASE rx.spoke = 0
      BY <1>5, <3>1, IdleTyped DEF Turns, Again, Idle, FoundStays, GoesOn, Covered
    <3>2. CASE rx.spoke # 0
      <4>1. rx' \in Receiving /\ rx'.pc = "turn" /\ rx'.spoke = rx.spoke /\ rx.spoke \in Nat
        BY <1>2, <1>5, <3>2 DEF Turns, Receiving, Places
      <4>2. QED BY <1>4, <2>1, <3>2, <4>1 DEF FoundStays, GoesOn, Covered
    <3>3. QED BY <3>1, <3>2
  <2>3. Typed'
    BY <1>1, <1>5, <2>2 DEF Inv, Typed
  <2>4. QED BY <1>3, <2>2, <2>3 DEF Inv
<1>6. ASSUME rx.new, queue' = Tail(queue), open' = Append(Room, Head(queue)),
             rx' = Turns(IF Full THEN Moved(rx.spoke) ELSE rx.spoke)
      PROVE  Inv'
  <2>1. queue # <<>> /\ Head(queue) \in Conns /\ queue' \in Seq(Conns)
    BY <1>2, <1>4, <1>6, NotEmpty
  <2>2. Full => open # <<>>
    BY <1>2, ServingAssumption DEF Full
  <2>3. Room \in Seq(Conns) /\ open' \in Seq(Conns)
    BY <1>2, <1>6, <2>1, <2>2, NotEmpty DEF Room
  <2>4. rx.spoke \in Nat /\ (rx.spoke # 0 => rx.spoke \in 1..Len(open))
    BY <1>2, <1>4 DEF Receiving, MayTurn, Waiting
  <2>5. PICK i \in Nat :
          /\ rx' = Turns(i)
          /\ i # 0 => i \in 1..Len(open') /\ open'[i] = open[rx.spoke] /\ rx.spoke # 0
    <3>1. CASE Full
      <4>1. Room = Tail(open) /\ rx' = Turns(Moved(rx.spoke))
        BY <1>6, <3>1 DEF Room
      <4>2. /\ Moved(rx.spoke) \in Nat
            /\ Moved(rx.spoke) # 0 => rx.spoke # 0 /\ Moved(rx.spoke) = rx.spoke - 1
        BY <2>4 DEF Moved
      <4>3. /\ Len(Tail(open)) = Len(open) - 1
            /\ \A i \in 1..(Len(open) - 1) : Tail(open)[i] = open[i + 1]
        BY <1>2, <2>2, <3>1
      <4>4. Len(open') = Len(Room) + 1 /\ \A i \in 1..Len(Room) : open'[i] = Room[i]
        BY <1>6, <2>1, <2>3
      <4>5. QED BY <1>2, <2>4, <4>1, <4>2, <4>3, <4>4
    <3>2. CASE ~Full
      <4>1. Room = open /\ rx' = Turns(rx.spoke)
        BY <1>6, <3>2 DEF Room
      <4>2. Len(open') = Len(open) + 1 /\ \A i \in 1..Len(open) : open'[i] = open[i]
        BY <1>2, <1>6, <2>1, <4>1
      <4>3. QED BY <1>2, <2>4, <4>1, <4>2
    <3>3. QED BY <3>1, <3>2
  <2>6. i # 0 => MayTurn(i)'
    BY <1>1, <1>4, <2>5 DEF MayTurn, Waiting, Readable
  <2>7. rx' \in Receiving /\ FoundStays' /\ Covered'
    <3>1. CASE i = 0
      BY <2>5, <3>1, IdleTyped DEF Turns, Again, Idle, FoundStays, GoesOn, Covered
    <3>2. CASE i # 0
      <4>1. rx' \in Receiving /\ rx'.pc = "turn" /\ rx'.spoke = i
        BY <1>2, <2>5, <3>2 DEF Turns, Receiving, Places
      <4>2. QED BY <2>6, <3>2, <4>1 DEF FoundStays, GoesOn, Covered
    <3>3. QED BY <3>1, <3>2
  <2>8. Typed'
    BY <1>1, <2>1, <2>3, <2>7 DEF Inv, Typed
  <2>9. QED BY <1>3, <2>7, <2>8 DEF Inv
<1>7. ASSUME rx.new, queue' = Tail(queue), open' \in {open, Room}, rx' = Idle PROVE Inv'
  <2>1. queue' \in Seq(Conns) /\ open' \in Seq(Conns)
    <3>1. Full => open # <<>>
      BY <1>2, ServingAssumption DEF Full
    <3>2. QED BY <1>2, <1>4, <1>7, <3>1, NotEmpty DEF Room
  <2>2. Typed'
    BY <1>1, <1>7, <2>1, IdleTyped DEF Inv, Typed
  <2>3. FoundStays' /\ Covered'
    BY <1>7 DEF Idle, FoundStays, GoesOn, Covered
  <2>4. QED BY <1>3, <2>2, <2>3 DEF Inv
<1>8. QED BY <1>5, <1>6, <1>7 DEF Accept, Comes

-----------------------------------------------------------------------------
(* The turn.                                                               *)

\* Reading a connection leaves its reader and its socket typed.
LEMMA ReadOneTyped ==
  ASSUME Inv, NEW c \in Conns, ReadOne(c)
  PROVE  /\ read' \in [Conns -> Seq(0..MaxSaid)] /\ inbox' \in [Conns -> Seq(0..MaxSaid)]
         /\ Words(c)[1] \in 0..MaxSaid
<1>1. Words(c) \in Seq(0..MaxSaid) /\ Words(c) # <<>>
  BY DEF Inv, Typed, Words, ReadOne
<1>2. Words(c)[1] \in 0..MaxSaid /\ Tail(Words(c)) \in Seq(0..MaxSaid)
  BY <1>1, NotEmpty
<1>3. read' \in [Conns -> Seq(0..MaxSaid)]
  BY <1>2 DEF ReadOne, Inv, Typed
<1>4. <<>> \in Seq(0..MaxSaid)
  OBVIOUS
<1>5. inbox' \in [Conns -> Seq(0..MaxSaid)]
  BY <1>4 DEF ReadOne, Inv, Typed
<1>6. QED BY <1>2, <1>3, <1>5

\* The connection whose turn it is is a kept one that owes no answer, and it
\* may be let go.
LEMMA TurnOf ==
  ASSUME Inv, InTurn
  PROVE  /\ rx.spoke \in 1..Len(open) /\ open[rx.spoke] \in Conns
         /\ ~busy[open[rx.spoke]]
         /\ Without(rx.spoke) \in Seq(Conns)
<1>1. rx.spoke \in 1..Len(open) /\ ~busy[open[rx.spoke]] /\ open \in Seq(Conns)
  BY DEF InTurn, Inv, FoundStays, GoesOn, MayTurn, Waiting, Typed
<1>2. QED BY <1>1, RemoveTyped DEF Without

LEMMA TakenKeeps ==
  ASSUME Inv, InTurn, ReadOne(open[rx.spoke]), Taken(open[rx.spoke]),
         UNCHANGED <<queue, peer, said, shut, told, unwritten>>
  PROVE  Inv'
<1> DEFINE c == open[rx.spoke]
           k == Words(c)[1]
           a == [conn |-> c, to |-> k, stage |-> "owed"]
<1>1. c \in Conns /\ ~busy[c] /\ Without(rx.spoke) \in Seq(Conns)
  BY TurnOf
<1>2. k \in Requests
  BY <1>1, ReadOneTyped, ServingAssumption DEF Taken, Requests
<1>3. a \in Owed
  BY <1>1, <1>2 DEF Owed
<1>4. open' \in Seq(Conns)
  BY <1>1 DEF Taken
<1>5. rx' = Idle /\ taken' = [taken EXCEPT ![c] = @ \cup {k}]
  BY DEF Taken
<1>6. \/ answered' = [answered EXCEPT ![c] = @ \cup {k}] /\ UNCHANGED <<busy, owed>>
      \/ busy' = [busy EXCEPT ![c] = TRUE] /\ owed' = owed \cup {a} /\ UNCHANGED answered
  BY DEF Taken
<1>7. \A b \in owed : b.stage # "tell" => b.conn # c
  BY <1>1 DEF Inv, OnePerConn
<1>8. a.conn = c /\ a.to = k /\ a.stage = "owed"
  OBVIOUS
<1>9. read' \in [Conns -> Seq(0..MaxSaid)] /\ inbox' \in [Conns -> Seq(0..MaxSaid)]
  BY <1>1, ReadOneTyped
<1> HIDE DEF c, k, a
<1>10. Typed'
  <2>1. taken' \in [Conns -> SUBSET Requests] /\ answered' \in [Conns -> SUBSET Requests]
    <3>1. taken[c] \cup {k} \in SUBSET Requests /\ answered[c] \cup {k} \in SUBSET Requests
      BY <1>1, <1>2 DEF Inv, Typed
    <3>2. taken' \in [Conns -> SUBSET Requests]
      BY <1>1, <1>5, <3>1 DEF Inv, Typed
    <3>3. answered' \in [Conns -> SUBSET Requests]
      BY <1>1, <1>6, <3>1 DEF Inv, Typed
    <3>4. QED BY <3>2, <3>3
  <2>2. owed' \in SUBSET Owed /\ busy' \in [Conns -> BOOLEAN]
    BY <1>1, <1>3, <1>6 DEF Inv, Typed
  <2>3. QED BY <1>4, <1>5, <1>9, <2>1, <2>2, IdleTyped DEF Inv, Typed
<1>11. FoundStays' /\ Covered'
  BY <1>5 DEF Idle, FoundStays, GoesOn, Covered
<1>12. OnePerConn'
  BY <1>1, <1>6, <1>7, <1>8 DEF Inv, OnePerConn, Typed, Owed
<1>13. LeftByAFailedWriteOnly'
  <2> SUFFICES ASSUME NEW d \in Conns, NEW q \in taken'[d]
               PROVE  \/ q \in answered'[d] \/ q \in unwritten'[d] \/ shut'[d]
                      \/ \E b \in owed' : b.conn = d /\ b.to = q /\ b.stage = "owed"
    BY DEF LeftByAFailedWriteOnly
  <2>1. CASE d = c /\ q = k
    BY <1>1, <1>6, <1>8, <2>1 DEF Inv, Typed
  <2>2. CASE ~(d = c /\ q = k)
    <3>1. q \in taken[d]
      BY <1>5, <2>2 DEF Inv, Typed
    <3>2. /\ answered[d] \subseteq answered'[d] /\ owed \subseteq owed'
      BY <1>6 DEF Inv, Typed
    <3>3. QED BY <3>1, <3>2 DEF Inv, LeftByAFailedWriteOnly
  <2>3. QED BY <2>1, <2>2
<1>14. QED BY <1>10, <1>11, <1>12, <1>13 DEF Inv

\* The other ends of a turn leave the answers alone.
LEMMA TurnKeeps ==
  ASSUME Inv, UNCHANGED <<queue, peer, said, busy, shut, told, owed, answered, unwritten, taken>>,
         rx' = Idle \/ rx' = Again, open' \in Seq(Conns),
         read' \in [Conns -> Seq(0..MaxSaid)], inbox' \in [Conns -> Seq(0..MaxSaid)]
  PROVE  Inv'
<1>1. rx' \in Receiving /\ FoundStays' /\ Covered'
  <2>1. CASE rx' = Idle
    BY <2>1, IdleTyped DEF Idle, FoundStays, GoesOn, Covered
  <2>2. CASE rx' = Again
    <3>1. rx' \in Receiving
      BY <2>2, IdleTyped DEF Again
    <3>2. rx'.pc = "look" /\ rx'.on = {}
      BY <2>2 DEF Again, Idle
    <3>3. QED BY <3>1, <3>2 DEF FoundStays, GoesOn, Covered
  <2>3. QED BY <2>1, <2>2
<1>2. Typed'
  BY <1>1 DEF Inv, Typed
<1>3. OnePerConn' /\ LeftByAFailedWriteOnly'
  BY DEF Inv, OnePerConn, LeftByAFailedWriteOnly
<1>4. QED BY <1>1, <1>2, <1>3 DEF Inv

LEMMA ExchangeKeeps == ASSUME Inv, Exchange PROVE Inv'
<1> DEFINE c == open[rx.spoke]
<1>1. /\ InTurn /\ ReadOne(c) /\ (Taken(c) \/ Nothing(c) \/ Failed)
      /\ UNCHANGED <<queue, peer, said, shut, told, unwritten>>
  BY DEF Exchange
<1>2. c \in Conns /\ Without(rx.spoke) \in Seq(Conns) /\ open \in Seq(Conns)
  BY <1>1, TurnOf DEF Inv, Typed
<1>3. read' \in [Conns -> Seq(0..MaxSaid)] /\ inbox' \in [Conns -> Seq(0..MaxSaid)]
  BY <1>1, <1>2, ReadOneTyped
<1>4. CASE Taken(c)
  BY <1>1, <1>4, TakenKeeps
<1>5. CASE Nothing(c)
  <2>1. rx' = Again /\ UNCHANGED <<open, busy, owed, answered, taken>>
    BY <1>5 DEF Nothing
  <2>2. QED BY <1>1, <1>2, <1>3, <2>1, TurnKeeps
<1>6. CASE Failed
  <2>1. rx' = Idle /\ open' = Without(rx.spoke) /\ UNCHANGED <<busy, owed, answered, taken>>
    BY <1>6 DEF Failed
  <2>2. QED BY <1>1, <1>2, <1>3, <2>1, TurnKeeps
<1>7. QED BY <1>1, <1>4, <1>5, <1>6

\* Read on, the turn is still this connection's.
LEMMA ReadOnKeeps == ASSUME Inv, ReadOn PROVE Inv'
<1> DEFINE c == open[rx.spoke]
<1>1. /\ InTurn /\ ReadOne(c) /\ rx' = [rx EXCEPT !.pc = "within"]
      /\ UNCHANGED <<queue, open, peer, said, busy, shut, told, owed, answered, unwritten, taken>>
  BY DEF ReadOn, answers
<1>2. rx.spoke \in 1..Len(open) /\ c \in Conns /\ ~busy[c]
  BY <1>1, TurnOf
<1>3. read' \in [Conns -> Seq(0..MaxSaid)] /\ inbox' \in [Conns -> Seq(0..MaxSaid)]
  BY <1>1, <1>2, ReadOneTyped
<1>4. rx' \in Receiving /\ rx'.pc = "within" /\ rx'.spoke = rx.spoke
  BY <1>1, StandsTyped DEF Receiving, Places
<1>5. Typed'
  BY <1>1, <1>3, <1>4 DEF Inv, Typed
<1>6. FoundStays' /\ Covered'
  BY <1>1, <1>2, <1>4 DEF FoundStays, GoesOn, Covered
<1>7. OnePerConn' /\ LeftByAFailedWriteOnly'
  BY <1>1 DEF Inv, OnePerConn, LeftByAFailedWriteOnly
<1>8. QED BY <1>5, <1>6, <1>7 DEF Inv

LEMMA ClosedKeeps == ASSUME Inv, Closed \/ StopsWithin PROVE Inv'
<1>1. /\ InTurn /\ open' = Without(rx.spoke) /\ (rx' = Again \/ rx' = Idle)
      /\ UNCHANGED <<queue, peer, said, inbox, read, busy, shut, told, owed, answered, unwritten, taken>>
  BY DEF Closed, StopsWithin, InTurn, answers
<1>2. open' \in Seq(Conns)
  BY <1>1, TurnOf
<1>3. QED BY <1>1, <1>2, TurnKeeps DEF Inv, Typed

-----------------------------------------------------------------------------
(* The answers.                                                            *)

\* Where a connection is not made busy and nothing is shut that was open, what
\* the wait found stays.
LEMMA AnswerFindsStay ==
  ASSUME Inv, UNCHANGED <<conns, rx>>,
         \A c \in Conns : (busy'[c] => busy[c]) /\ (shut[c] => shut'[c])
  PROVE  FoundStays'
<1>1. \A i \in Nat : MayTurn(i) => MayTurn(i)'
  <2> SUFFICES ASSUME NEW i \in Nat, MayTurn(i) PROVE MayTurn(i)'
    OBVIOUS
  <2>1. open[i] \in Conns
    BY DEF MayTurn, Waiting, Inv, Typed
  <2>2. QED BY <2>1 DEF MayTurn, Waiting, Readable, conns
<1>2. rx.on \subseteq Conns /\ rx.spoke \in Nat
  BY StandsTyped DEF Receiving
<1>3. GoesOn'
  <2> SUFFICES ASSUME rx.pc = "within" PROVE rx.spoke \in 1..Len(open) /\ ~busy'[open[rx.spoke]]
    BY DEF GoesOn, conns
  <2>1. rx.spoke \in 1..Len(open) /\ ~busy[open[rx.spoke]] /\ open[rx.spoke] \in Conns
    BY DEF Inv, FoundStays, GoesOn, Typed
  <2>2. QED BY <2>1
<1>4. QED BY <1>1, <1>2, <1>3 DEF FoundStays, Inv, conns

\* An answer that goes on keeps its connection and its request.
LEMMA AtTyped ==
  ASSUME Inv, NEW a \in owed, NEW stage \in {"owed", "free", "tell"}, At(a, stage)
  PROVE  /\ owed' \in SUBSET Owed
         /\ \E b \in Owed : /\ owed' = (owed \ {a}) \cup {b}
                            /\ b.conn = a.conn /\ b.to = a.to /\ b.stage = stage
<1>1. a \in Owed
  BY DEF Inv, Typed
<1>2. [a EXCEPT !.stage = stage] \in Owed
  BY <1>1 DEF Owed
<1>3. /\ [a EXCEPT !.stage = stage].conn = a.conn /\ [a EXCEPT !.stage = stage].to = a.to
      /\ [a EXCEPT !.stage = stage].stage = stage
  BY <1>1 DEF Owed
<1>4. QED BY <1>2, <1>3 DEF At, Inv, Typed

\* Written, or let go: its connection still busy, the peer has its answer, or
\* the write failed, or it hears the end.
LEMMA WriteKeeps ==
  ASSUME Inv, NEW a \in owed, Write(a) \/ LetGo(a) PROVE Inv'
<1>1. /\ a.stage = "owed" /\ At(a, "free") /\ UNCHANGED <<conns, busy, told, taken, rx>>
      /\ a \in Owed
  BY DEF Write, LetGo, Inv, Typed
<1>2. PICK b \in Owed : /\ owed' = (owed \ {a}) \cup {b}
                        /\ b.conn = a.conn /\ b.to = a.to /\ b.stage = "free"
  BY <1>1, AtTyped
<1>3. a.conn \in Conns /\ a.to \in Requests
  BY <1>1 DEF Owed
<1>4. /\ answered' \in [Conns -> SUBSET Requests] /\ shut' \in [Conns -> BOOLEAN]
      /\ unwritten' \in [Conns -> SUBSET Requests]
      /\ \A c \in Conns : /\ answered[c] \subseteq answered'[c] /\ (shut[c] => shut'[c])
                          /\ unwritten[c] \subseteq unwritten'[c]
      /\ a.to \in answered'[a.conn] \cup unwritten'[a.conn] \/ shut'[a.conn]
  <2>1. CASE Write(a)
    <3>1. /\ answered[a.conn] \cup {a.to} \in SUBSET Requests
          /\ unwritten[a.conn] \cup {a.to} \in SUBSET Requests
      BY <1>3 DEF Inv, Typed
    <3>2. UNCHANGED shut
      BY <2>1 DEF Write
    <3>3. CASE answered' = [answered EXCEPT ![a.conn] = @ \cup {a.to}] /\ UNCHANGED unwritten
      BY <1>3, <3>1, <3>2, <3>3 DEF Inv, Typed
    <3>4. CASE unwritten' = [unwritten EXCEPT ![a.conn] = @ \cup {a.to}] /\ UNCHANGED answered
      BY <1>3, <3>1, <3>2, <3>4 DEF Inv, Typed
    <3>5. QED BY <2>1, <3>3, <3>4 DEF Write
  <2>2. CASE LetGo(a)
    BY <1>3, <2>2 DEF LetGo, Shut, Inv, Typed
  <2>3. QED BY <2>1, <2>2
<1>5. Typed'
  BY <1>1, <1>2, <1>4 DEF Inv, Typed, conns
<1>6. OnePerConn'
  BY <1>1, <1>2 DEF Inv, OnePerConn
<1>7. FoundStays'
  BY <1>1, <1>4, AnswerFindsStay DEF Inv, Typed
<1>8. Covered'
  <2>1. \A c : Heard(c) => Heard(c)'
    BY <1>1, <1>2 DEF Heard
  <2>2. QED BY <1>1, <2>1 DEF Inv, Covered, conns
<1>9. LeftByAFailedWriteOnly'
  <2> SUFFICES ASSUME NEW c \in Conns, NEW k \in taken[c]
               PROVE  \/ k \in answered'[c] \cup unwritten'[c] \/ shut'[c]
                      \/ \E o \in owed' : o.conn = c /\ o.to = k /\ o.stage = "owed"
    BY <1>1 DEF LeftByAFailedWriteOnly
  <2>1. \/ k \in answered[c] \cup unwritten[c] \/ shut[c]
        \/ \E o \in owed : o.conn = c /\ o.to = k /\ o.stage = "owed"
    BY DEF Inv, LeftByAFailedWriteOnly
  <2>2. ASSUME NEW o \in owed, o.conn = c, o.to = k, o.stage = "owed", o # a
        PROVE  o \in owed'
    BY <1>2, <2>2
  <2>3. QED BY <1>1, <1>4, <2>1, <2>2 DEF conns
<1>10. QED BY <1>5, <1>6, <1>7, <1>8, <1>9 DEF Inv

\* Its connection is freed, and a word of it is on its way until it is there.
LEMMA FreeKeeps ==
  ASSUME Inv, NEW a \in owed, Free(a) PROVE Inv'
<1>1. UNCHANGED <<conns, shut, answered, unwritten, taken, rx>> /\ a \in Owed /\ a.conn \in Conns
  BY DEF Free, Inv, Typed, Owed
<1>3. CASE a.stage = "free"
  <2>1. busy' = [busy EXCEPT ![a.conn] = FALSE] /\ UNCHANGED told /\ At(a, "tell")
    BY <1>3 DEF Free, Frees
  <2>2. PICK b \in Owed : /\ owed' = (owed \ {a}) \cup {b}
                          /\ b.conn = a.conn /\ b.to = a.to /\ b.stage = "tell"
    BY <2>1, AtTyped
  <2>3. Typed'
    BY <1>1, <2>1, <2>2 DEF Inv, Typed, conns
  <2>4. \A o \in owed : o # a /\ o.stage # "tell" => o.conn # a.conn
    BY <1>3 DEF Inv, OnePerConn
  <2>5. OnePerConn'
    <3>1. \A o \in owed' : o.stage # "tell" => o \in owed /\ o # a
      BY <1>3, <2>2
    <3>2. \A o \in owed : o.conn \in Conns
      BY DEF Inv, Typed, Owed
    <3>3. QED BY <2>1, <2>4, <3>1, <3>2 DEF Inv, OnePerConn, Typed
  <2>6. FoundStays'
    BY <1>1, <2>1, AnswerFindsStay DEF Inv, Typed
  <2>7. Covered'
    <3>1. ASSUME NEW c \in Conns, Heard(c) PROVE Heard(c)'
      <4>1. CASE c = a.conn
        BY <2>2, <4>1 DEF Heard
      <4>2. CASE c # a.conn
        BY <1>1, <1>3, <2>1, <2>2, <3>1, <4>2 DEF Heard, Inv, Typed
      <4>3. QED BY <4>1, <4>2
    <3>2. \A i \in 1..Len(open) : open[i] \in Conns
      BY DEF Inv, Typed
    <3>3. QED BY <1>1, <3>1, <3>2 DEF Inv, Covered, conns
  <2>8. LeftByAFailedWriteOnly'
    BY <1>1, <1>3, <2>2 DEF Inv, LeftByAFailedWriteOnly, conns
  <2>9. QED BY <2>3, <2>5, <2>6, <2>7, <2>8 DEF Inv
<1>4. CASE a.stage = "tell"
  <2>1. told' = TRUE /\ UNCHANGED busy /\ owed' = owed \ {a}
    BY <1>4 DEF Free, Frees
  <2>2. Typed' /\ OnePerConn'
    BY <1>1, <2>1 DEF Inv, Typed, OnePerConn, conns
  <2>3. FoundStays'
    BY <1>1, <2>1, AnswerFindsStay
  <2>4. Covered'
    BY <2>1 DEF Covered, Heard
  <2>5. LeftByAFailedWriteOnly'
    BY <1>1, <1>4, <2>1 DEF Inv, LeftByAFailedWriteOnly, conns
  <2>6. QED BY <2>2, <2>3, <2>4, <2>5 DEF Inv
<1>5. QED BY <1>3, <1>4 DEF Free

-----------------------------------------------------------------------------

LEMMA NextKeeps == ASSUME Inv, [Next]_vars PROVE Inv'
<1>1. CASE Receive
  BY <1>1, StartKeeps, LookKeeps, ReadKeeps, PollKeeps, HearKeeps, AcceptKeeps,
     ExchangeKeeps, ReadOnKeeps, ClosedKeeps DEF Receive
<1>2. ASSUME NEW c \in Conns, Peers(c) PROVE Inv'
  BY <1>2, PeersKeep
<1>3. ASSUME NEW c \in Conns, Answer(c) PROVE Inv'
  BY <1>3, WriteKeeps, FreeKeeps DEF Answer
<1>4. CASE UNCHANGED vars
  <2>1. Typed' /\ OnePerConn' /\ LeftByAFailedWriteOnly'
    BY <1>4 DEF vars, Inv, Typed, OnePerConn, LeftByAFailedWriteOnly
  <2>2. FoundStays' /\ Covered'
    BY <1>4 DEF vars, Inv, FoundStays, GoesOn, MayTurn, Waiting, Readable, Covered, Heard
  <2>3. QED BY <2>1, <2>2 DEF Inv
<1>5. QED BY <1>1, <1>2, <1>3, <1>4 DEF Next

LEMMA InvHolds == Spec => []Inv
<1>1. Init => Inv
  BY InitInv
<1>2. Inv /\ [Next]_vars => Inv'
  BY NextKeeps
<1>3. QED BY <1>1, <1>2, PTL DEF Spec

\* A turn is made only on a connection that spoke or ended, and that owes no
\* answer, whatever happens between the wait and the turn (Serving::next).
THEOREM ReadyTurns == Spec => []TurnIsReady
<1>1. Inv => TurnIsReady
  BY DEF Inv, FoundStays, GoesOn, MayTurn, Waiting, TurnIsReady, Typed
<1>2. QED BY <1>1, InvHolds, PTL

\* Never are two answers of one connection out at once (answer.rs, Owed).
THEOREM OneAtATime == Spec => []OneAnswerOwed
<1>1. Inv => OneAnswerOwed
  BY DEF Inv, OnePerConn, OneAnswerOwed
<1>2. QED BY <1>1, InvHolds, PTL

\* A wait leaves no freed connection out unless word of it is there or comes
\* (Serving::wait, Freed::drop).
THEOREM WordIsKept == Spec => []NoWordLost
<1>1. Inv => NoWordLost
  <2> SUFFICES ASSUME Inv, rx.pc = "poll", NEW c \in Open PROVE Heard(c)
    BY DEF NoWordLost, Heard
  <2>1. open \in Seq(Conns)
    BY DEF Inv, Typed
  <2>2. PICK i \in 1..Len(open) : c = open[i]
    BY <2>1 DEF Open, ToSet
  <2>3. QED BY <2>2 DEF Inv, Covered
<1>2. QED BY <1>1, InvHolds, PTL

\* Whoever had an exchange taken is answered, will be, or is shut off, unless
\* the write of its answer failed (answer.rs).
THEOREM NobodyElseIsLeft == Spec => []LeftByAFailedWriteOnly
<1>1. Inv => LeftByAFailedWriteOnly
  BY DEF Inv
<1>2. QED BY <1>1, InvHolds, PTL

=============================================================================
