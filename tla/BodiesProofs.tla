---------------------------- MODULE BodiesProofs ----------------------------
(***************************************************************************)
(* What is proved of what is read and written whole, for every length,     *)
(* size of piece and of chunk, every way of reading and every bytes: a     *)
(* send's body is handed on whole, in the pieces that takes, once it was   *)
(* asked whose it is; an arrival's is read whole before it is accepted;    *)
(* and mail's block, its periods doubled and undone, is the body written.  *)
(***************************************************************************)
EXTENDS Outgoing, Arrival, Stuffed, Integers, TLAPS, SequenceTheorems, WellFoundedInduction

-----------------------------------------------------------------------------
(* A send's body.                                                          *)

\* How many pieces so many bytes take.
PiecesFor(bytes) == IF bytes = 0 THEN 1 ELSE (bytes + Piece - 1) \div Piece

LEMMA PieceIsOne == ASSUME size \in Nat PROVE Piece \in Nat \ {0}
BY DEF Piece

\* Whole pieces and a last one, not empty: so many and one.
LEMMA LastPieceCounts ==
  ASSUME NEW P \in Nat \ {0}, NEW whole \in Nat, NEW last \in 1..P
  PROVE  (whole * P + last + P - 1) \div P = whole + 1
<1>1. whole + 1 \in Nat /\ last - 1 \in 0..(P - 1)
  OBVIOUS
<1>2. ((whole + 1) * P + (last - 1)) \div P = whole + 1
  <2>1. ASSUME NEW q \in Nat, NEW r \in 0..(P - 1) PROVE (q * P + r) \div P = q
    OBVIOUS
  <2>2. QED BY <1>1, <2>1
<1>3. (whole + 1) * P + (last - 1) = whole * P + last + P - 1
  OBVIOUS
<1>4. QED BY <1>2, <1>3

\* Whole pieces alone.
LEMMA WholePiecesCount ==
  ASSUME NEW P \in Nat \ {0}, NEW whole \in Nat
  PROVE  (whole * P + P - 1) \div P = whole
<1>1. ASSUME NEW q \in Nat, NEW r \in 0..(P - 1) PROVE (q * P + r) \div P = q
  OBVIOUS
<1>2. P - 1 \in 0..(P - 1)
  OBVIOUS
<1>3. whole * P + (P - 1) = whole * P + P - 1
  OBVIOUS
<1>4. QED BY <1>1, <1>2, <1>3

SendTypes ==
  /\ way \in {"write", "gather", "held"} /\ body \in Nat /\ length \in Nat /\ size \in Nat
  /\ was \in Nat /\ filled \in Nat /\ handed \in Nat /\ pieces \in Nat
  /\ step \in {"fill", "going", "hand", "over"}

\* What was read is in the piece being filled or was handed on in whole pieces.
Pieced ==
  way = "write" /\ step # "over" =>
    /\ handed = pieces * Piece /\ filled <= Piece /\ was = handed + filled
    /\ step # "fill" => filled = Piece \/ (was = length /\ body = length)

\* What is gathered is handed on at once.
Gathered ==
  way = "gather" /\ step # "over" =>
    /\ handed = 0 /\ was = filled
    /\ step # "fill" => was = length /\ body = length

\* Held bytes go in whole pieces until the last.
Held ==
  way = "held" =>
    /\ body = length
    /\ step # "over" => /\ step # "fill" /\ handed = pieces * Piece
                        /\ handed = 0 \/ handed < length

SendInv ==
  /\ SendTypes
  /\ was <= length /\ was <= body
  /\ Pieced /\ Gathered /\ Held
  /\ step = "hand" \/ handed > 0 => wasAsked
  /\ step # "over" => result = "none"
  /\ SentWhole

LEMMA SendStarts == OutgoingInit => SendInv
<1> SUFFICES ASSUME OutgoingInit PROVE SendInv
  OBVIOUS
<1>1. SendTypes
  BY OutgoingAssumption DEF OutgoingInit, SendTypes
<1>2. Piece \in Nat \ {0} /\ 0 * Piece = 0
  BY <1>1, PieceIsOne DEF SendTypes
<1>3. QED BY <1>1, <1>2 DEF OutgoingInit, SendInv, Pieced, Gathered, Held, SentWhole

\* A send that was judged before anything more was handed on.
LEMMA JudgedKeeps ==
  ASSUME SendInv, step # "over", NEW what, what # "sent",
         what = "not its own" => handed = 0, handed > 0 => wasAsked',
         Judged(what), UNCHANGED <<way, body, length, size, was, filled, handed, pieces>>
  PROVE  SendInv'
BY DEF SendInv, SendTypes, Pieced, Gathered, Held, SentWhole, Judged

LEMMA ReadBodyKeeps == ASSUME SendInv, ReadBody PROVE SendInv'
<1>1. step = "fill" /\ UNCHANGED <<way, body, length, size, handed, pieces, wasAsked, still>>
  BY DEF ReadBody, ReadSome, EndedShort, RanOn, FilledPiece, ReadFailed, sendOf
<1>0. step # "over" /\ (handed > 0 => wasAsked')
  BY <1>1 DEF SendInv
<1>2. Piece' = Piece /\ Piece \in Nat \ {0}
  BY <1>1, PieceIsOne DEF Piece, SendInv, SendTypes
<1>3. CASE ReadSome
  <2>1. PICK n \in 1..Least(Room, Least(length, body) - was) : was' = was + n /\ filled' = filled + n
    BY <1>3 DEF ReadSome
  <2>2. /\ was \in Nat /\ filled \in Nat /\ length \in Nat /\ body \in Nat /\ MaxBytes \in Nat
        /\ was < length /\ was <= body /\ Room > 0
    BY <1>3, OutgoingAssumption DEF ReadSome, SendInv, SendTypes
  <2>3. Room \in Int
    BY <1>2, <2>2 DEF Room
  <2>4. n \in Nat /\ n <= Room /\ was + n <= length /\ was + n <= body
    BY <2>1, <2>2, <2>3 DEF Least
  <2>5. way = "write" => filled + n <= Piece
    BY <1>2, <2>2, <2>4 DEF Room
  <2>6. step' = "fill" /\ result' = result
    BY <1>1, <1>3 DEF ReadSome
  <2>7. SendTypes' /\ was' <= length' /\ was' <= body'
    BY <1>1, <2>1, <2>2, <2>4, <2>6 DEF SendInv, SendTypes
  <2>8. Pieced'
    BY <1>1, <1>2, <2>1, <2>2, <2>4, <2>5, <2>6 DEF SendInv, SendTypes, Pieced
  <2>9. Gathered' /\ Held'
    BY <1>1, <1>2, <2>1, <2>2, <2>6 DEF SendInv, Gathered, Held
  <2>10. SentWhole'
    BY <1>1, <1>2, <2>6 DEF SendInv, SentWhole
  <2>11. QED BY <1>1, <2>6, <2>7, <2>8, <2>9, <2>10 DEF SendInv
<1>4. CASE EndedShort
  <2>1. Judged("short") /\ UNCHANGED <<was, filled>>
    BY <1>4 DEF EndedShort
  <2>2. QED BY <1>0, <1>1, <2>1, JudgedKeeps
<1>5. CASE RanOn
  <2>1. Judged("runs on") /\ UNCHANGED <<was, filled>>
    BY <1>5 DEF RanOn
  <2>2. QED BY <1>0, <1>1, <2>1, JudgedKeeps
<1>6. CASE FilledPiece
  <2>1. /\ Room = 0 \/ (was = length /\ ~RunsOn)
        /\ UNCHANGED <<result, was, filled>>
    BY <1>6 DEF FilledPiece, StepTo
  <2>2. /\ was \in Nat /\ filled \in Nat /\ length \in Nat /\ body \in Nat /\ MaxBytes \in Nat
        /\ was <= length /\ was <= body
    BY OutgoingAssumption DEF SendInv, SendTypes
  <2>3. Room = 0 => way # "gather" /\ filled = Piece
    BY <1>2, <2>2 DEF Room
  <2>4. ~RunsOn /\ was = length => body = length
    BY <2>2 DEF RunsOn
  <2>5. step' = "going"
    BY <1>6 DEF FilledPiece, StepTo
  <2>6. SendTypes'
    BY <1>1, <2>1, <2>5 DEF SendInv, SendTypes
  <2>7. Pieced' /\ Gathered' /\ Held'
    BY <1>1, <1>2, <2>1, <2>3, <2>4, <2>5 DEF SendInv, Pieced, Gathered, Held
  <2>8. SentWhole'
    BY <1>1, <1>2, <2>1 DEF SendInv, SentWhole
  <2>9. QED BY <1>1, <2>1, <2>5, <2>6, <2>7, <2>8 DEF SendInv
<1>7. CASE ReadFailed
  <2>1. Judged("unread") /\ UNCHANGED <<was, filled>>
    BY <1>7 DEF ReadFailed
  <2>2. QED BY <1>0, <1>1, <2>1, JudgedKeeps
<1>8. QED BY <1>3, <1>4, <1>5, <1>6, <1>7 DEF ReadBody

LEMMA GoingKeeps == ASSUME SendInv, Going PROVE SendInv'
<1>1. step = "going" /\ wasAsked' = (wasAsked \/ handed = 0)
      /\ UNCHANGED <<way, body, length, size, was, filled, handed, pieces>>
  BY DEF Going, AsksNow, sendOf
<1>2. handed \in Nat
  BY DEF SendInv, SendTypes
<1>3. CASE handed = 0 /\ ~still
  <2>1. Judged("not its own")
    BY <1>3 DEF Going, AsksNow
  <2>2. QED BY <1>1, <1>3, <2>1, JudgedKeeps
<1>4. CASE ~(handed = 0 /\ ~still)
  <2>1. step' = "hand" /\ result' = result
    BY <1>4 DEF Going, AsksNow, StepTo
  <2>2. wasAsked'
    <3>1. handed = 0 \/ wasAsked
      BY <1>2 DEF SendInv
    <3>2. QED BY <1>1, <3>1, Zenon
  <2>3. Piece' = Piece
    BY <1>1 DEF Piece
  <2>4. SendTypes' /\ Pieced' /\ Gathered' /\ Held'
    BY <1>1, <2>1, <2>3 DEF SendInv, SendTypes, Pieced, Gathered, Held
  <2>5. result = "none" /\ SentWhole'
    BY <1>1, <2>1, <2>2 DEF SendInv, SentWhole
  <2>6. QED BY <1>1, <2>1, <2>2, <2>4, <2>5 DEF SendInv
<1>5. QED BY <1>3, <1>4

\* The piece handed on last makes the body whole, and the pieces those it takes.
LEMMA LastHandedOn ==
  ASSUME SendInv, step = "hand", IsLastPiece
  PROVE  /\ handed + GivenAtOnce = length /\ body = length
         /\ way # "gather" =>
              (IF GivenAtOnce > 0 \/ handed = 0 THEN pieces + 1 ELSE pieces) = PiecesFor(length)
<1> DEFINE P == Piece
<1>1. /\ P \in Nat \ {0} /\ handed \in Nat /\ filled \in Nat /\ pieces \in Nat /\ length \in Nat
      /\ way \in {"write", "gather", "held"}
  BY PieceIsOne DEF SendInv, SendTypes
<1>2. CASE way = "gather"
  BY <1>1, <1>2 DEF SendInv, Gathered, GivenAtOnce
<1>3. CASE way # "gather"
  <2>1. handed = pieces * P /\ body = length /\ handed + GivenAtOnce = length /\ GivenAtOnce \in 0..P
    <3>1. CASE way = "write"
      <4>1. GivenAtOnce = filled /\ filled < P
        BY <3>1 DEF GivenAtOnce, IsLastPiece
      <4>2. handed = pieces * P /\ was = handed + filled /\ was = length /\ body = length
        BY <1>1, <3>1, <4>1 DEF SendInv, Pieced
      <4>3. QED BY <1>1, <4>1, <4>2
    <3>2. CASE way = "held"
      <4>1. GivenAtOnce = Least(P, length - handed) /\ handed + GivenAtOnce = length
        BY <3>2 DEF GivenAtOnce, IsLastPiece
      <4>2. handed = pieces * P /\ body = length /\ handed <= length
        BY <1>1, <3>2 DEF SendInv, Held
      <4>3. GivenAtOnce \in 0..P
        BY <1>1, <4>1, <4>2 DEF Least
      <4>4. QED BY <4>1, <4>2, <4>3
    <3>3. QED BY <1>1, <1>3, <3>1, <3>2
  <2>2. length = pieces * P + GivenAtOnce /\ GivenAtOnce \in Nat
    BY <1>1, <2>1
  <2> HIDE DEF P
  <2>3. CASE GivenAtOnce > 0
    <3>1. GivenAtOnce \in 1..P /\ length # 0
      BY <1>1, <2>1, <2>2, <2>3
    <3>2. (length + P - 1) \div P = pieces + 1
      BY <1>1, <2>2, <3>1, LastPieceCounts
    <3>3. QED BY <2>1, <2>3, <3>1, <3>2 DEF PiecesFor, P
  <2>4. CASE GivenAtOnce = 0 /\ handed = 0
    <3>1. pieces = 0
      BY <1>1, <2>1, <2>4
    <3>2. QED BY <2>1, <2>4, <3>1 DEF PiecesFor
  <2>5. CASE GivenAtOnce = 0 /\ handed # 0
    <3>1. length = pieces * P /\ length # 0
      BY <1>1, <2>1, <2>5
    <3>2. (length + P - 1) \div P = pieces
      BY <1>1, <3>1, WholePiecesCount
    <3>3. QED BY <2>1, <2>5, <3>1, <3>2 DEF PiecesFor, P
  <2>6. QED BY <2>2, <2>3, <2>4, <2>5
<1>4. QED BY <1>2, <1>3

LEMMA HandOnKeeps == ASSUME SendInv, HandOn PROVE SendInv'
<1>1. /\ step = "hand" /\ handed' = handed + GivenAtOnce /\ filled' = 0 /\ wasAsked' = wasAsked
      /\ pieces' = IF GivenAtOnce > 0 \/ handed = 0 THEN pieces + 1 ELSE pieces
      /\ UNCHANGED <<way, body, length, size, was>>
  BY DEF HandOn, sendOf
<1>2. Piece' = Piece /\ Piece \in Nat \ {0} /\ wasAsked /\ result = "none"
  BY <1>1, PieceIsOne DEF Piece, SendInv, SendTypes
<1>3. /\ handed \in Nat /\ filled \in Nat /\ pieces \in Nat /\ length \in Nat
      /\ way \in {"write", "gather", "held"}
  BY DEF SendInv, SendTypes
<1>4. GivenAtOnce \in Nat
  <2>1. way = "held" => handed <= length
    BY <1>1, <1>3 DEF SendInv, Held
  <2>2. QED BY <1>2, <1>3, <2>1 DEF GivenAtOnce, Least
<1>5. handed' \in Nat /\ pieces' \in Nat /\ filled' \in Nat
  BY <1>1, <1>3, <1>4
<1>6. CASE IsLastPiece
  <2>1. step' = "over" /\ result' = "sent"
    BY <1>6 DEF HandOn, Judged
  <2>2. /\ handed' = length /\ body = length
        /\ way # "gather" => pieces' = PiecesFor(length)
    BY <1>1, <1>6, LastHandedOn
  <2>3. SentWhole'
    BY <1>1, <1>2, <2>1, <2>2 DEF SentWhole, PiecesFor
  <2>4. SendTypes' /\ Pieced' /\ Gathered' /\ Held'
    BY <1>1, <1>5, <2>1 DEF SendInv, SendTypes, Pieced, Gathered, Held
  <2>5. QED BY <1>1, <1>2, <2>1, <2>3, <2>4 DEF SendInv
<1>7. CASE ~IsLastPiece
  <2>1. way # "gather" /\ step' = IF way = "held" THEN "hand" ELSE "fill"
    BY <1>7 DEF HandOn, IsLastPiece, StepTo
  <2>2. result' = "none"
    BY <1>2, <1>7 DEF HandOn, StepTo
  <2>3. GivenAtOnce = Piece /\ (way = "held" => handed' < length)
    <3>1. CASE way = "write"
      <4>1. GivenAtOnce = filled /\ ~(filled < Piece) /\ filled <= Piece
        BY <1>1, <1>7, <3>1 DEF GivenAtOnce, IsLastPiece, SendInv, Pieced
      <4>2. QED BY <1>2, <1>3, <3>1, <4>1
    <3>2. CASE way = "held"
      <4>1. GivenAtOnce = Least(Piece, length - handed) /\ handed + GivenAtOnce # length /\ handed <= length
        BY <1>1, <1>3, <1>7, <3>2 DEF GivenAtOnce, IsLastPiece, SendInv, Held
      <4>2. QED BY <1>1, <1>2, <1>3, <3>2, <4>1 DEF Least
    <3>3. QED BY <1>3, <2>1, <3>1, <3>2
  <2>4. handed = pieces * Piece
    BY <1>1, <1>3, <2>1 DEF SendInv, Pieced, Held
  <2>5. pieces' = pieces + 1 /\ handed' = pieces' * Piece
    BY <1>1, <1>2, <1>3, <2>3, <2>4
  <2>6. Pieced'
    <3>1. way = "write" => was = handed'
      BY <1>1, <2>3 DEF GivenAtOnce, SendInv, Pieced
    <3>2. QED BY <1>1, <1>2, <1>3, <2>1, <2>5, <3>1, <1>5 DEF Pieced
  <2>7. Gathered' /\ Held'
    BY <1>1, <1>2, <2>1, <2>3, <2>5 DEF SendInv, Gathered, Held
  <2>8. SendTypes' /\ SentWhole'
    BY <1>1, <1>2, <1>5, <2>1, <2>2 DEF SendInv, SendTypes, SentWhole
  <2>9. QED BY <1>1, <1>2, <2>1, <2>2, <2>6, <2>7, <2>8 DEF SendInv
<1>8. QED BY <1>6, <1>7

LEMMA SinkRefusedKeeps == ASSUME SendInv, SinkRefused PROVE SendInv'
<1>1. /\ step = "hand" /\ step' = "over" /\ result' = "refused"
      /\ UNCHANGED <<way, body, length, size, was, filled, pieces, wasAsked>>
      /\ handed' \in handed..(handed + GivenAtOnce)
  BY DEF SinkRefused, Judged, sendOf
<1>2. wasAsked
  BY <1>1 DEF SendInv
<1>3. handed' \in Nat
  BY <1>1 DEF SendInv, SendTypes
<1>4. SendTypes' /\ Pieced' /\ Gathered' /\ Held'
  BY <1>1, <1>3 DEF SendInv, SendTypes, Pieced, Gathered, Held
<1>5. QED BY <1>1, <1>2, <1>4 DEF SendInv, SentWhole

\* A send that succeeds handed on exactly the body, of exactly its length, in no
\* more pieces than that takes; and nothing goes before it was asked whether it
\* is the sender's, or where it is not (outgoing.rs).
THEOREM SendsTheWhole == OutgoingSpec => []SentWhole
<1>1. SendInv /\ [OutgoingNext]_outgoingVars => SendInv'
  <2> SUFFICES ASSUME SendInv, [OutgoingNext]_outgoingVars PROVE SendInv'
    OBVIOUS
  <2>1. CASE ClaimLost \/ UNCHANGED outgoingVars
    <3>1. UNCHANGED <<way, body, length, size, was, filled, handed, pieces, wasAsked, step, result>>
      BY <2>1 DEF ClaimLost, outgoingVars, sendOf
    <3>2. Piece' = Piece
      BY <3>1 DEF Piece
    <3>3. QED BY <3>1, <3>2 DEF SendInv, SendTypes, Pieced, Gathered, Held, SentWhole
  <2>2. QED BY <2>1, ReadBodyKeeps, GoingKeeps, HandOnKeeps, SinkRefusedKeeps DEF OutgoingNext
<1>2. SendInv => SentWhole
  BY DEF SendInv
<1>3. QED BY SendStarts, <1>1, <1>2, PTL DEF OutgoingSpec

-----------------------------------------------------------------------------
(* An arrival's body.                                                      *)

\* What was given is read or at hand; the end is said after the last chunk, and
\* accepted where it was said with nothing at hand, which nothing changes again.
ArrivalInv ==
  /\ chunks \in Seq(Nat)
  /\ next \in Nat \ {0} /\ unread \in Nat /\ gave \in Nat /\ got \in Nat
  /\ gave = got + unread
  /\ noMore => next > Len(chunks)
  /\ verdict = "accepted" => cycle \in {"tell", "over"} /\ noMore /\ unread = 0
  /\ told = "accepted" => verdict = "accepted" /\ cycle = "over"

LEMMA ArrivalStarts == ArrivalInit => ArrivalInv
<1> SUFFICES ASSUME ArrivalInit PROVE ArrivalInv
  OBVIOUS
<1>1. PICK n \in 0..MaxChunks : chunks \in [1..n -> 0..MaxChunk]
  BY DEF ArrivalInit
<1>2. chunks \in Seq(Nat)
  BY <1>1, ArrivalAssumption
<1>3. QED BY <1>2 DEF ArrivalInit, ArrivalInv

LEMMA NextChunkKeeps == ASSUME ArrivalInv, NextChunk PROVE ArrivalInv'
<1>1. CASE next <= Len(chunks)
  <2>1. chunks[next] \in Nat
    BY <1>1 DEF ArrivalInv
  <2>2. QED BY <1>1, <2>1 DEF ArrivalInv, NextChunk, arrivedOf
<1>2. CASE ~(next <= Len(chunks))
  <2>1. next > Len(chunks)
    BY <1>2 DEF ArrivalInv
  <2>2. QED BY <1>2, <2>1 DEF ArrivalInv, NextChunk, arrivedOf
<1>3. QED BY <1>1, <1>2

LEMMA ArrivalKeeps == ArrivalInv /\ [ArrivalNext]_arrivalVars => ArrivalInv'
<1> SUFFICES ASSUME ArrivalInv, [ArrivalNext]_arrivalVars PROVE ArrivalInv'
  OBVIOUS
<1>1. CASE TakeWhole \/ TellUnread
  BY <1>1 DEF ArrivalInv, TakeWhole, TellUnread, CycleGoes, arrivedOf, bodyOf
<1>2. CASE OpenBody \/ ReadChunk
  BY <1>2 DEF ArrivalInv, OpenBody, ReadChunk, arrivedOf
<1>3. CASE ReadToEnd
  BY <1>3 DEF ArrivalInv, ReadToEnd, Ends, CycleGoes, arrivedOf, bodyOf
<1>4. CASE BodyFails
  BY <1>4 DEF ArrivalInv, BodyFails, CycleGoes, arrivedOf
<1>5. CASE Acknowledge
  BY <1>5 DEF ArrivalInv, Acknowledge, CycleGoes, arrivedOf, bodyOf
<1>6. CASE UNCHANGED arrivalVars
  BY <1>6 DEF ArrivalInv, arrivalVars
<1>7. QED BY <1>1, <1>2, <1>3, <1>4, <1>5, <1>6, NextChunkKeeps DEF ArrivalNext

\* The far end hears that its arrival was accepted only where every chunk of it
\* was read, the empty ones passed: a body that broke anywhere is failed, and
\* stays where it was (arrived.rs, body.rs).
THEOREM AcceptsTheWhole == ArrivalSpec => []AcceptedWasReadWhole
<1>1. ArrivalInv => AcceptedWasReadWhole
  BY DEF ArrivalInv, AcceptedWasReadWhole
<1>2. QED BY ArrivalStarts, ArrivalKeeps, <1>1, PTL DEF ArrivalSpec

-----------------------------------------------------------------------------
(* Mail's block.                                                           *)

\* A set of numbers that has 0 and each one's successor has them all.
LEMMA EveryNumber ==
  ASSUME NEW S, 0 \in S, \A n \in Nat : n \in S => n + 1 \in S PROVE Nat \subseteq S
<1> SUFFICES ASSUME NEW m \in Nat, m \notin S PROVE FALSE
  OBVIOUS
<1>1. Nat \ S # {} /\ Nat \ S \subseteq Nat
  OBVIOUS
<1> DEFINE R == OpToRel(<, Nat)
<1>0. \A x, y \in Nat : x < y => <<x, y>> \in R
  BY DEF OpToRel
<1>00. IsWellFoundedOn(R, Nat)
  BY NatLessThanWellFounded
<1> HIDE DEF R
<1>2. PICK k \in Nat \ S : \A l \in Nat \ S : ~(<<l, k>> \in R)
  BY <1>1, <1>00, WFMin
<1>3. k \in Nat /\ k # 0
  OBVIOUS
<1>4. k - 1 \in Nat /\ k = (k - 1) + 1
  BY <1>3
<1>5. k - 1 \notin S
  BY <1>4
<1>6. <<k - 1, k>> \in R
  BY <1>0, <1>4
<1>7. QED BY <1>2, <1>4, <1>5, <1>6

\* f is what the first parts of s come to, end to end.
Joined(f, s, n) == \A i \in 1..n : f[i] = IF i = 1 THEN s[i] ELSE f[i - 1] \o s[i]

LEMMA JoinedIs ==
  ASSUME NEW s, NEW n \in Nat PROVE \E f : Joined(f, s, n) /\ f = [i \in 1..n |-> f[i]]
<1> DEFINE S == {m \in Nat : \E f : Joined(f, s, m) /\ f = [i \in 1..m |-> f[i]]}
<1>1. 0 \in S
  <2> DEFINE g == [i \in 1..0 |-> 0]
  <2>1. Joined(g, s, 0) /\ g = [i \in 1..0 |-> g[i]]
    BY DEF Joined
  <2> HIDE DEF g
  <2>2. QED BY <2>1
<1>2. ASSUME NEW m \in Nat, m \in S PROVE m + 1 \in S
  <2>1. PICK f : Joined(f, s, m)
    BY <1>2
  <2> DEFINE last == IF m = 0 THEN s[1] ELSE f[m] \o s[m + 1]
             g == [i \in 1..(m + 1) |-> IF i <= m THEN f[i] ELSE last]
  <2> HIDE DEF last
  <2>2. /\ \A i \in 1..m : g[i] = f[i]
        /\ g[m + 1] = last /\ g = [i \in 1..(m + 1) |-> g[i]]
    BY <1>2
  <2> HIDE DEF g
  <2> USE DEF last
  <2>3. ASSUME NEW i \in 1..(m + 1) PROVE g[i] = IF i = 1 THEN s[i] ELSE g[i - 1] \o s[i]
    <3>1. CASE i = 1 /\ m = 0
      BY <2>2, <3>1
    <3>2. CASE i = 1 /\ m # 0
      <4>1. i \in 1..m
        BY <3>2, <1>2
      <4>2. QED BY <2>1, <2>2, <3>2, <4>1 DEF Joined
    <3>3. CASE i # 1 /\ i <= m
      <4>1. i \in 1..m /\ i - 1 \in 1..m
        BY <3>3, <1>2
      <4>2. QED BY <2>1, <2>2, <3>3, <4>1 DEF Joined
    <3>4. CASE i # 1 /\ i = m + 1
      <4>1. i - 1 = m /\ m \in 1..m /\ m # 0
        BY <3>4, <1>2
      <4>2. QED BY <2>2, <3>4, <4>1
    <3>5. QED BY <3>1, <3>2, <3>3, <3>4, <1>2
  <2>4. Joined(g, s, m + 1)
    BY <2>3 DEF Joined
  <2>5. QED BY <2>2, <2>4
<1>3. Nat \subseteq S
  <2> HIDE DEF S
  <2>1. QED BY <1>1, <1>2, EveryNumber
<1>4. QED BY <1>3

\* What FlattenSeq comes to, of parts in Seq(S).
LEMMA FlatIs ==
  ASSUME NEW s, Len(s) \in Nat
  PROVE  \E f : /\ Joined(f, s, Len(s))
                /\ FlattenSeq(s) = IF Len(s) = 0 THEN s ELSE f[Len(s)]
<1> DEFINE Is(f) == f = [i \in 1..Len(s) |-> IF i = 1 THEN s[i] ELSE f[i - 1] \o s[i]]
           chosen == CHOOSE f : Is(f)
<1>1. FlattenSeq(s) = IF Len(s) = 0 THEN s ELSE chosen[Len(s)]
  BY Zenon DEF FlattenSeq
<1>2. \E f : Is(f)
  <2>1. PICK f : Joined(f, s, Len(s)) /\ f = [i \in 1..Len(s) |-> f[i]]
    BY JoinedIs
  <2> DEFINE g == [i \in 1..Len(s) |-> IF i = 1 THEN s[i] ELSE f[i - 1] \o s[i]]
  <2>2. \A i \in 1..Len(s) : g[i] = f[i]
    BY <2>1 DEF Joined
  <2>3. g = [i \in 1..Len(s) |-> g[i]]
    OBVIOUS
  <2> HIDE DEF g
  <2>4. f = g
    BY <2>1, <2>2, <2>3
  <2>5. QED BY <2>4 DEF g
<1>3. Is(chosen)
  <2> HIDE DEF Is
  <2>1. QED BY <1>2
<1> HIDE DEF chosen
<1>4. Joined(chosen, s, Len(s))
  <2> DEFINE g == [i \in 1..Len(s) |-> IF i = 1 THEN s[i] ELSE chosen[i - 1] \o s[i]]
  <2>1. \A i \in 1..Len(s) : g[i] = IF i = 1 THEN s[i] ELSE chosen[i - 1] \o s[i]
    OBVIOUS
  <2>2. chosen = g
    BY <1>3
  <2> HIDE DEF g, Is
  <2>3. QED BY <2>1, <2>2 DEF Joined
<1>5. QED BY <1>1, <1>4

\* A period that starts a line, and what goes on the wire of the i-th byte.
Dotted(b, i) == b[i] = Dot /\ StartsLine(b, i)
Part(b, i) == IF Dotted(b, i) THEN <<Dot, Dot>> ELSE <<b[i]>>

\* g is what goes on the wire of b's first n bytes: the k-th is at L[k], behind the
\* period put before it, and there is nothing else.
Marks(L, g, b, n) ==
  /\ L \in [0..n -> Nat] /\ L[0] = 0 /\ g \in Seq(Bytes) /\ Len(g) = L[n]
  /\ \A k \in 1..n :
       /\ L[k] = L[k - 1] + (IF Dotted(b, k) THEN 2 ELSE 1) /\ L[k] <= L[n]
       /\ g[L[k]] = b[k] /\ (Dotted(b, k) => g[L[k] - 1] = Dot)
  /\ \A p \in 1..L[n] : \E k \in 1..n : p = L[k] \/ (Dotted(b, k) /\ p = L[k] - 1)

LEMMA PartIs ==
  ASSUME NEW b \in Seq(Bytes), NEW i \in 1..Len(b)
  PROVE  /\ Part(b, i) \in Seq(Bytes) /\ Len(Part(b, i)) = IF Dotted(b, i) THEN 2 ELSE 1
         /\ Part(b, i)[Len(Part(b, i))] = b[i] /\ (Dotted(b, i) => Part(b, i)[1] = Dot)
<1>1. b[i] \in Bytes /\ Dot \in Bytes
  BY StuffedAssumption
<1>2. CASE Dotted(b, i)
  <2>1. Part(b, i) = <<Dot, Dot>> /\ b[i] = Dot
    BY <1>2 DEF Part, Dotted
  <2>2. QED BY <1>1, <1>2, <2>1
<1>3. CASE ~Dotted(b, i)
  <2>1. Part(b, i) = <<b[i]>>
    BY <1>3 DEF Part
  <2>2. QED BY <1>1, <1>3, <2>1
<1>4. QED BY <1>2, <1>3

\* Two sequences end to end.
LEMMA EndToEnd ==
  ASSUME NEW S, NEW s \in Seq(S), NEW t \in Seq(S)
  PROVE  /\ s \o t \in Seq(S) /\ Len(s \o t) = Len(s) + Len(t)
         /\ Len(s) \in Nat /\ Len(t) \in Nat
         /\ \A i \in 1..Len(s) : (s \o t)[i] = s[i]
         /\ \A i \in 1..Len(t) : (s \o t)[Len(s) + i] = t[i]
  OBVIOUS

LEMMA OneMoreMarked ==
  ASSUME NEW b \in Seq(Bytes), NEW n \in Nat, n + 1 <= Len(b), NEW L, NEW g, Marks(L, g, b, n)
  PROVE  \E M : Marks(M, g \o Part(b, n + 1), b, n + 1)
<1>1. n + 1 \in 1..Len(b)
  OBVIOUS
<1>2. PICK part : part = Part(b, n + 1)
  OBVIOUS
<1>3. /\ part \in Seq(Bytes) /\ Len(part) = IF Dotted(b, n + 1) THEN 2 ELSE 1
      /\ part[Len(part)] = b[n + 1] /\ (Dotted(b, n + 1) => part[1] = Dot)
  BY <1>1, <1>2, PartIs
<1>4. PICK h : h = g \o part
  OBVIOUS
<1>5. /\ L \in [0..n -> Nat] /\ L[0] = 0 /\ g \in Seq(Bytes) /\ Len(g) = L[n]
      /\ \A k \in 1..n :
           /\ L[k] = L[k - 1] + (IF Dotted(b, k) THEN 2 ELSE 1) /\ L[k] <= L[n]
           /\ g[L[k]] = b[k] /\ (Dotted(b, k) => g[L[k] - 1] = Dot)
      /\ \A p \in 1..L[n] : \E k \in 1..n : p = L[k] \/ (Dotted(b, k) /\ p = L[k] - 1)
  BY DEF Marks
<1>6. /\ h \in Seq(Bytes) /\ Len(h) = L[n] + Len(part) /\ Len(part) \in Nat
      /\ \A i \in 1..L[n] : h[i] = g[i]
      /\ \A i \in 1..Len(part) : h[L[n] + i] = part[i]
  <2>1. g \in Seq(Bytes) /\ part \in Seq(Bytes)
    BY <1>3, <1>5
  <2>2. /\ g \o part \in Seq(Bytes) /\ Len(g \o part) = Len(g) + Len(part) /\ Len(part) \in Nat
        /\ \A i \in 1..Len(g) : (g \o part)[i] = g[i]
        /\ \A i \in 1..Len(part) : (g \o part)[Len(g) + i] = part[i]
    BY <2>1, EndToEnd
  <2>3. Len(g) = L[n]
    BY <1>5
  <2>4. QED BY Zenon, <1>4, <2>2, <2>3
<1> DEFINE grown == IF Dotted(b, n + 1) THEN 2 ELSE 1
           M == [k \in 0..(n + 1) |-> IF k <= n THEN L[k] ELSE L[n] + grown]
<1>7. /\ M \in [0..(n + 1) -> Nat] /\ M[0] = 0 /\ M[n + 1] = L[n] + grown
      /\ \A k \in 0..n : M[k] = L[k] /\ L[k] \in Nat
      /\ grown \in {1, 2} /\ L[n] \in Nat /\ Len(part) = grown
  BY <1>3, <1>5
<1> HIDE DEF M
<1>8. ASSUME NEW k \in 1..(n + 1)
      PROVE  /\ M[k] = M[k - 1] + (IF Dotted(b, k) THEN 2 ELSE 1) /\ M[k] <= M[n + 1]
             /\ h[M[k]] = b[k] /\ (Dotted(b, k) => h[M[k] - 1] = Dot)
  <2>1. CASE k \in 1..n
    <3>1. k \in 0..n /\ k - 1 \in 0..n
      BY <2>1
    <3>2. /\ M[k] = L[k] /\ M[k - 1] = L[k - 1] /\ L[k] \in Nat /\ L[k - 1] \in Nat
          /\ L[k] = L[k - 1] + (IF Dotted(b, k) THEN 2 ELSE 1) /\ L[k] <= L[n]
          /\ g[L[k]] = b[k] /\ (Dotted(b, k) => g[L[k] - 1] = Dot)
      BY <1>5, <1>7, <2>1, <3>1
    <3>3. L[k] \in 1..L[n] /\ (Dotted(b, k) => L[k] - 1 \in 1..L[n])
      BY <1>7, <3>2
    <3>4. QED BY <1>6, <1>7, <3>2, <3>3
  <2>2. CASE k = n + 1
    <3>1. M[k] = L[n] + grown /\ M[k - 1] = L[n]
      BY <1>7, <2>2
    <3>2. h[L[n] + grown] = b[k]
      BY <1>3, <1>6, <1>7, <2>2
    <3>3. Dotted(b, k) => h[L[n] + 1] = Dot
      BY <1>3, <1>6, <1>7, <2>2
    <3>4. M[k] <= M[n + 1]
      BY <1>7, <2>2, <3>1
    <3>5. Dotted(b, k) => M[k] - 1 = L[n] + 1
      BY <1>7, <2>2, <3>1
    <3>6. M[k] = M[k - 1] + (IF Dotted(b, k) THEN 2 ELSE 1)
      BY <2>2, <3>1
    <3>7. QED BY <3>1, <3>2, <3>3, <3>4, <3>5, <3>6
  <2>3. QED BY <2>1, <2>2
<1>9. ASSUME NEW p \in 1..M[n + 1]
      PROVE  \E k \in 1..(n + 1) : p = M[k] \/ (Dotted(b, k) /\ p = M[k] - 1)
  <2>1. CASE p \in 1..L[n]
    <3>1. PICK k \in 1..n : p = L[k] \/ (Dotted(b, k) /\ p = L[k] - 1)
      BY <1>5, <2>1
    <3>2. k \in 0..n /\ k \in 1..(n + 1)
      BY <3>1
    <3>3. QED BY <1>7, <3>1, <3>2
  <2>2. CASE p \notin 1..L[n]
    <3>1. p = M[n + 1] \/ (Dotted(b, n + 1) /\ p = M[n + 1] - 1)
      BY <1>7, <2>2
    <3>2. n + 1 \in 1..(n + 1)
      OBVIOUS
    <3>3. QED BY <3>1, <3>2
  <2>3. QED BY <2>1, <2>2
<1>10. Len(h) = M[n + 1]
  BY <1>6, <1>7
<1>11. Marks(M, h, b, n + 1)
  BY <1>6, <1>7, <1>8, <1>9, <1>10 DEF Marks
<1>12. QED BY <1>2, <1>4, <1>11

\* The marks' basics.
LEMMA MarksBasics ==
  ASSUME NEW b \in Seq(Bytes), NEW n \in Nat, NEW L, NEW g, Marks(L, g, b, n)
  PROVE  /\ \A k \in 0..n : L[k] \in Nat
         /\ \A k \in 1..n :
              /\ k \in 0..n /\ k - 1 \in 0..n /\ L[k] \in 1..L[n]
              /\ L[k] = L[k - 1] + (IF Dotted(b, k) THEN 2 ELSE 1)
              /\ g[L[k]] = b[k] /\ (Dotted(b, k) => g[L[k] - 1] = Dot)
<1>1. \A k \in 0..n : L[k] \in Nat
  BY DEF Marks
<1>2. ASSUME NEW k \in 1..n
      PROVE  /\ k \in 0..n /\ k - 1 \in 0..n /\ L[k] \in 1..L[n]
             /\ L[k] = L[k - 1] + (IF Dotted(b, k) THEN 2 ELSE 1)
             /\ g[L[k]] = b[k] /\ (Dotted(b, k) => g[L[k] - 1] = Dot)
  <2>1. k \in 0..n /\ k - 1 \in 0..n
    OBVIOUS
  <2>2. /\ L[k] = L[k - 1] + (IF Dotted(b, k) THEN 2 ELSE 1) /\ L[k] <= L[n]
        /\ g[L[k]] = b[k] /\ (Dotted(b, k) => g[L[k] - 1] = Dot)
    BY DEF Marks
  <2>3. L[k] \in 1..L[n]
    BY <1>1, <2>1, <2>2
  <2>4. QED BY <2>1, <2>2, <2>3
<1>3. QED BY <1>1, <1>2

LEMMA NoneMarked == ASSUME NEW b PROVE Marks([k \in 0..0 |-> 0], <<>>, b, 0)
<1> DEFINE L == [k \in 0..0 |-> 0]
<1>1. L \in [0..0 -> Nat] /\ L[0] = 0
  OBVIOUS
<1>2. <<>> \in Seq(Bytes) /\ Len(<<>>) = 0
  OBVIOUS
<1> HIDE DEF L
<1>3. 1..0 = {} /\ 1..L[0] = {}
  BY <1>1
<1>4. Marks(L, <<>>, b, 0)
  BY <1>1, <1>2, <1>3 DEF Marks
<1>5. QED BY <1>4 DEF L

\* FlattenSeq, part by part.
LEMMA FlatBegins ==
  ASSUME NEW S, NEW s \in Seq(Seq(S))
  PROVE  \E f : /\ f[0] = <<>> /\ FlattenSeq(s) = f[Len(s)]
                /\ \A i \in 1..Len(s) : f[i] = f[i - 1] \o s[i]
<1>1. Len(s) \in Nat /\ \A i \in 1..Len(s) : s[i] \in Seq(S)
  BY LenProperties, ElementOfSeq
<1>2. PICK e : Joined(e, s, Len(s)) /\ FlattenSeq(s) = IF Len(s) = 0 THEN s ELSE e[Len(s)]
  BY <1>1, FlatIs
<1> DEFINE f == [i \in 0..Len(s) |-> IF i = 0 THEN <<>> ELSE e[i]]
<1>3. f[0] = <<>> /\ \A i \in 1..Len(s) : f[i] = e[i]
  BY <1>1
<1> HIDE DEF f
<1>4. ASSUME NEW i \in 1..Len(s) PROVE f[i] = f[i - 1] \o s[i]
  <2>1. f[i] = IF i = 1 THEN s[i] ELSE e[i - 1] \o s[i]
    BY Zenon, <1>2, <1>3 DEF Joined
  <2>2. CASE i = 1
    <3>1. f[i - 1] = <<>>
      BY <1>3, <2>2
    <3>2. <<>> \o s[i] = s[i]
      BY <1>1
    <3>3. QED BY Zenon, <2>1, <2>2, <3>1, <3>2
  <2>3. CASE i # 1
    <3>1. i - 1 \in 1..Len(s)
      BY <1>1, <2>3
    <3>2. QED BY Zenon, <1>3, <2>1, <2>3, <3>1
  <2>4. QED BY <2>2, <2>3
<1>5. FlattenSeq(s) = f[Len(s)]
  <2>1. CASE Len(s) = 0
    <3>1. s = <<>>
      BY <2>1, EmptySeq
    <3>2. QED BY Zenon, <1>2, <1>3, <2>1, <3>1
  <2>2. CASE Len(s) # 0
    <3>1. Len(s) \in 1..Len(s)
      BY <1>1, <2>2
    <3>2. QED BY Zenon, <1>2, <1>3, <2>2, <3>1
  <2>3. QED BY <2>1, <2>2
<1>6. QED BY <1>3, <1>4, <1>5

\* So many parts are a sequence of them.
LEMMA PartsAre ==
  ASSUME NEW n \in Nat, NEW s, s = [i \in 1..n |-> s[i]], \A i \in 1..n : s[i] \in Seq(Bytes)
  PROVE  s \in Seq(Seq(Bytes)) /\ Len(s) = n
<1>1. s \in [1..n -> Seq(Bytes)]
  OBVIOUS
<1>2. s \in Seq(Seq(Bytes)) /\ DOMAIN s = 1..n
  BY <1>1, SeqDef
<1>3. Len(s) \in Nat /\ DOMAIN s = 1..Len(s)
  BY <1>2, LenProperties
<1>4. QED BY <1>2, <1>3

\* What a body is on the wire.
LEMMA StuffIs ==
  ASSUME NEW b \in Seq(Bytes)
  PROVE  \E L, g : Marks(L, g, b, Len(b)) /\ Stuff(b) = g \o Terminator
<1> DEFINE s == [i \in 1..Len(b) |-> Part(b, i)]
<1>1. Len(b) \in Nat /\ DOMAIN b = 1..Len(b)
  BY LenProperties
<1>2. Stuff(b) = FlattenSeq(s) \o Terminator
  BY <1>1, Zenon DEF Stuff, Part, Dotted
<1>3. (\A i \in 1..Len(b) : s[i] = Part(b, i)) /\ s = [i \in 1..Len(b) |-> s[i]]
  OBVIOUS
<1> HIDE DEF s
<1>4. s \in Seq(Seq(Bytes)) /\ Len(s) = Len(b)
  <2>1. \A i \in 1..Len(b) : s[i] \in Seq(Bytes)
    BY <1>3, PartIs
  <2>2. QED BY <1>1, <1>3, <2>1, PartsAre
<1>5. PICK f : /\ f[0] = <<>> /\ FlattenSeq(s) = f[Len(s)]
               /\ \A i \in 1..Len(s) : f[i] = f[i - 1] \o s[i]
  BY <1>4, FlatBegins
<1> DEFINE Good(n) == n <= Len(b) => \E L : Marks(L, f[n], b, n)
           S == {n \in Nat : Good(n)}
<1>6. Good(0)
  <2>1. Marks([k \in 0..0 |-> 0], f[0], b, 0)
    BY Zenon, <1>5, NoneMarked
  <2>2. QED BY <2>1
<1>7. ASSUME NEW n \in Nat, Good(n) PROVE Good(n + 1)
  <2> SUFFICES ASSUME n + 1 <= Len(b) PROVE \E L : Marks(L, f[n + 1], b, n + 1)
    OBVIOUS
  <2>1. n + 1 \in 1..Len(b) /\ n <= Len(b) /\ (n + 1) - 1 = n
    BY <1>1
  <2>2. f[n + 1] = f[n] \o Part(b, n + 1)
    <3>1. f[n + 1] = f[(n + 1) - 1] \o s[n + 1] /\ s[n + 1] = Part(b, n + 1)
      BY Zenon, <1>3, <1>4, <1>5, <2>1
    <3>2. QED BY Zenon, <2>1, <3>1
  <2>3. PICK L : Marks(L, f[n], b, n)
    BY <1>7, <2>1
  <2>4. PICK M : Marks(M, f[n] \o Part(b, n + 1), b, n + 1)
    BY <2>1, <2>3, OneMoreMarked
  <2>5. Marks(M, f[n + 1], b, n + 1)
    BY Zenon, <2>2, <2>4
  <2>6. QED BY <2>5
<1>8. Nat \subseteq S
  <2> HIDE DEF Good
  <2>1. 0 \in S /\ \A n \in Nat : n \in S => n + 1 \in S
    BY <1>6, <1>7
  <2> HIDE DEF S
  <2>2. QED BY <2>1, EveryNumber
<1>9. Good(Len(b))
  <2> HIDE DEF Good
  <2>1. QED BY <1>1, <1>8
<1>10. PICK L : Marks(L, f[Len(b)], b, Len(b))
  BY <1>1, <1>9
<1>11. Stuff(b) = f[Len(b)] \o Terminator
  BY Zenon, <1>2, <1>4, <1>5
<1>12. QED BY Zenon, <1>10, <1>11

\* A part of the wire starts a line where its byte of the body does.
LEMMA LineStarts ==
  ASSUME NEW b \in Seq(Bytes), NEW L, NEW g, Marks(L, g, b, Len(b)),
         NEW k \in 1..Len(b), NEW h, \A p \in 1..L[Len(b)] : h[p] = g[p]
  PROVE  StartsLine(h, L[k - 1] + 1) <=> StartsLine(b, k)
<1>0. PICK n : n = Len(b)
  OBVIOUS
<1>1. n \in Nat /\ L[0] = 0 /\ k \in 1..n /\ \A p \in 1..L[n] : h[p] = g[p]
  BY <1>0, LenProperties DEF Marks
<1>2. /\ \A i \in 0..n : L[i] \in Nat
      /\ \A i \in 1..n :
           /\ i \in 0..n /\ i - 1 \in 0..n /\ L[i] \in 1..L[n]
           /\ L[i] = L[i - 1] + (IF Dotted(b, i) THEN 2 ELSE 1)
           /\ g[L[i]] = b[i] /\ (Dotted(b, i) => g[L[i] - 1] = Dot)
  BY <1>0, <1>1, MarksBasics
<1>3. CASE k = 1
  BY <1>1, <1>3 DEF StartsLine
<1>4. CASE k # 1
  <2> DEFINE p == L[k - 1] + 1
  <2>1. /\ k - 1 \in 1..n /\ (k - 1) - 1 = k - 2 /\ k - 2 \in 0..n
        /\ L[k - 1] \in 1..L[n] /\ L[k - 2] \in Nat
    BY <1>1, <1>2, <1>4
  <2>2. /\ L[k - 1] = L[k - 2] + (IF Dotted(b, k - 1) THEN 2 ELSE 1)
        /\ h[L[k - 1]] = b[k - 1] /\ (Dotted(b, k - 1) => h[L[k - 1] - 1] = Dot)
    <3>1. /\ L[k - 1] = L[k - 2] + (IF Dotted(b, k - 1) THEN 2 ELSE 1)
          /\ g[L[k - 1]] = b[k - 1] /\ (Dotted(b, k - 1) => g[L[k - 1] - 1] = Dot)
      BY <1>2, <2>1
    <3>2. ASSUME Dotted(b, k - 1) PROVE L[k - 1] - 1 \in 1..L[n]
      <4>1. L[k - 1] = L[k - 2] + 2 /\ L[n] \in Nat
        BY <1>1, <1>2, <3>1, <3>2
      <4>2. QED BY <2>1, <4>1
    <3>3. QED BY <1>1, <2>1, <3>1, <3>2
  <2>3. p # 1 /\ p - 1 = L[k - 1] /\ p - 2 = L[k - 1] - 1 /\ p \in Nat
    BY <1>2, <2>1
  <2>4. CASE Dotted(b, k - 1)
    <3>1. b[k - 1] = Dot /\ h[p - 1] = Dot
      BY <2>2, <2>3, <2>4 DEF Dotted
    <3>2. QED BY <1>4, <2>3, <3>1, StuffedAssumption DEF StartsLine
  <2>5. CASE ~Dotted(b, k - 1)
    <3>1. L[k - 1] = L[k - 2] + 1
      BY <2>2, <2>5
    <3>2. CASE k = 2
      <4>1. L[k - 2] = 0
        BY <1>1, <3>2
      <4>2. ~(p > 2) /\ ~(k > 2)
        BY <3>1, <3>2, <4>1
      <4>3. QED BY <1>4, <2>3, <4>2 DEF StartsLine
    <3>3. CASE k # 2
      <4>1. k - 2 \in 1..n /\ k > 2
        BY <1>1, <1>4, <2>1, <3>3
      <4>2. L[k - 2] \in 1..L[n] /\ g[L[k - 2]] = b[k - 2]
        BY <1>2, <4>1
      <4>3. h[p - 2] = b[k - 2] /\ p > 2
        BY <1>1, <2>3, <3>1, <4>2
      <4>4. h[p - 1] = b[k - 1]
        BY <2>2, <2>3
      <4>5. QED BY Zenon, <1>4, <2>3, <4>1, <4>3, <4>4 DEF StartsLine
    <3>4. QED BY <3>2, <3>3
  <2>6. QED BY <2>4, <2>5
<1>5. QED BY <1>3, <1>4

LEMMA ReverseIs ==
  ASSUME NEW t \in Seq(Bytes)
  PROVE  /\ Reverse(t) \in Seq(Bytes) /\ Len(Reverse(t)) = Len(t) /\ Len(t) \in Nat
         /\ \A i \in 1..Len(t) : Reverse(t)[i] = t[(Len(t) - i) + 1]
<1>1. Len(t) \in Nat /\ \A i \in 1..Len(t) : t[i] \in Bytes
  BY LenProperties, ElementOfSeq
<1>2. \A i \in 1..Len(t) : (Len(t) - i) + 1 \in 1..Len(t)
  BY <1>1
<1> DEFINE r == [i \in 1..Len(t) |-> t[(Len(t) - i) + 1]]
<1>3. r \in [1..Len(t) -> Bytes] /\ \A i \in 1..Len(t) : r[i] = t[(Len(t) - i) + 1]
  BY <1>1, <1>2
<1>4. Reverse(t) = r
  BY DEF Reverse
<1> HIDE DEF r
<1>5. r \in Seq(Bytes) /\ DOMAIN r = 1..Len(t)
  BY <1>1, <1>3, SeqDef
<1>6. Len(r) = Len(t)
  <2>1. Len(r) \in Nat /\ DOMAIN r = 1..Len(r)
    BY <1>5, LenProperties
  <2>2. QED BY <1>1, <1>5, <2>1
<1>7. QED BY <1>1, <1>3, <1>4, <1>5, <1>6

LEMMA TerminatorIs ==
  /\ Terminator \in Seq(Bytes) /\ Len(Terminator) = 5
  /\ Terminator[1] = CR /\ Terminator[2] = LF /\ Terminator[3] = Dot
  /\ Terminator[4] = CR /\ Terminator[5] = LF
BY StuffedAssumption DEF Terminator

\* What it is to end with the terminator.
EndsSo(t) ==
  /\ Len(t) >= 5
  /\ t[Len(t) - 4] = CR /\ t[Len(t) - 3] = LF /\ t[Len(t) - 2] = Dot
  /\ t[Len(t) - 1] = CR /\ t[Len(t)] = LF

LEMMA SuffixIs == ASSUME NEW t \in Seq(Bytes) PROVE IsSuffix(Terminator, t) <=> EndsSo(t)
<1>1. PICK q : q = Reverse(Terminator)
  OBVIOUS
<1>2. PICK r : r = Reverse(t)
  OBVIOUS
<1>3. /\ q \in Seq(Bytes) /\ Len(q) = 5
      /\ q[1] = LF /\ q[2] = CR /\ q[3] = Dot /\ q[4] = LF /\ q[5] = CR
  <2>1. /\ Reverse(Terminator) \in Seq(Bytes) /\ Len(Reverse(Terminator)) = 5
        /\ \A i \in 1..5 : Reverse(Terminator)[i] = Terminator[(5 - i) + 1]
    BY TerminatorIs, ReverseIs
  <2>2. /\ q \in Seq(Bytes) /\ Len(q) = 5
        /\ \A i \in 1..5 : q[i] = Terminator[(5 - i) + 1]
    BY Zenon, <1>1, <2>1
  <2>3. q[1] = Terminator[5] /\ q[2] = Terminator[4] /\ q[3] = Terminator[3]
        /\ q[4] = Terminator[2] /\ q[5] = Terminator[1]
    BY <2>2
  <2>4. QED BY <2>2, <2>3, TerminatorIs
<1>4. /\ r \in Seq(Bytes) /\ Len(r) = Len(t) /\ Len(t) \in Nat
      /\ \A i \in 1..Len(t) : r[i] = t[(Len(t) - i) + 1]
  BY Zenon, <1>2, ReverseIs
<1>5. IsSuffix(Terminator, t) <=> Len(q) <= Len(r) /\ SubSeq(q, 1, Len(q)) = SubSeq(r, 1, Len(q))
  BY Zenon, <1>1, <1>2 DEF IsSuffix, IsPrefix
<1>6. CASE Len(t) < 5
  BY <1>3, <1>4, <1>5, <1>6 DEF EndsSo
<1>7. CASE Len(t) >= 5
  <2>1. PICK u : u = SubSeq(q, 1, 5)
    OBVIOUS
  <2>2. PICK v : v = SubSeq(r, 1, 5)
    OBVIOUS
  <2>3. u \in Seq(Bytes) /\ Len(u) = 5 /\ \A i \in 1..5 : u[i] = q[i]
    BY <1>3, <2>1
  <2>4. v \in Seq(Bytes) /\ Len(v) = 5 /\ \A i \in 1..5 : v[i] = r[i]
    BY <1>4, <1>7, <2>2
  <2>5. u = v <=> \A i \in 1..5 : u[i] = v[i]
    BY <2>3, <2>4, SeqEqual
  <2>6. (\A i \in 1..5 : u[i] = v[i])
          <=> r[1] = LF /\ r[2] = CR /\ r[3] = Dot /\ r[4] = LF /\ r[5] = CR
    BY <1>3, <2>3, <2>4
  <2>7. /\ r[1] = t[Len(t)] /\ r[2] = t[Len(t) - 1] /\ r[3] = t[Len(t) - 2]
        /\ r[4] = t[Len(t) - 3] /\ r[5] = t[Len(t) - 4]
    <3>1. 1 \in 1..Len(t) /\ 2 \in 1..Len(t) /\ 3 \in 1..Len(t) /\ 4 \in 1..Len(t) /\ 5 \in 1..Len(t)
      BY <1>4, <1>7
    <3>2. /\ r[1] = t[(Len(t) - 1) + 1] /\ r[2] = t[(Len(t) - 2) + 1] /\ r[3] = t[(Len(t) - 3) + 1]
          /\ r[4] = t[(Len(t) - 4) + 1] /\ r[5] = t[(Len(t) - 5) + 1]
      BY Zenon, <1>4, <3>1
    <3>3. /\ (Len(t) - 1) + 1 = Len(t) /\ (Len(t) - 2) + 1 = Len(t) - 1
          /\ (Len(t) - 3) + 1 = Len(t) - 2 /\ (Len(t) - 4) + 1 = Len(t) - 3
          /\ (Len(t) - 5) + 1 = Len(t) - 4
      BY <1>4
    <3>4. QED BY Zenon, <3>2, <3>3
  <2>8. Len(q) = 5 /\ Len(q) <= Len(r)
    BY <1>3, <1>4, <1>7
  <2>9. IsSuffix(Terminator, t) <=> u = v
    BY Zenon, <1>5, <2>1, <2>2, <2>8
  <2>10. QED BY <1>7, <2>5, <2>6, <2>7, <2>9 DEF EndsSo
<1>8. QED BY <1>4, <1>6, <1>7

\* w is g and the terminator behind it.
Ended(w, g) ==
  /\ w \in Seq(Bytes) /\ Len(w) = Len(g) + 5 /\ \A i \in 1..Len(g) : w[i] = g[i]
  /\ w[Len(g) + 1] = CR /\ w[Len(g) + 2] = LF /\ w[Len(g) + 3] = Dot
  /\ w[Len(g) + 4] = CR /\ w[Len(g) + 5] = LF

LEMMA EndedIs == ASSUME NEW g \in Seq(Bytes) PROVE Ended(g \o Terminator, g)
<1>1. PICK w : w = g \o Terminator
  OBVIOUS
<1>2. /\ w \in Seq(Bytes) /\ Len(w) = Len(g) + Len(Terminator)
      /\ \A i \in 1..Len(g) : w[i] = g[i]
      /\ \A i \in 1..Len(Terminator) : w[Len(g) + i] = Terminator[i]
  <2>1. PICK e : e = Terminator
    OBVIOUS
  <2>2. e \in Seq(Bytes)
    BY <2>1, TerminatorIs
  <2>3. /\ g \o e \in Seq(Bytes) /\ Len(g \o e) = Len(g) + Len(e)
        /\ \A i \in 1..Len(g) : (g \o e)[i] = g[i]
        /\ \A i \in 1..Len(e) : (g \o e)[Len(g) + i] = e[i]
    BY <2>2, EndToEnd
  <2>4. w = g \o e
    BY Zenon, <1>1, <2>1
  <2>5. QED BY Zenon, <2>1, <2>3, <2>4
<1>3. 1 \in 1..5 /\ 2 \in 1..5 /\ 3 \in 1..5 /\ 4 \in 1..5 /\ 5 \in 1..5
  OBVIOUS
<1>4. Ended(w, g)
  BY Zenon, <1>2, <1>3, TerminatorIs DEF Ended
<1>5. QED BY Zenon, <1>1, <1>4

\* The first bytes of w, and not all.
Begins(t, w) == t \in Seq(Bytes) /\ Len(t) < Len(w) /\ \A i \in 1..Len(t) : t[i] = w[i]

\* No more than the beginning of a body on the wire ends a block.
LEMMA NoEndBefore ==
  ASSUME NEW b \in Seq(Bytes), NEW L, NEW g, Marks(L, g, b, Len(b)),
         NEW w, Ended(w, g), NEW t, Begins(t, w)
  PROVE  ~IsBlockEnd(t)
<1>0. PICK n : n = Len(b)
  OBVIOUS
<1>1. n \in Nat /\ L[0] = 0 /\ g \in Seq(Bytes) /\ Len(g) = L[n] /\ L[n] \in Nat
  BY <1>0, LenProperties, MarksBasics DEF Marks
<1>2. /\ \A i \in 0..n : L[i] \in Nat
      /\ \A i \in 1..n :
           /\ i \in 0..n /\ i - 1 \in 0..n /\ L[i] \in 1..L[n]
           /\ L[i] = L[i - 1] + (IF Dotted(b, i) THEN 2 ELSE 1)
           /\ g[L[i]] = b[i] /\ (Dotted(b, i) => g[L[i] - 1] = Dot)
  BY <1>0, <1>1, MarksBasics
<1>3. /\ Len(w) = L[n] + 5 /\ \A i \in 1..L[n] : w[i] = g[i]
      /\ w[L[n] + 1] = CR /\ w[L[n] + 2] = LF
  BY Zenon, <1>1 DEF Ended
<1>4. /\ t \in Seq(Bytes) /\ Len(t) \in Nat /\ Len(t) < Len(w)
      /\ \A i \in 1..Len(t) : t[i] = w[i]
  BY LenProperties DEF Begins
<1>5. t # OnlyPeriod
  <2> SUFFICES ASSUME t = OnlyPeriod PROVE FALSE
    OBVIOUS
  <2>1. Len(t) = 3 /\ t[1] = Dot /\ t[2] = CR
    BY DEF OnlyPeriod
  <2>2. w[1] = Dot /\ w[2] = CR
    BY <1>4, <2>1
  <2>3. CASE n = 0
    <3>1. w[1] = CR
      BY <1>1, <1>3, <2>3
    <3>2. QED BY <2>2, <3>1, StuffedAssumption
  <2>4. CASE n # 0
    <3>1. 1 \in 1..n /\ 1 - 1 = 0
      BY <1>1, <2>4
    <3>2. /\ L[1] \in 1..L[n] /\ L[1] = 0 + (IF Dotted(b, 1) THEN 2 ELSE 1)
          /\ g[L[1]] = b[1] /\ (Dotted(b, 1) => g[L[1] - 1] = Dot)
      BY <1>1, <1>2, <3>1
    <3>3. CASE Dotted(b, 1)
      <4>1. L[1] = 2 /\ g[2] = Dot /\ w[2] = g[2]
        BY <1>3, <3>2, <3>3 DEF Dotted
      <4>2. QED BY <2>2, <4>1, StuffedAssumption
    <3>4. CASE ~Dotted(b, 1)
      <4>1. L[1] = 1 /\ g[1] = b[1] /\ w[1] = g[1]
        BY <1>3, <3>2, <3>4
      <4>2. b[1] # Dot
        BY <3>4 DEF Dotted, StartsLine
      <4>3. QED BY <2>2, <4>1, <4>2
    <3>5. QED BY <3>3, <3>4
  <2>5. QED BY <2>3, <2>4
<1>6. ~EndsSo(t)
  <2> SUFFICES ASSUME EndsSo(t) PROVE FALSE
    OBVIOUS
  <2>0. PICK p : p = Len(t) - 2
    OBVIOUS
  <2>1. /\ p \in Nat /\ p > 2 /\ p <= L[n] + 2 /\ p + 1 <= Len(t)
        /\ t[p] = Dot /\ t[p - 1] = LF /\ t[p - 2] = CR /\ t[p + 1] = CR
    <3>1. Len(t) >= 5
      BY DEF EndsSo
    <3>2. Len(t) - 4 = p - 2 /\ Len(t) - 3 = p - 1 /\ Len(t) - 1 = p + 1
      BY <1>4, <2>0
    <3>3. t[p] = Dot /\ t[p - 1] = LF /\ t[p - 2] = CR /\ t[p + 1] = CR
      BY Zenon, <2>0, <3>2 DEF EndsSo
    <3>4. p \in Nat /\ p > 2 /\ p <= L[n] + 2 /\ p + 1 <= Len(t)
      BY <1>1, <1>3, <1>4, <2>0, <3>1
    <3>5. QED BY <3>3, <3>4
  <2>2. w[p] = Dot /\ w[p - 1] = LF /\ w[p - 2] = CR /\ w[p + 1] = CR
    <3>1. p \in 1..Len(t) /\ p - 1 \in 1..Len(t) /\ p - 2 \in 1..Len(t) /\ p + 1 \in 1..Len(t)
      BY <1>4, <2>1
    <3>2. QED BY Zenon, <1>4, <2>1, <3>1
  <2>3. CASE p > L[n]
    <3>1. p = L[n] + 1 \/ p = L[n] + 2
      BY <1>1, <2>1, <2>3
    <3>2. w[p] = CR \/ w[p] = LF
      BY <1>3, <3>1
    <3>3. QED BY <2>2, <3>2, StuffedAssumption
  <2>4. CASE p <= L[n]
    <3>1. p \in 1..L[n]
      BY <1>1, <2>1, <2>4
    <3>2. PICK k \in 1..n : p = L[k] \/ (Dotted(b, k) /\ p = L[k] - 1)
      BY <1>0, <3>1 DEF Marks
    <3>3. /\ L[k] \in 1..L[n] /\ L[k] = L[k - 1] + (IF Dotted(b, k) THEN 2 ELSE 1)
          /\ L[k - 1] \in Nat /\ w[L[k]] = b[k]
      BY <1>2, <1>3
    <3>4. CASE Dotted(b, k) /\ p = L[k] - 1
      <4>1. p + 1 = L[k] /\ b[k] = Dot
        BY <1>1, <3>3, <3>4 DEF Dotted
      <4>2. QED BY <2>2, <3>3, <4>1, StuffedAssumption
    <3>5. CASE Dotted(b, k) /\ p = L[k]
      <4>1. w[p - 1] = Dot
        <5>1. p - 1 \in 1..L[n] /\ g[p - 1] = Dot
          <6>1. L[k] = L[k - 1] + 2 /\ g[L[k] - 1] = Dot
            BY <1>2, <3>5
          <6>2. p - 1 \in 1..L[n]
            BY <1>1, <3>1, <3>3, <3>5, <6>1
          <6>3. QED BY <3>5, <6>1, <6>2
        <5>2. QED BY <1>3, <5>1
      <4>2. QED BY <2>2, <4>1, StuffedAssumption
    <3>6. CASE ~Dotted(b, k) /\ p = L[k]
      <4>1. p = L[k - 1] + 1 /\ b[k] = Dot
        BY <2>2, <3>3, <3>6
      <4>2. StartsLine(w, p)
        BY <2>1, <2>2 DEF StartsLine
      <4>3. StartsLine(b, k)
        BY <1>0, <1>3, <4>1, <4>2, LineStarts
      <4>4. QED BY <3>6, <4>1, <4>3 DEF Dotted
    <3>7. QED BY <3>2, <3>4, <3>5, <3>6
  <2>5. QED BY <1>1, <2>1, <2>3, <2>4
<1>7. QED BY <1>4, <1>5, <1>6, SuffixIs DEF IsBlockEnd

\* The doubled periods undone, it is the body it was.
LEMMA UnstuffedBack ==
  ASSUME NEW b \in Seq(Bytes), NEW L, NEW g, Marks(L, g, b, Len(b)) PROVE Unstuff(g) = b
<1> DEFINE Undone(i) == i < Len(g) /\ g[i] = Dot /\ g[i + 1] = Dot /\ StartsLine(g, i)
           s == [i \in 1..Len(g) |-> IF Undone(i) THEN <<>> ELSE <<g[i]>>]
<1>0. PICK n : n = Len(b)
  OBVIOUS
<1>1. n \in Nat /\ L[0] = 0 /\ g \in Seq(Bytes) /\ Len(g) = L[n] /\ L[n] \in Nat
  BY <1>0, LenProperties, MarksBasics DEF Marks
<1>2. /\ \A i \in 0..n : L[i] \in Nat
      /\ \A i \in 1..n :
           /\ i \in 0..n /\ i - 1 \in 0..n /\ L[i] \in 1..L[n]
           /\ L[i] = L[i - 1] + (IF Dotted(b, i) THEN 2 ELSE 1)
           /\ g[L[i]] = b[i] /\ (Dotted(b, i) => g[L[i] - 1] = Dot)
  BY <1>0, <1>1, MarksBasics
<1>3. Unstuff(g) = FlattenSeq(s)
  <2>1. DOMAIN g = 1..Len(g)
    BY <1>1, LenProperties
  <2>2. QED BY <2>1, Zenon DEF Unstuff
<1>4. /\ \A i \in 1..Len(g) : s[i] = IF Undone(i) THEN <<>> ELSE <<g[i]>>
      /\ s = [i \in 1..Len(g) |-> s[i]]
  OBVIOUS
<1>5. \A i \in 1..Len(g) : g[i] \in Bytes
  BY <1>1, ElementOfSeq
<1> HIDE DEF s
<1>6. s \in Seq(Seq(Bytes)) /\ Len(s) = L[n]
  <2>1. ASSUME NEW i \in 1..Len(g) PROVE s[i] \in Seq(Bytes)
    <3>1. CASE Undone(i)
      <4>1. s[i] = <<>>
        BY Zenon, <1>4, <3>1
      <4>2. QED BY <4>1
    <3>2. CASE ~Undone(i)
      <4>1. s[i] = <<g[i]>>
        BY Zenon, <1>4, <3>2
      <4>2. QED BY <1>5, <4>1
    <3>3. QED BY <3>1, <3>2
  <2>2. Len(g) \in Nat
    BY <1>1
  <2>3. s \in Seq(Seq(Bytes)) /\ Len(s) = Len(g)
    BY <1>4, <2>1, <2>2, PartsAre
  <2>4. QED BY <1>1, <2>3
<1>7. PICK f : /\ f[0] = <<>> /\ FlattenSeq(s) = f[Len(s)]
               /\ \A i \in 1..Len(s) : f[i] = f[i - 1] \o s[i]
  BY <1>6, FlatBegins
<1> DEFINE Back(r, k) == r \in Seq(Bytes) /\ Len(r) = k /\ \A j \in 1..k : r[j] = b[j]
           Good(k) == k <= n => Back(f[L[k]], k)
           S == {k \in Nat : Good(k)}
<1>8. Good(0)
  <2>1. f[L[0]] = <<>>
    BY Zenon, <1>1, <1>7
  <2>2. Back(<<>>, 0)
    OBVIOUS
  <2>3. QED BY Zenon, <2>1, <2>2
<1>9. ASSUME NEW k \in Nat, Good(k) PROVE Good(k + 1)
  <2> SUFFICES ASSUME k + 1 <= n PROVE Back(f[L[k + 1]], k + 1)
    OBVIOUS
  <2>1. k + 1 \in 1..n /\ k <= n /\ (k + 1) - 1 = k /\ k \in 0..n
    BY <1>1
  <2>2. /\ L[k + 1] \in 1..L[n] /\ L[k] \in Nat
        /\ L[k + 1] = L[k] + (IF Dotted(b, k + 1) THEN 2 ELSE 1)
        /\ g[L[k + 1]] = b[k + 1] /\ (Dotted(b, k + 1) => g[L[k + 1] - 1] = Dot)
    BY <1>2, <2>1
  <2>3. StartsLine(g, L[k] + 1) <=> StartsLine(b, k + 1)
    BY <1>0, <2>1, LineStarts
  <2>4. b[k + 1] \in Bytes
    BY <1>0, <2>1, ElementOfSeq
  <2>5. PICK r : r = f[L[k]]
    OBVIOUS
  <2>6. Back(r, k)
    BY <1>9, <2>1, <2>5
  <2>7. Back(r \o <<b[k + 1]>>, k + 1)
    <3>1. PICK x : x = b[k + 1]
      OBVIOUS
    <3>2. /\ r \o <<x>> \in Seq(Bytes) /\ Len(r \o <<x>>) = k + 1
          /\ (r \o <<x>>)[k + 1] = x /\ \A j \in 1..k : (r \o <<x>>)[j] = r[j]
      BY <2>4, <2>6, <3>1
    <3>3. PICK q : q = r \o <<x>>
      OBVIOUS
    <3>4. q \in Seq(Bytes) /\ Len(q) = k + 1 /\ q[k + 1] = x /\ \A j \in 1..k : q[j] = r[j]
      BY Zenon, <3>2, <3>3
    <3>5. Back(q, k + 1)
      BY <2>6, <3>1, <3>4
    <3>6. QED BY Zenon, <3>1, <3>3, <3>5
  <2> HIDE DEF Back
  <2>8. CASE Dotted(b, k + 1)
    <3> DEFINE p == L[k] + 1
    <3>1. /\ L[k + 1] = p + 1 /\ p \in 1..L[n] /\ p + 1 \in 1..L[n] /\ p - 1 = L[k]
          /\ (p + 1) - 1 = p /\ p < Len(g) /\ p + 1 # 1 /\ p \in Nat
      <4>1. L[k + 1] = L[k] + 2 /\ L[k + 1] \in 1..L[n] /\ L[k] \in Nat
        BY <2>2, <2>8
      <4>2. PICK l : l = L[k]
        OBVIOUS
      <4>3. PICK m : m = L[k + 1]
        OBVIOUS
      <4>4. m = l + 2 /\ m \in 1..L[n] /\ l \in Nat
        BY Zenon, <4>1, <4>2, <4>3
      <4>5. /\ m = (l + 1) + 1 /\ l + 1 \in 1..L[n] /\ (l + 1) + 1 \in 1..L[n] /\ (l + 1) - 1 = l
            /\ ((l + 1) + 1) - 1 = l + 1 /\ l + 1 < Len(g) /\ (l + 1) + 1 # 1 /\ l + 1 \in Nat
        BY <1>1, <4>4
      <4>6. QED BY Zenon, <4>2, <4>3, <4>5
    <3>2. g[p] = Dot /\ g[p + 1] = Dot /\ StartsLine(g, p)
      BY <2>2, <2>3, <2>8, <3>1 DEF Dotted
    <3>3. s[p] = <<>>
      BY Zenon, <1>1, <1>4, <3>1, <3>2
    <3>4. ~StartsLine(g, p + 1)
      <4>1. g[(p + 1) - 1] # LF
        BY Zenon, <3>1, <3>2, StuffedAssumption
      <4>2. QED BY Zenon, <3>1, <4>1 DEF StartsLine
    <3>5. s[p + 1] = <<b[k + 1]>>
      BY Zenon, <1>1, <1>4, <2>2, <3>1, <3>4
    <3>6. f[p] = r \o <<>> /\ f[p + 1] = f[p] \o <<b[k + 1]>>
      BY Zenon, <1>6, <1>7, <2>5, <3>1, <3>3, <3>5
    <3>7. r \o <<>> = r
      BY <2>6 DEF Back
    <3>8. f[L[k + 1]] = r \o <<b[k + 1]>>
      BY Zenon, <3>1, <3>6, <3>7
    <3>9. QED BY Zenon, <2>7, <3>8
  <2>9. CASE ~Dotted(b, k + 1)
    <3> DEFINE p == L[k] + 1
    <3>1. L[k + 1] = p /\ p \in 1..L[n] /\ p - 1 = L[k]
      BY <1>1, <2>2, <2>9
    <3>2. ~(g[p] = Dot /\ StartsLine(g, p))
      BY Zenon, <2>2, <2>3, <2>9, <3>1 DEF Dotted
    <3>3. s[p] = <<b[k + 1]>>
      BY Zenon, <1>1, <1>4, <2>2, <3>1, <3>2
    <3>4. f[L[k + 1]] = r \o <<b[k + 1]>>
      BY Zenon, <1>6, <1>7, <2>5, <3>1, <3>3
    <3>5. QED BY Zenon, <2>7, <3>4
  <2>10. QED BY <2>8, <2>9
<1>10. Nat \subseteq S
  <2> HIDE DEF Good
  <2>1. 0 \in S /\ \A k \in Nat : k \in S => k + 1 \in S
    BY <1>8, <1>9
  <2> HIDE DEF S
  <2>2. QED BY <2>1, EveryNumber
<1>11. Back(f[L[n]], n)
  <2>1. Good(n)
    <3> HIDE DEF Good
    <3>1. QED BY <1>1, <1>10
  <2> HIDE DEF Back
  <2>2. QED BY <1>1, <2>1
<1>12. PICK r : r = f[L[n]]
  OBVIOUS
<1>13. r = b
  <2>1. r \in Seq(Bytes) /\ Len(r) = Len(b) /\ \A j \in 1..Len(b) : r[j] = b[j]
    BY <1>0, <1>11, <1>12
  <2>2. QED BY <2>1, SeqEqual
<1>14. QED BY Zenon, <1>3, <1>6, <1>7, <1>12, <1>13

\* What a body is on the wire, as its reader meets it.
LEMMA OnTheWire ==
  ASSUME NEW b \in Seq(Bytes)
  PROVE  /\ Stuff(b) \in Seq(Bytes) /\ Len(Stuff(b)) \in Nat /\ Len(Stuff(b)) >= 5
         /\ Stuff(b)[Len(Stuff(b))] = LF
         /\ IsBlockEnd(Stuff(b)) /\ BodyOf(Stuff(b)) = b
         /\ \A t : Begins(t, Stuff(b)) => ~IsBlockEnd(t)
<1>1. PICK L, g : Marks(L, g, b, Len(b)) /\ Stuff(b) = g \o Terminator
  BY StuffIs
<1>2. PICK w : w = Stuff(b)
  OBVIOUS
<1>3. g \in Seq(Bytes)
  BY <1>1 DEF Marks
<1>4. Ended(w, g)
  BY Zenon, <1>1, <1>2, <1>3, EndedIs
<1>5. /\ w \in Seq(Bytes) /\ Len(w) = Len(g) + 5 /\ Len(g) \in Nat
      /\ w[Len(w)] = LF
  BY <1>3, <1>4 DEF Ended
<1>6. IsSuffix(Terminator, w)
  <2>1. /\ Len(w) - 4 = Len(g) + 1 /\ Len(w) - 3 = Len(g) + 2 /\ Len(w) - 2 = Len(g) + 3
        /\ Len(w) - 1 = Len(g) + 4 /\ Len(w) >= 5
    BY <1>5
  <2>2. EndsSo(w)
    BY Zenon, <1>4, <1>5, <2>1 DEF EndsSo, Ended
  <2>3. QED BY <1>5, <2>2, SuffixIs
<1>7. w # OnlyPeriod
  BY <1>5 DEF OnlyPeriod
<1>8. SubSeq(w, 1, Len(w) - Len(Terminator)) = g
  <2>1. Len(w) - Len(Terminator) = Len(g)
    BY <1>5, TerminatorIs
  <2>2. PICK v : v = SubSeq(w, 1, Len(g))
    OBVIOUS
  <2>3. v \in Seq(Bytes) /\ Len(v) = Len(g) /\ \A i \in 1..Len(g) : v[i] = w[i]
    BY <1>5, <2>2
  <2>4. \A i \in 1..Len(g) : v[i] = g[i]
    BY <1>4, <2>3 DEF Ended
  <2>5. v = g
    BY <1>3, <2>3, <2>4, SeqEqual
  <2>6. QED BY Zenon, <2>1, <2>2, <2>5
<1>9. IsBlockEnd(w) /\ BodyOf(w) = b
  <2>1. Unstuff(g) = b
    BY <1>1, UnstuffedBack
  <2>2. QED BY Zenon, <1>6, <1>7, <1>8, <2>1 DEF IsBlockEnd, BodyOf
<1>10. \A t : Begins(t, w) => ~IsBlockEnd(t)
  BY <1>1, <1>4, NoEndBefore
<1>11. Len(w) \in Nat /\ Len(w) >= 5
  BY <1>5
<1>12. QED BY Zenon, <1>2, <1>5, <1>9, <1>10, <1>11

\* The bytes written on a connection of the bodies ws, block behind block: the j-th
\* ends at ends[j].
Written(ws, all, ends) ==
  /\ all \in Seq(Bytes) /\ ends \in [0..Len(ws) -> Nat]
  /\ ends[0] = 0 /\ ends[Len(ws)] = Len(all)
  /\ \A j \in 1..Len(ws) :
       /\ ends[j] = ends[j - 1] + Len(Stuff(ws[j])) /\ ends[j] <= Len(all)
       /\ \A i \in 1..Len(Stuff(ws[j])) : all[ends[j - 1] + i] = Stuff(ws[j])[i]

\* What was read of the block under way, bl, and what was not read, wi, are the next
\* of them behind the first done, and so many.
Ahead(bl, wi, all, done) ==
  /\ \A i \in 1..Len(bl) : bl[i] = all[done + i]
  /\ \A i \in 1..Len(wi) : wi[i] = all[done + Len(bl) + i]
  /\ done + Len(bl) + Len(wi) <= Len(all)

ToTheEnd(bl, wi, all, done) == done + Len(bl) + Len(wi) = Len(all)

LEMMA WrittenOneMore ==
  ASSUME NEW ws \in Seq(Seq(Bytes)), NEW all, NEW ends, Written(ws, all, ends), NEW b \in Seq(Bytes)
  PROVE  \E far : /\ Written(Append(ws, b), all \o Stuff(b), far)
                  /\ \A j \in 0..Len(ws) : far[j] = ends[j]
<1>1. PICK w : w = Stuff(b)
  OBVIOUS
<1>2. w \in Seq(Bytes) /\ Len(w) \in Nat
  BY <1>1, OnTheWire
<1>3. PICK n : n = Len(ws)
  OBVIOUS
<1>4. PICK m : m = Len(all)
  OBVIOUS
<1>5. /\ all \in Seq(Bytes) /\ m \in Nat /\ n \in Nat /\ ends \in [0..n -> Nat]
      /\ ends[0] = 0 /\ ends[n] = m
  BY <1>3, <1>4, LenProperties DEF Written
<1>6. PICK ws2 : ws2 = Append(ws, b)
  OBVIOUS
<1>7. Len(ws2) = n + 1 /\ ws2[n + 1] = b /\ \A j \in 1..n : ws2[j] = ws[j]
  BY <1>3, <1>6, AppendProperties
<1>8. PICK more : more = all \o w
  OBVIOUS
<1>9. /\ more \in Seq(Bytes) /\ Len(more) = m + Len(w)
      /\ \A i \in 1..m : more[i] = all[i]
      /\ \A i \in 1..Len(w) : more[m + i] = w[i]
  <2>1. /\ all \o w \in Seq(Bytes) /\ Len(all \o w) = Len(all) + Len(w)
        /\ \A i \in 1..Len(all) : (all \o w)[i] = all[i]
        /\ \A i \in 1..Len(w) : (all \o w)[Len(all) + i] = w[i]
    BY <1>2, <1>5, EndToEnd
  <2>2. QED BY Zenon, <1>4, <1>8, <2>1
<1> DEFINE far == [j \in 0..(n + 1) |-> IF j <= n THEN ends[j] ELSE m + Len(w)]
<1>10. /\ far \in [0..(n + 1) -> Nat] /\ far[n + 1] = m + Len(w)
       /\ \A j \in 0..n : far[j] = ends[j] /\ ends[j] \in Nat
  BY <1>2, <1>5
<1> HIDE DEF far
<1>11. ASSUME NEW j \in 1..(n + 1)
       PROVE  /\ far[j] = far[j - 1] + Len(Stuff(ws2[j])) /\ far[j] <= Len(more)
              /\ \A i \in 1..Len(Stuff(ws2[j])) : more[far[j - 1] + i] = Stuff(ws2[j])[i]
  <2>1. CASE j \in 1..n
    <3>1. j \in 0..n /\ j - 1 \in 0..n
      BY <1>5, <2>1
    <3>2. PICK x : x = Stuff(ws[j])
      OBVIOUS
    <3>3. Stuff(ws2[j]) = x
      BY Zenon, <1>7, <2>1, <3>2
    <3>4. /\ ends[j] = ends[j - 1] + Len(x) /\ ends[j] <= m
          /\ \A i \in 1..Len(x) : all[ends[j - 1] + i] = x[i]
      BY Zenon, <1>3, <1>4, <2>1, <3>2 DEF Written
    <3>5. ws[j] \in Seq(Bytes)
      BY <1>3, <2>1, ElementOfSeq
    <3>6. Len(x) \in Nat
      BY <3>2, <3>5, OnTheWire
    <3>7. far[j] = ends[j] /\ far[j - 1] = ends[j - 1] /\ ends[j] \in Nat /\ ends[j - 1] \in Nat
      BY <1>10, <3>1
    <3>8. ASSUME NEW i \in 1..Len(x) PROVE more[far[j - 1] + i] = x[i]
      <4>1. ends[j - 1] + i \in 1..m
        BY <1>5, <3>4, <3>6, <3>7
      <4>2. QED BY Zenon, <1>9, <3>4, <3>7, <4>1
    <3>9. far[j] = far[j - 1] + Len(x) /\ far[j] <= m + Len(w)
      BY <1>2, <1>5, <3>4, <3>7
    <3>10. QED BY Zenon, <1>9, <3>3, <3>8, <3>9
  <2>2. CASE j = n + 1
    <3>1. j - 1 = n /\ n \in 0..n /\ m + Len(w) <= m + Len(w)
      BY <1>2, <1>5, <2>2
    <3>2. far[j] = m + Len(w) /\ far[j - 1] = m
      BY Zenon, <1>5, <1>10, <2>2, <3>1
    <3>3. Stuff(ws2[j]) = w
      BY Zenon, <1>1, <1>7, <2>2
    <3>4. QED BY Zenon, <1>9, <3>1, <3>2, <3>3
  <2>3. QED BY <1>5, <2>1, <2>2
<1>12. Written(ws2, more, far)
  <2>1. 0 \in 0..n
    BY <1>5
  <2>2. far[0] = 0
    BY Zenon, <1>5, <1>10, <2>1
  <2>3. QED BY Zenon, <1>7, <1>9, <1>10, <1>11, <2>2 DEF Written
<1>13. \A j \in 0..Len(ws) : far[j] = ends[j]
  BY Zenon, <1>3, <1>10
<1>14. QED BY Zenon, <1>1, <1>6, <1>8, <1>12, <1>13

\* How lengths add up.
LEMMA Lengths ==
  ASSUME NEW c \in Nat, NEW d \in Nat, NEW e \in Nat, NEW x \in Nat
  PROVE  /\ c + d + (e + x) = (c + d + e) + x /\ (c + d + e) + x <= (c + d + e) + x
         /\ x <= e => c + (d + x) + (e - x) = c + d + e
  OBVIOUS

\* More written is more not read.
LEMMA AheadOneMore ==
  ASSUME NEW bl \in Seq(Bytes), NEW wi \in Seq(Bytes), NEW all \in Seq(Bytes), NEW done \in Nat,
         NEW w \in Seq(Bytes), Ahead(bl, wi, all, done), ToTheEnd(bl, wi, all, done)
  PROVE  Ahead(bl, wi \o w, all \o w, done) /\ ToTheEnd(bl, wi \o w, all \o w, done)
<1>1. PICK wi2 : wi2 = wi \o w
  OBVIOUS
<1>2. PICK more : more = all \o w
  OBVIOUS
<1>3. /\ \A i \in 1..Len(wi) : wi2[i] = wi[i]
      /\ \A i \in 1..Len(w) : wi2[Len(wi) + i] = w[i]
      /\ \A i \in 1..Len(all) : more[i] = all[i]
      /\ \A i \in 1..Len(w) : more[Len(all) + i] = w[i]
  <2>1. /\ \A i \in 1..Len(wi) : (wi \o w)[i] = wi[i]
        /\ \A i \in 1..Len(w) : (wi \o w)[Len(wi) + i] = w[i]
    BY EndToEnd
  <2>2. /\ \A i \in 1..Len(all) : (all \o w)[i] = all[i]
        /\ \A i \in 1..Len(w) : (all \o w)[Len(all) + i] = w[i]
    BY EndToEnd
  <2>3. QED BY Zenon, <1>1, <1>2, <2>1, <2>2
<1>4. Len(wi2) = Len(wi) + Len(w) /\ Len(more) = Len(all) + Len(w)
  <2>1. Len(wi \o w) = Len(wi) + Len(w)
    BY EndToEnd
  <2>2. Len(all \o w) = Len(all) + Len(w)
    BY EndToEnd
  <2>3. QED BY Zenon, <1>1, <1>2, <2>1, <2>2
<1>5. Len(bl) \in Nat /\ Len(wi) \in Nat /\ Len(w) \in Nat /\ Len(all) \in Nat
  BY LenProperties
<1>6. /\ \A i \in 1..Len(bl) : bl[i] = all[done + i]
      /\ \A i \in 1..Len(wi) : wi[i] = all[done + Len(bl) + i]
      /\ done + Len(bl) + Len(wi) = Len(all)
  BY Zenon DEF Ahead, ToTheEnd
<1>7. ASSUME NEW i \in 1..Len(bl) PROVE bl[i] = more[done + i]
  <2>1. done + i \in 1..Len(all)
    BY <1>5, <1>6
  <2>2. QED BY Zenon, <1>3, <1>6, <2>1
<1>8. ASSUME NEW i \in 1..Len(wi2) PROVE wi2[i] = more[done + Len(bl) + i]
  <2>1. CASE i \in 1..Len(wi)
    <3>1. done + Len(bl) + i \in 1..Len(all)
      BY <1>5, <1>6, <2>1
    <3>2. QED BY Zenon, <1>3, <1>6, <2>1, <3>1
  <2>2. CASE i \notin 1..Len(wi)
    <3>1. PICK m : m = i - Len(wi)
      OBVIOUS
    <3>2. m \in 1..Len(w) /\ i = Len(wi) + m
      BY <1>4, <1>5, <2>2, <3>1
    <3>3. done + Len(bl) + i = Len(all) + m
      <4>1. m \in Nat
        BY <1>5, <3>2
      <4>2. done + Len(bl) + (Len(wi) + m) = (done + Len(bl) + Len(wi)) + m
        BY <1>5, <4>1, Lengths
      <4>3. QED BY Zenon, <1>6, <3>2, <4>2
    <3>4. QED BY Zenon, <1>3, <3>2, <3>3
  <2>3. QED BY <2>1, <2>2
<1>9. done + Len(bl) + Len(wi2) = Len(more) /\ done + Len(bl) + Len(wi2) <= Len(more)
  <2>1. /\ done + Len(bl) + (Len(wi) + Len(w)) = (done + Len(bl) + Len(wi)) + Len(w)
        /\ (done + Len(bl) + Len(wi)) + Len(w) <= (done + Len(bl) + Len(wi)) + Len(w)
    BY <1>5, Lengths
  <2>2. QED BY Zenon, <1>4, <1>6, <2>1
<1>10. Ahead(bl, wi2, more, done) /\ ToTheEnd(bl, wi2, more, done)
  BY Zenon, <1>7, <1>8, <1>9 DEF Ahead, ToTheEnd
<1>11. QED BY Zenon, <1>1, <1>2, <1>10

\* A part of a sequence.
LEMMA PartOf ==
  ASSUME NEW s \in Seq(Bytes), NEW m \in Nat, NEW n \in Nat, m <= n, n <= Len(s)
  PROVE  /\ SubSeq(s, m + 1, n) \in Seq(Bytes) /\ Len(SubSeq(s, m + 1, n)) = n - m
         /\ \A i \in 1..(n - m) : SubSeq(s, m + 1, n)[i] = s[m + i]
  OBVIOUS

\* What is ahead once n more bytes are read.
AheadThen(bl, wi, all, done, n) ==
  \E bl2, wi2 :
    /\ bl2 = bl \o SubSeq(wi, 1, n) /\ wi2 = SubSeq(wi, n + 1, Len(wi))
    /\ bl2 \in Seq(Bytes) /\ wi2 \in Seq(Bytes) /\ Len(bl2) = Len(bl) + n
    /\ Ahead(bl2, wi2, all, done)
    /\ ToTheEnd(bl, wi, all, done) => ToTheEnd(bl2, wi2, all, done)

LEMMA AheadReadOn ==
  ASSUME NEW bl \in Seq(Bytes), NEW wi \in Seq(Bytes), NEW all \in Seq(Bytes), NEW done \in Nat,
         Ahead(bl, wi, all, done), NEW n \in 1..Len(wi)
  PROVE  AheadThen(bl, wi, all, done, n)
<1>00. PICK bl2 : bl2 = bl \o SubSeq(wi, 1, n)
  OBVIOUS
<1>0. PICK wi2 : wi2 = SubSeq(wi, n + 1, Len(wi))
  OBVIOUS
<1>1. Len(bl) \in Nat /\ Len(wi) \in Nat /\ Len(all) \in Nat /\ n \in Nat
  BY LenProperties
<1>2. PICK u : u = SubSeq(wi, 1, n)
  OBVIOUS
<1>3. u \in Seq(Bytes) /\ Len(u) = n /\ \A i \in 1..n : u[i] = wi[i]
  <2>1. SubSeq(wi, 0 + 1, n) = u
    BY <1>2
  <2>2. /\ SubSeq(wi, 0 + 1, n) \in Seq(Bytes) /\ Len(SubSeq(wi, 0 + 1, n)) = n - 0
        /\ \A i \in 1..(n - 0) : SubSeq(wi, 0 + 1, n)[i] = wi[0 + i]
    BY <1>1, PartOf
  <2>3. n - 0 = n /\ \A i \in 1..n : 0 + i = i
    BY <1>1
  <2>4. QED BY Zenon, <2>1, <2>2, <2>3
<1>4. /\ bl2 \in Seq(Bytes) /\ Len(bl2) = Len(bl) + n
      /\ \A i \in 1..Len(bl) : bl2[i] = bl[i]
      /\ \A i \in 1..n : bl2[Len(bl) + i] = wi[i]
  <2>1. /\ bl \o u \in Seq(Bytes) /\ Len(bl \o u) = Len(bl) + Len(u)
        /\ \A i \in 1..Len(bl) : (bl \o u)[i] = bl[i]
        /\ \A i \in 1..Len(u) : (bl \o u)[Len(bl) + i] = u[i]
    BY <1>3, EndToEnd
  <2>2. bl2 = bl \o u
    BY Zenon, <1>00, <1>2
  <2>3. QED BY Zenon, <1>3, <2>1, <2>2
<1>5. /\ wi2 \in Seq(Bytes) /\ Len(wi2) = Len(wi) - n
      /\ \A i \in 1..(Len(wi) - n) : wi2[i] = wi[n + i]
  <2>1. n <= Len(wi) /\ Len(wi) <= Len(wi)
    BY <1>1
  <2>2. QED BY <1>0, <1>1, <2>1, PartOf
<1>6. /\ \A i \in 1..Len(bl) : bl[i] = all[done + i]
      /\ \A i \in 1..Len(wi) : wi[i] = all[done + Len(bl) + i]
      /\ done + Len(bl) + Len(wi) <= Len(all)
  BY Zenon DEF Ahead
<1>7. ASSUME NEW i \in 1..Len(bl2) PROVE bl2[i] = all[done + i]
  <2>1. CASE i \in 1..Len(bl)
    BY Zenon, <1>4, <1>6, <2>1
  <2>2. CASE i \notin 1..Len(bl)
    <3>1. PICK m : m = i - Len(bl)
      OBVIOUS
    <3>2. m \in 1..n /\ i = Len(bl) + m /\ m \in 1..Len(wi)
      BY <1>1, <1>4, <2>2, <3>1
    <3>3. done + i = done + Len(bl) + m
      BY <1>1, <3>2
    <3>4. QED BY Zenon, <1>4, <1>6, <3>2, <3>3
  <2>3. QED BY <2>1, <2>2
<1>8. ASSUME NEW i \in 1..Len(wi2) PROVE wi2[i] = all[done + Len(bl2) + i]
  <2>1. i \in 1..(Len(wi) - n) /\ n + i \in 1..Len(wi)
    BY <1>1, <1>5
  <2>2. done + Len(bl) + (n + i) = done + Len(bl2) + i
    BY <1>1, <1>4, <2>1
  <2>3. QED BY Zenon, <1>5, <1>6, <2>1, <2>2
<1>9. done + Len(bl2) + Len(wi2) = done + Len(bl) + Len(wi)
  <2>1. done + (Len(bl) + n) + (Len(wi) - n) = done + Len(bl) + Len(wi)
    BY <1>1, Lengths
  <2>2. QED BY Zenon, <1>4, <1>5, <2>1
<1>10. Ahead(bl2, wi2, all, done)
  BY Zenon, <1>6, <1>7, <1>8, <1>9 DEF Ahead
<1>11. ToTheEnd(bl, wi, all, done) => ToTheEnd(bl2, wi2, all, done)
  BY Zenon, <1>9 DEF ToTheEnd
<1>12. QED BY Zenon, <1>00, <1>0, <1>4, <1>5, <1>10, <1>11 DEF AheadThen

\* A block read, the next is ahead.
LEMMA AheadNextBlock ==
  ASSUME NEW bl \in Seq(Bytes), NEW wi \in Seq(Bytes), NEW all, NEW done \in Nat,
         Ahead(bl, wi, all, done)
  PROVE  /\ Ahead(<<>>, wi, all, done + Len(bl))
         /\ ToTheEnd(bl, wi, all, done) => ToTheEnd(<<>>, wi, all, done + Len(bl))
<1>1. Len(bl) \in Nat /\ Len(wi) \in Nat
  BY LenProperties
<1>2. PICK e : e = <<>>
  OBVIOUS
<1>3. Len(e) = 0 /\ 1..0 = {}
  BY <1>2
<1>4. PICK d : d = done + Len(bl)
  OBVIOUS
<1>5. d + 0 + Len(wi) = done + Len(bl) + Len(wi) /\ \A i \in 1..Len(wi) : d + 0 + i = done + Len(bl) + i
  BY <1>1, <1>4
<1>6. Ahead(e, wi, all, d)
  BY Zenon, <1>3, <1>5 DEF Ahead
<1>7. ToTheEnd(bl, wi, all, done) => ToTheEnd(e, wi, all, d)
  BY Zenon, <1>3, <1>5 DEF ToTheEnd
<1>8. QED BY Zenon, <1>2, <1>4, <1>6, <1>7

\* Part of what is ahead is.
LEMMA AheadCut ==
  ASSUME NEW bl \in Seq(Bytes), NEW wi \in Seq(Bytes), NEW all \in Seq(Bytes), NEW done \in Nat,
         Ahead(bl, wi, all, done), NEW n \in 0..Len(wi)
  PROVE  SubSeq(wi, 1, n) \in Seq(Bytes) /\ Ahead(bl, SubSeq(wi, 1, n), all, done)
<1>1. Len(bl) \in Nat /\ Len(wi) \in Nat /\ Len(all) \in Nat /\ n \in Nat
  BY LenProperties
<1>2. PICK u : u = SubSeq(wi, 1, n)
  OBVIOUS
<1>3. u \in Seq(Bytes) /\ Len(u) = n /\ \A i \in 1..n : u[i] = wi[i] /\ i \in 1..Len(wi)
  BY <1>1, <1>2
<1>4. done + Len(bl) + Len(u) <= Len(all)
  <2>1. done + Len(bl) + Len(wi) <= Len(all)
    BY Zenon DEF Ahead
  <2>2. QED BY <1>1, <1>3, <2>1
<1>5. Ahead(bl, u, all, done)
  BY Zenon, <1>3, <1>4 DEF Ahead
<1>6. QED BY Zenon, <1>2, <1>3, <1>5

-----------------------------------------------------------------------------
(* A connection's blocks, read back.                                       *)

\* The bodies read back are the first written, and the block under way is not whole.
ReadSoFar ==
  /\ Len(gotBack) <= Len(wrote)
  /\ \A j \in 1..Len(gotBack) : gotBack[j] = wrote[j]
  /\ Len(block) # 0 => /\ Len(gotBack) < Len(wrote)
                       /\ Len(block) < Len(Stuff(wrote[Len(gotBack) + 1]))

StuffedTypes ==
  /\ wire \in Seq(Bytes) /\ block \in Seq(Bytes) /\ wrote \in Seq(Seq(Bytes))
  /\ gotBack \in Seq(Seq(Bytes)) /\ closed \in BOOLEAN

\* What is ahead is all of it unless the peer closed.
StreamAhead ==
  \E all, ends :
    /\ Written(wrote, all, ends) /\ Ahead(block, wire, all, ends[Len(gotBack)])
    /\ ~closed => ToTheEnd(block, wire, all, ends[Len(gotBack)])

StuffedInv == StuffedTypes /\ ReadSoFar /\ StreamAhead

LEMMA StuffedStarts == StuffedInit => StuffedInv
<1> SUFFICES ASSUME StuffedInit PROVE StuffedInv
  OBVIOUS
<1>1. /\ wire = <<>> /\ block = <<>> /\ wrote = <<>> /\ gotBack = <<>> /\ closed = FALSE
  BY DEF StuffedInit
<1>2. StuffedTypes
  <2>1. <<>> \in Seq(Bytes)
    OBVIOUS
  <2>2. <<>> \in Seq(Seq(Bytes))
    OBVIOUS
  <2>3. FALSE \in BOOLEAN
    OBVIOUS
  <2>4. QED BY Zenon, <1>1, <2>1, <2>2, <2>3 DEF StuffedTypes
<1>3. Len(wire) = 0 /\ Len(block) = 0 /\ Len(wrote) = 0 /\ Len(gotBack) = 0 /\ 1..0 = {}
  BY <1>1
<1>4. ReadSoFar
  BY <1>3 DEF ReadSoFar
<1> DEFINE ends == [j \in 0..0 |-> 0]
<1>5. ends \in [0..0 -> Nat] /\ ends[0] = 0
  OBVIOUS
<1>6. PICK all : all = <<>>
  OBVIOUS
<1>7. all \in Seq(Bytes) /\ Len(all) = 0
  BY <1>6
<1> HIDE DEF ends
<1>8. Written(wrote, all, ends)
  BY <1>3, <1>5, <1>7 DEF Written
<1>9. 0 + 0 + 0 = 0 /\ 0 <= 0
  OBVIOUS
<1>10. Ahead(block, wire, all, ends[Len(gotBack)]) /\ ToTheEnd(block, wire, all, ends[Len(gotBack)])
  BY Zenon, <1>3, <1>5, <1>7, <1>9 DEF Ahead, ToTheEnd
<1>11. QED BY <1>2, <1>4, <1>8, <1>10 DEF StuffedInv, StreamAhead

LEMMA BodiesAre == ASSUME NEW b \in Bodies PROVE b \in Seq(Bytes)
<1>1. PICK n \in 0..MaxBody : b \in [1..n -> Bytes]
  BY DEF Bodies
<1>2. n \in Nat
  BY <1>1, StuffedAssumption
<1>3. QED BY <1>1, <1>2, SeqDef

LEMMA WriteBlockKeeps ==
  ASSUME StuffedInv, NEW b \in Bodies, WriteBlock(b) PROVE StuffedInv'
<1>1. PICK all, ends :
        /\ Written(wrote, all, ends) /\ Ahead(block, wire, all, ends[Len(gotBack)])
        /\ ~closed => ToTheEnd(block, wire, all, ends[Len(gotBack)])
  BY DEF StuffedInv, StreamAhead
<1>2. PICK w : w = Stuff(b)
  OBVIOUS
<1>3. b \in Seq(Bytes)
  BY BodiesAre
<1>4. w \in Seq(Bytes)
  BY <1>2, <1>3, OnTheWire
<1>5. /\ wrote' = Append(wrote, b) /\ wire' = wire \o w /\ ~closed
      /\ block' = block /\ gotBack' = gotBack /\ closed' = closed
  BY Zenon, <1>2 DEF WriteBlock
<1>6. /\ wire \in Seq(Bytes) /\ block \in Seq(Bytes) /\ wrote \in Seq(Seq(Bytes))
      /\ gotBack \in Seq(Seq(Bytes)) /\ closed \in BOOLEAN
      /\ Len(wrote) \in Nat /\ Len(gotBack) \in Nat
  BY LenProperties DEF StuffedInv, StuffedTypes
<1>7. PICK ws2 : ws2 = Append(wrote, b)
  OBVIOUS
<1>8. /\ ws2 \in Seq(Seq(Bytes)) /\ Len(ws2) = Len(wrote) + 1
      /\ \A j \in 1..Len(wrote) : ws2[j] = wrote[j]
  BY <1>3, <1>6, <1>7, AppendProperties
<1>9. /\ Len(gotBack) <= Len(wrote) /\ \A j \in 1..Len(gotBack) : gotBack[j] = wrote[j]
      /\ Len(block) # 0 => /\ Len(gotBack) < Len(wrote)
                           /\ Len(block) < Len(Stuff(wrote[Len(gotBack) + 1]))
  BY Zenon DEF StuffedInv, ReadSoFar
<1>10. PICK far : /\ Written(ws2, all \o w, far)
                  /\ \A j \in 0..Len(wrote) : far[j] = ends[j]
  <2>1. \E far : /\ Written(Append(wrote, b), all \o Stuff(b), far)
                 /\ \A j \in 0..Len(wrote) : far[j] = ends[j]
    BY <1>1, <1>3, <1>6, WrittenOneMore
  <2>2. QED BY Zenon, <1>2, <1>7, <2>1
<1>11. Len(gotBack) \in 0..Len(wrote)
  BY <1>6, <1>9
<1>12. all \in Seq(Bytes) /\ ends[Len(gotBack)] \in Nat /\ far[Len(gotBack)] = ends[Len(gotBack)]
  BY <1>1, <1>10, <1>11 DEF Written
<1>13. wire \o w \in Seq(Bytes)
  BY <1>4, <1>6, EndToEnd
<1>14. /\ Ahead(block, wire \o w, all \o w, far[Len(gotBack)])
       /\ ToTheEnd(block, wire \o w, all \o w, far[Len(gotBack)])
  <2>1. PICK done \in Nat : done = ends[Len(gotBack)]
    BY <1>12
  <2>2. Ahead(block, wire, all, done) /\ ToTheEnd(block, wire, all, done)
    BY Zenon, <1>1, <1>5, <2>1
  <2>3. Ahead(block, wire \o w, all \o w, done) /\ ToTheEnd(block, wire \o w, all \o w, done)
    BY Zenon, <1>4, <1>6, <1>12, <2>2, AheadOneMore
  <2>4. QED BY Zenon, <1>12, <2>1, <2>3
<1>15. StreamAhead'
  <2>1. \E al, en : /\ Written(ws2, al, en) /\ Ahead(block, wire \o w, al, en[Len(gotBack)])
                    /\ ~closed => ToTheEnd(block, wire \o w, al, en[Len(gotBack)])
    BY Zenon, <1>10, <1>14
  <2>2. QED BY Zenon, <1>5, <1>7, <2>1 DEF StreamAhead
<1>16. ReadSoFar'
  <2>1. Len(gotBack) <= Len(ws2)
    BY <1>6, <1>8, <1>9
  <2>2. \A j \in 1..Len(gotBack) : gotBack[j] = ws2[j]
    <3>1. \A j \in 1..Len(gotBack) : j \in 1..Len(wrote)
      BY <1>6, <1>9
    <3>2. QED BY Zenon, <1>8, <1>9, <3>1
  <2>3. ASSUME Len(block) # 0
        PROVE  Len(gotBack) < Len(ws2) /\ Len(block) < Len(Stuff(ws2[Len(gotBack) + 1]))
    <3>1. Len(gotBack) < Len(wrote) /\ Len(block) < Len(Stuff(wrote[Len(gotBack) + 1]))
      BY Zenon, <1>9, <2>3
    <3>2. Len(gotBack) + 1 \in 1..Len(wrote) /\ Len(gotBack) < Len(ws2)
      BY <1>6, <1>8, <3>1
    <3>3. ws2[Len(gotBack) + 1] = wrote[Len(gotBack) + 1]
      BY Zenon, <1>8, <3>2
    <3>4. QED BY Zenon, <3>1, <3>2, <3>3
  <2>4. QED BY Zenon, <1>5, <1>7, <2>1, <2>2, <2>3 DEF ReadSoFar
<1>17. StuffedTypes'
  BY Zenon, <1>5, <1>6, <1>7, <1>8, <1>13 DEF StuffedTypes
<1>18. QED BY <1>15, <1>16, <1>17 DEF StuffedInv

LEMMA ClosePartKeeps == ASSUME StuffedInv, ClosePart PROVE StuffedInv'
<1>1. PICK all, ends :
        Written(wrote, all, ends) /\ Ahead(block, wire, all, ends[Len(gotBack)])
  BY DEF StuffedInv, StreamAhead
<1>2. PICK n \in 0..Len(wire) : wire' = SubSeq(wire, 1, n)
  BY DEF ClosePart
<1>3. closed' = TRUE /\ block' = block /\ gotBack' = gotBack /\ wrote' = wrote
  BY DEF ClosePart
<1>4. /\ wire \in Seq(Bytes) /\ block \in Seq(Bytes) /\ wrote \in Seq(Seq(Bytes))
      /\ gotBack \in Seq(Seq(Bytes)) /\ Len(wrote) \in Nat /\ Len(gotBack) \in Nat
  BY LenProperties DEF StuffedInv, StuffedTypes
<1>5. PICK done : done = ends[Len(gotBack)]
  OBVIOUS
<1>6. all \in Seq(Bytes) /\ done \in Nat
  <2>1. Len(gotBack) \in 0..Len(wrote)
    BY <1>4 DEF StuffedInv, ReadSoFar
  <2>2. QED BY <1>1, <1>5, <2>1 DEF Written
<1>7. SubSeq(wire, 1, n) \in Seq(Bytes) /\ Ahead(block, SubSeq(wire, 1, n), all, done)
  BY <1>1, <1>4, <1>5, <1>6, AheadCut
<1>8. StreamAhead'
  <2>1. Written(wrote, all, ends) /\ Ahead(block, SubSeq(wire, 1, n), all, ends[Len(gotBack)])
    BY Zenon, <1>1, <1>5, <1>7
  <2>2. \E al, en : Written(wrote, al, en) /\ Ahead(block, SubSeq(wire, 1, n), al, en[Len(gotBack)])
    BY Zenon, <2>1
  <2>3. QED BY Zenon, <1>2, <1>3, <2>2 DEF StreamAhead
<1>9. StuffedTypes'
  BY <1>2, <1>3, <1>4, <1>7 DEF StuffedTypes
<1>10. ReadSoFar'
  BY Zenon, <1>3 DEF StuffedInv, ReadSoFar
<1>11. QED BY <1>8, <1>9, <1>10 DEF StuffedInv

LEMMA ReadLineKeeps == ASSUME StuffedInv, ReadLine PROVE StuffedInv'
<1>1. PICK all, ends :
        /\ Written(wrote, all, ends) /\ Ahead(block, wire, all, ends[Len(gotBack)])
        /\ ~closed => ToTheEnd(block, wire, all, ends[Len(gotBack)])
  BY DEF StuffedInv, StreamAhead
<1>2. PICK n \in DOMAIN wire :
        LET bytes == block \o SubSeq(wire, 1, n) IN
        /\ IsLine(n)
        /\ block' = IF IsBlockEnd(bytes) THEN <<>> ELSE bytes
        /\ gotBack' = IF IsBlockEnd(bytes) THEN Append(gotBack, BodyOf(bytes)) ELSE gotBack
        /\ wire' = SubSeq(wire, n + 1, Len(wire))
  BY Zenon DEF ReadLine
<1>3. PICK bl2 : bl2 = block \o SubSeq(wire, 1, n)
  OBVIOUS
<1>4. PICK wi2 : wi2 = SubSeq(wire, n + 1, Len(wire))
  OBVIOUS
<1>5. /\ IsLine(n) /\ wire' = wi2
      /\ block' = IF IsBlockEnd(bl2) THEN <<>> ELSE bl2
      /\ gotBack' = IF IsBlockEnd(bl2) THEN Append(gotBack, BodyOf(bl2)) ELSE gotBack
  BY Zenon, <1>2, <1>3, <1>4
<1>6. wrote' = wrote /\ closed' = closed
  BY Zenon DEF ReadLine
<1>7. /\ wire \in Seq(Bytes) /\ block \in Seq(Bytes) /\ wrote \in Seq(Seq(Bytes))
      /\ gotBack \in Seq(Seq(Bytes)) /\ closed \in BOOLEAN
      /\ Len(wire) \in Nat /\ Len(block) \in Nat /\ Len(wrote) \in Nat /\ Len(gotBack) \in Nat
  BY LenProperties DEF StuffedInv, StuffedTypes
<1>8. n \in 1..Len(wire) /\ n \in Nat /\ n >= 1 /\ n <= Len(wire)
  BY <1>7, LenProperties
<1>9. PICK k : k = Len(gotBack)
  OBVIOUS
<1>10. /\ k \in Nat /\ k <= Len(wrote) /\ \A j \in 1..k : gotBack[j] = wrote[j]
       /\ Len(block) # 0 => k < Len(wrote) /\ Len(block) < Len(Stuff(wrote[k + 1]))
  BY Zenon, <1>7, <1>9 DEF StuffedInv, ReadSoFar
<1>11. PICK done : done = ends[k]
  OBVIOUS
<1>12. /\ all \in Seq(Bytes) /\ Len(all) \in Nat /\ done \in Nat
       /\ k = Len(wrote) => done = Len(all)
  <2>1. k \in 0..Len(wrote)
    BY <1>7, <1>10
  <2>2. QED BY <1>1, <1>11, <2>1, LenProperties DEF Written
<1>13. Ahead(block, wire, all, done) /\ (~closed => ToTheEnd(block, wire, all, done))
  BY Zenon, <1>1, <1>9, <1>11
<1>14. /\ bl2 \in Seq(Bytes) /\ wi2 \in Seq(Bytes) /\ Len(bl2) = Len(block) + n
       /\ Ahead(bl2, wi2, all, done)
       /\ ToTheEnd(block, wire, all, done) => ToTheEnd(bl2, wi2, all, done)
  <2>1. AheadThen(block, wire, all, done, n)
    BY Zenon, <1>7, <1>8, <1>12, <1>13, AheadReadOn
  <2>2. QED BY Zenon, <1>3, <1>4, <2>1 DEF AheadThen
\* There is a block ahead: what was read is of a body written.
<1>15. k < Len(wrote) /\ k + 1 \in 1..Len(wrote)
  <2>1. done + Len(block) + Len(wire) <= Len(all)
    BY Zenon, <1>13 DEF Ahead
  <2>2. done # Len(all)
    BY <1>7, <1>8, <1>12, <2>1
  <2>3. k # Len(wrote)
    BY Zenon, <1>12, <2>2
  <2>4. QED BY <1>7, <1>10, <2>3
<1>16. PICK b : b = wrote[k + 1]
  OBVIOUS
<1>17. b \in Seq(Bytes)
  BY <1>7, <1>15, <1>16, ElementOfSeq
<1>18. PICK w : w = Stuff(b)
  OBVIOUS
<1>19. /\ w \in Seq(Bytes) /\ Len(w) \in Nat /\ Len(w) >= 5 /\ w[Len(w)] = LF
       /\ IsBlockEnd(w) /\ BodyOf(w) = b /\ \A t : Begins(t, w) => ~IsBlockEnd(t)
  BY Zenon, <1>17, <1>18, OnTheWire
<1>20. /\ ends[k + 1] = done + Len(w)
       /\ \A i \in 1..Len(w) : all[done + i] = w[i]
  <2>1. /\ ends[k + 1] = ends[(k + 1) - 1] + Len(Stuff(wrote[k + 1]))
        /\ \A i \in 1..Len(Stuff(wrote[k + 1])) :
             all[ends[(k + 1) - 1] + i] = Stuff(wrote[k + 1])[i]
    BY Zenon, <1>1, <1>15 DEF Written
  <2>2. (k + 1) - 1 = k
    BY <1>10
  <2>3. QED BY Zenon, <1>11, <1>16, <1>18, <2>1, <2>2
\* Its last byte ends a line: what was read is not beyond it.
<1>21. Len(bl2) <= Len(w)
  <2> SUFFICES ASSUME Len(bl2) > Len(w) PROVE FALSE
    BY <1>7, <1>8, <1>14, <1>19
  <2>1. Len(block) < Len(w)
    <3>1. CASE Len(block) = 0
      BY <1>19, <3>1
    <3>2. CASE Len(block) # 0
      BY Zenon, <1>10, <1>16, <1>18, <3>2
    <3>3. QED BY <3>1, <3>2
  <2>2. PICK m : m = Len(w) - Len(block)
    OBVIOUS
  <2>3. m \in 1..(n - 1) /\ m \in 1..Len(wire) /\ Len(w) \in 1..Len(w)
    BY <1>7, <1>8, <1>14, <1>19, <2>1, <2>2
  <2>4. done + Len(block) + m = done + Len(w)
    BY <1>7, <1>12, <1>19, <2>2
  <2>5. wire[m] = w[Len(w)]
    BY Zenon, <1>13, <1>20, <2>3, <2>4 DEF Ahead
  <2>6. wire[m] # LF
    BY Zenon, <1>5, <2>3 DEF IsLine
  <2>7. QED BY Zenon, <1>19, <2>5, <2>6
<1>22. \A i \in 1..Len(bl2) : bl2[i] = w[i]
  <2>1. \A i \in 1..Len(bl2) : i \in 1..Len(w)
    BY <1>7, <1>8, <1>14, <1>19, <1>21
  <2>2. QED BY Zenon, <1>14, <1>20, <2>1 DEF Ahead
<1>23. CASE Len(bl2) = Len(w)
  <2>1. bl2 = w
    BY <1>14, <1>19, <1>22, <1>23, SeqEqual
  <2>2. block' = <<>> /\ gotBack' = Append(gotBack, b)
    BY Zenon, <1>5, <1>19, <2>1
  <2>3. PICK got2 : got2 = Append(gotBack, b)
    OBVIOUS
  <2>4. /\ got2 \in Seq(Seq(Bytes)) /\ Len(got2) = k + 1 /\ got2[k + 1] = b
        /\ \A j \in 1..k : got2[j] = gotBack[j]
    BY <1>7, <1>9, <1>17, <2>3, AppendProperties
  <2>5. ends[k + 1] = done + Len(bl2)
    BY Zenon, <1>20, <1>23
  <2>6. /\ Ahead(<<>>, wi2, all, done + Len(bl2))
        /\ ToTheEnd(bl2, wi2, all, done) => ToTheEnd(<<>>, wi2, all, done + Len(bl2))
    BY Zenon, <1>12, <1>14, AheadNextBlock
  <2>7. StreamAhead'
    <3>1. /\ Written(wrote, all, ends) /\ Ahead(<<>>, wi2, all, ends[Len(got2)])
          /\ ~closed => ToTheEnd(<<>>, wi2, all, ends[Len(got2)])
      BY Zenon, <1>1, <1>13, <1>14, <2>4, <2>5, <2>6
    <3>2. \E al, en : /\ Written(wrote, al, en) /\ Ahead(<<>>, wi2, al, en[Len(got2)])
                      /\ ~closed => ToTheEnd(<<>>, wi2, al, en[Len(got2)])
      BY Zenon, <3>1
    <3>3. QED BY Zenon, <1>5, <1>6, <2>2, <2>3, <3>2 DEF StreamAhead
  <2>8. ReadSoFar'
    <3>1. Len(got2) <= Len(wrote)
      BY <1>7, <1>10, <1>15, <2>4
    <3>2. \A j \in 1..(k + 1) : j \in 1..k \/ j = k + 1
      BY <1>10
    <3>3. \A j \in 1..Len(got2) : got2[j] = wrote[j]
      BY Zenon, <1>10, <1>16, <2>4, <3>2
    <3>4. PICK e : e = <<>>
      OBVIOUS
    <3>5. Len(e) = 0
      BY <3>4
    <3>6. gotBack' = got2 /\ block' = e
      BY Zenon, <2>2, <2>3, <3>4
    <3>7. QED BY Zenon, <1>6, <3>1, <3>3, <3>5, <3>6 DEF ReadSoFar
  <2>9. StuffedTypes'
    <3>1. <<>> \in Seq(Bytes)
      OBVIOUS
    <3>2. QED BY Zenon, <1>5, <1>6, <1>7, <1>14, <2>2, <2>3, <2>4, <3>1 DEF StuffedTypes
  <2>10. QED BY <2>7, <2>8, <2>9 DEF StuffedInv
<1>24. CASE Len(bl2) # Len(w)
  <2>1. Len(bl2) < Len(w)
    BY <1>7, <1>8, <1>14, <1>19, <1>21, <1>24
  <2>2. ~IsBlockEnd(bl2)
    BY Zenon, <1>14, <1>19, <1>22, <2>1 DEF Begins
  <2>3. block' = bl2 /\ gotBack' = gotBack
    BY Zenon, <1>5, <2>2
  <2>4. StreamAhead'
    <3>1. /\ Written(wrote, all, ends) /\ Ahead(bl2, wi2, all, ends[Len(gotBack)])
          /\ ~closed => ToTheEnd(bl2, wi2, all, ends[Len(gotBack)])
      BY Zenon, <1>1, <1>9, <1>11, <1>13, <1>14
    <3>2. \E al, en : /\ Written(wrote, al, en) /\ Ahead(bl2, wi2, al, en[Len(gotBack)])
                      /\ ~closed => ToTheEnd(bl2, wi2, al, en[Len(gotBack)])
      BY Zenon, <3>1
    <3>3. QED BY Zenon, <1>5, <1>6, <2>3, <3>2 DEF StreamAhead
  <2>5. ReadSoFar'
    BY Zenon, <1>6, <1>9, <1>10, <1>15, <1>16, <1>18, <2>1, <2>3 DEF ReadSoFar
  <2>6. StuffedTypes'
    BY Zenon, <1>5, <1>6, <1>7, <1>14, <2>3 DEF StuffedTypes
  <2>7. QED BY <2>4, <2>5, <2>6 DEF StuffedInv
<1>25. QED BY <1>23, <1>24

LEMMA StuffedKeeps == StuffedInv /\ [StuffedNext]_stuffedVars => StuffedInv'
<1> SUFFICES ASSUME StuffedInv, [StuffedNext]_stuffedVars PROVE StuffedInv'
  OBVIOUS
<1>1. CASE \E b \in Bodies : WriteBlock(b)
  BY <1>1, WriteBlockKeeps
<1>2. CASE ClosePart
  BY <1>2, ClosePartKeeps
<1>3. CASE ReadLine
  BY <1>3, ReadLineKeeps
<1>4. CASE ReadLineFails \/ UNCHANGED stuffedVars
  <2>1. wire' = wire /\ block' = block /\ wrote' = wrote /\ gotBack' = gotBack /\ closed' = closed
    BY <1>4 DEF ReadLineFails, stuffedVars
  <2>2. QED BY Zenon, <2>1 DEF StuffedInv, StuffedTypes, ReadSoFar, StreamAhead
<1>5. QED BY <1>1, <1>2, <1>3, <1>4 DEF StuffedNext

\* Each block of mail reads back as the body written, in their order, whatever lines
\* and periods are in it and wherever the peer closes (stuffed.rs).
THEOREM ReadsBack == StuffedSpec => []BlocksReadBack
<1>1. StuffedInv => BlocksReadBack
  <2> SUFFICES ASSUME StuffedInv PROVE BlocksReadBack
    OBVIOUS
  <2>1. /\ gotBack \in Seq(Seq(Bytes)) /\ wrote \in Seq(Seq(Bytes))
        /\ Len(gotBack) \in Nat /\ Len(wrote) \in Nat /\ Len(gotBack) <= Len(wrote)
        /\ \A j \in 1..Len(gotBack) : gotBack[j] = wrote[j]
    BY LenProperties DEF StuffedInv, StuffedTypes, ReadSoFar
  <2>2. PICK u : u = SubSeq(gotBack, 1, Len(gotBack))
    OBVIOUS
  <2>3. PICK v : v = SubSeq(wrote, 1, Len(gotBack))
    OBVIOUS
  <2>4. /\ u \in Seq(Seq(Bytes)) /\ Len(u) = Len(gotBack)
        /\ \A j \in 1..Len(gotBack) : u[j] = gotBack[j]
    BY <2>1, <2>2
  <2>5. /\ v \in Seq(Seq(Bytes)) /\ Len(v) = Len(gotBack)
        /\ \A j \in 1..Len(gotBack) : v[j] = wrote[j]
    BY <2>1, <2>3
  <2>6. u = v
    BY <2>1, <2>4, <2>5, SeqEqual
  <2>7. QED BY Zenon, <2>1, <2>2, <2>3, <2>6 DEF BlocksReadBack, IsPrefix
<1>2. QED BY <1>1, StuffedStarts, StuffedKeeps, PTL DEF StuffedSpec

=============================================================================
