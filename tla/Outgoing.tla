------------------------------ MODULE Outgoing ------------------------------
(***************************************************************************)
(* One send's body (outgoing.rs), held to its length, which is known       *)
(* before it is read: written on a piece at a time as it is read, handed   *)
(* on whole where it is held, or gathered first.  The body gives each read *)
(* as much as it likes, is interrupted, fails, ends sooner than its length *)
(* or runs on past it; the sink refuses a piece; and the send stops being  *)
(* its sender's to make, which is asked before the first byte goes.        *)
(*                                                                         *)
(* Bytes are counted: a body is Body bytes in order, and what was handed   *)
(* on is the first so many of them.                                        *)
(***************************************************************************)
EXTENDS Naturals

CONSTANTS
  MaxBytes,  \* bound: the longest body, and the longest length
  MaxPiece   \* bound: the largest piece

ASSUME OutgoingAssumption == MaxBytes \in Nat /\ MaxPiece \in Nat

VARIABLES
  way,       \* "write" on as it is read, "gather" first, or "held" bytes,
             \* which write_to hands on as one piece
  body,      \* how many bytes the body is
  length,    \* Outgoing::length
  size,      \* the size of a piece
  was,       \* Reader::read: how many bytes were read of the body
  filled,    \* how many bytes the piece being filled has
  handed,    \* pieces: how many bytes were handed on
  pieces,    \* how many pieces were
  wasAsked,  \* whether it was asked if the send is still the sender's
  still,     \* what that says: the claim may be lost at any moment
  step,      \* where the send stands
  result     \* what it came to

outgoingVars == <<way, body, length, size, was, filled, handed, pieces, wasAsked, still, step, result>>

\* A piece is a byte at least.
Piece == IF size = 0 THEN 1 ELSE size

OutgoingInit ==
  /\ way \in {"write", "gather", "held"}
  /\ body \in 0..MaxBytes /\ length \in 0..MaxBytes
  /\ way = "held" => length = body
  /\ size \in 0..MaxPiece
  /\ was = 0 /\ filled = 0 /\ handed = 0 /\ pieces = 0
  /\ wasAsked = FALSE /\ still = TRUE
  /\ step = IF way = "held" THEN "going" ELSE "fill"
  /\ result = "none"

sendOf == <<way, body, length, size>>

Judged(what) == step' = "over" /\ result' = what
StepTo(next) == step' = next /\ UNCHANGED result

\* The claim is lost.
ClaimLost ==
  /\ still /\ step # "over"
  /\ still' = FALSE
  /\ UNCHANGED <<sendOf, was, filled, handed, pieces, wasAsked, step, result>>

-----------------------------------------------------------------------------
(* Reader::read and fill.                                                  *)

\* The room there is: the piece's, or as much as comes where it is gathered.
Room == IF way = "gather" THEN MaxBytes + 1 ELSE Piece - filled

Least(m, n) == IF m < n THEN m ELSE n

\* Some of what is left of its length.
ReadSome ==
  /\ step = "fill" /\ Room > 0 /\ was < length
  /\ \E n \in 1..Least(Room, Least(length, body) - was) :
       /\ was' = was + n
       /\ filled' = filled + n
  /\ UNCHANGED <<sendOf, handed, pieces, wasAsked, still, step, result>>

\* The body ended short of its length.
EndedShort ==
  /\ step = "fill" /\ Room > 0 /\ was < length /\ was = body
  /\ Judged("short")
  /\ UNCHANGED <<sendOf, was, filled, handed, pieces, wasAsked, still>>

\* MUTANT of RunsOn: not asked past its length.
RunsOnUnasked == FALSE

\* Asked past its length, it has one byte more.
RunsOn == body > length

\* It runs on past its length.
RanOn ==
  /\ step = "fill" /\ Room > 0 /\ was = length /\ RunsOn
  /\ Judged("runs on")
  /\ UNCHANGED <<sendOf, was, filled, handed, pieces, wasAsked, still>>

\* The piece is full, or the body ended where its length does.
FilledPiece ==
  /\ step = "fill"
  /\ Room = 0 \/ (was = length /\ ~RunsOn)
  /\ StepTo("going")
  /\ UNCHANGED <<sendOf, was, filled, handed, pieces, wasAsked, still>>

\* The body could not be read.
ReadFailed ==
  /\ step = "fill"
  /\ Judged("unread")
  /\ UNCHANGED <<sendOf, was, filled, handed, pieces, wasAsked, still>>

-----------------------------------------------------------------------------
(* Outgoing::going, and what is handed on.                                 *)

\* Asked until something was handed on.
AsksNow == handed = 0

\* Whether the first byte may go.
Going ==
  /\ step = "going"
  /\ wasAsked' = (wasAsked \/ AsksNow)
  /\ IF AsksNow /\ ~still THEN Judged("not its own") ELSE StepTo("hand")
  /\ UNCHANGED <<sendOf, was, filled, handed, pieces, still>>

\* What is handed on at once: a piece, or all that is held or was gathered.
GivenAtOnce == IF way = "held" THEN Least(Piece, length - handed) ELSE filled

\* A piece that did not fill is the last one; held bytes end with them.
IsLastPiece == IF way = "held" THEN handed + GivenAtOnce = length
               ELSE way = "gather" \/ filled < Piece

\* An empty piece is handed on only where the body is empty.
HandOn ==
  /\ step = "hand"
  /\ handed' = handed + GivenAtOnce
  /\ pieces' = IF GivenAtOnce > 0 \/ handed = 0 THEN pieces + 1 ELSE pieces
  /\ filled' = 0
  /\ IF IsLastPiece THEN Judged("sent")
     ELSE StepTo(IF way = "held" THEN "hand" ELSE "fill")
  /\ UNCHANGED <<sendOf, was, wasAsked, still>>

\* The sink refused it, or took part of it.
SinkRefused ==
  /\ step = "hand" /\ way # "gather"
  /\ handed' \in handed..(handed + GivenAtOnce)
  /\ Judged("refused")
  /\ UNCHANGED <<sendOf, was, filled, pieces, wasAsked, still>>

ReadBody == ReadSome \/ EndedShort \/ RanOn \/ FilledPiece \/ ReadFailed

OutgoingNext == ReadBody \/ Going \/ HandOn \/ SinkRefused \/ ClaimLost

OutgoingSpec == OutgoingInit /\ [][OutgoingNext]_outgoingVars

-----------------------------------------------------------------------------

OutgoingTypeOK ==
  /\ way \in {"write", "gather", "held"} /\ body \in Nat /\ length \in Nat /\ size \in Nat
  /\ was \in Nat /\ was <= length /\ was <= body
  /\ filled \in Nat /\ handed \in Nat /\ pieces \in Nat
  /\ wasAsked \in BOOLEAN /\ still \in BOOLEAN
  /\ step \in {"fill", "going", "hand", "over"}
  /\ result \in {"none", "sent", "short", "runs on", "unread", "not its own", "refused"}

\* A send that succeeds handed on exactly the body, of exactly its length and
\* in no more pieces than that takes; and nothing is handed on of one that was
\* found no longer its sender's, or before that was asked (outgoing.rs: "never
\* sent as another body").
SentWhole ==
  /\ result = "sent" =>
       /\ handed = length /\ body = length
       /\ way # "gather" => pieces = IF length = 0 THEN 1 ELSE (length + Piece - 1) \div Piece
  /\ handed > 0 => wasAsked
  /\ result = "not its own" => handed = 0

=============================================================================
