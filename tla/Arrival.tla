------------------------------ MODULE Arrival ------------------------------
(***************************************************************************)
(* One arrival: its body pulled after the receive returned, opened by its  *)
(* first read and handed over a chunk at a time (body.rs), read whole and  *)
(* accepted, or refused or failed unread (arrived.rs), and its far end     *)
(* told once (acknowledgement.rs).  Opening it, a chunk of it, or telling  *)
(* the far end may fail.                                                   *)
(*                                                                         *)
(* Bytes are counted: chunks are how many each one has.                    *)
(***************************************************************************)
EXTENDS Naturals, Sequences

CONSTANTS
  MaxChunk,  \* bound: bytes in a chunk
  MaxChunks  \* bound: chunks in a body

ASSUME ArrivalAssumption == MaxChunk \in Nat /\ MaxChunks \in Nat

VARIABLES
  chunks,   \* what the far end would hand over, chunk by chunk
  defers,   \* whether the far end waits for the verdict
  opening,  \* Opened: "unread", "open", "failed"
  next,     \* which chunk comes next
  unread,   \* how much of the chunk at hand is unread
  noMore,   \* Chunked::ended: the end was said
  gave,     \* history: how many bytes the chunks so far had
  got,      \* how many bytes were read
  cycle,    \* where it stands: "held", "read", "tell", "over"
  verdict,  \* the verdict to be told
  told      \* what the far end heard: "nothing" before

arrivalVars == <<chunks, defers, opening, next, unread, noMore, gave, got, cycle, verdict, told>>

ArrivalInit ==
  /\ chunks \in UNION {[1..n -> 0..MaxChunk] : n \in 0..MaxChunks}
  /\ defers \in BOOLEAN
  /\ opening = "unread" /\ next = 1 /\ unread = 0 /\ noMore = FALSE
  /\ gave = 0 /\ got = 0
  /\ cycle = "held" /\ verdict = "none" /\ told = "nothing"

arrivedOf == <<chunks, defers>>
bodyOf    == <<opening, next, unread, noMore, gave, got>>

CycleGoes(from, to) == cycle = from /\ cycle' = to

TakeWhole ==
  /\ CycleGoes("held", "read")
  /\ UNCHANGED <<arrivedOf, bodyOf, verdict, told>>

\* Refused, or failed, its body dropped unread.
TellUnread ==
  /\ CycleGoes("held", "tell")
  /\ verdict' \in {"refused", "failed"}
  /\ UNCHANGED <<arrivedOf, bodyOf, told>>

\* The first read opens it.
OpenBody ==
  /\ cycle = "read" /\ opening = "unread"
  /\ opening' = "open"
  /\ UNCHANGED <<arrivedOf, next, unread, noMore, gave, got, cycle, verdict, told>>

\* The chunk at hand is read on.
ReadChunk ==
  /\ cycle = "read" /\ unread > 0
  /\ \E n \in 1..unread : got' = got + n /\ unread' = unread - n
  /\ UNCHANGED <<arrivedOf, opening, next, noMore, gave, cycle, verdict, told>>

\* The next chunk, empty or not, or the end.
NextChunk ==
  /\ cycle = "read" /\ opening = "open" /\ unread = 0 /\ ~noMore
  /\ IF next <= Len(chunks)
     THEN /\ unread' = chunks[next] /\ gave' = gave + chunks[next]
          /\ next' = next + 1 /\ UNCHANGED noMore
     ELSE noMore' = TRUE /\ UNCHANGED <<unread, gave, next>>
  /\ UNCHANGED <<arrivedOf, opening, got, cycle, verdict, told>>

\* MUTANT of Ends: a chunk read out, nothing at hand.
EndsEmpty == opening = "open" /\ next > 1 /\ unread = 0

\* Only the end said ends it.
Ends == noMore /\ unread = 0

\* Read whole: accepted.
ReadToEnd ==
  /\ Ends
  /\ CycleGoes("read", "tell") /\ verdict' = "accepted"
  /\ UNCHANGED <<arrivedOf, bodyOf, told>>

\* Opening it, or a chunk of it, failed: a failed cycle.
BodyFails ==
  /\ CycleGoes("read", "tell") /\ verdict' = "failed"
  /\ \/ opening = "unread" /\ opening' = "failed"
     \/ opening = "open" /\ unread = 0 /\ ~noMore /\ UNCHANGED opening
  /\ UNCHANGED <<arrivedOf, next, unread, noMore, gave, got, told>>

\* The far end is told, and nothing happens where it does not wait; or it could
\* not be told.
Acknowledge ==
  /\ CycleGoes("tell", "over")
  /\ told' \in (IF defers THEN {verdict, "nothing"} ELSE {"nothing"})
  /\ UNCHANGED <<arrivedOf, bodyOf, verdict>>

ArrivalNext ==
  \/ TakeWhole \/ TellUnread \/ OpenBody \/ ReadChunk \/ NextChunk
  \/ ReadToEnd \/ BodyFails \/ Acknowledge

ArrivalSpec == ArrivalInit /\ [][ArrivalNext]_arrivalVars

-----------------------------------------------------------------------------

ArrivalTypeOK ==
  /\ chunks \in Seq(0..MaxChunk) /\ defers \in BOOLEAN
  /\ opening \in {"unread", "open", "failed"}
  /\ next \in 1..(Len(chunks) + 1) /\ unread \in 0..MaxChunk /\ noMore \in BOOLEAN
  /\ gave \in Nat /\ got \in Nat /\ gave = got + unread
  /\ cycle \in {"held", "read", "tell", "over"}
  /\ verdict \in {"none", "accepted", "refused", "failed"}
  /\ told \in {"nothing", "accepted", "refused", "failed"}

\* The far end hears that its arrival was accepted only where every chunk it
\* would hand over was read, the empty ones passed, and no more: one whose body
\* broke anywhere is failed, and kept there (arrived.rs, body.rs).
AcceptedWasReadWhole ==
  told = "accepted" => next > Len(chunks) /\ got = gave

=============================================================================
