----------------------------- MODULE Contiguous -----------------------------
(***************************************************************************)
(* A place in an ordered log that a verdict moves only contiguously        *)
(* (contiguous.rs).  A receive takes where the place stands, reads some    *)
(* records on from there and hands each out with an acknowledgement of its *)
(* own; the verdicts are told on other threads, in any order, while the    *)
(* log is read again from wherever the place then stands, so one record    *)
(* may be out several times.  Positions are numbered: record r is the one  *)
(* read after r - 1.                                                       *)
(***************************************************************************)
EXTENDS Naturals

CONSTANTS
  Records,    \* the records of the log, 1..Records
  MostRead,   \* what one receive reads at most
  MaxOut,     \* bound: how often one record is out at once
  MaxUndone,  \* bound: verdicts Failed, and acknowledgements dropped
  MaxSet      \* bound: how often a Location starts reading

ASSUME ContiguousAssumption ==
  /\ Records \in Nat /\ MostRead \in Nat \ {0}
  /\ MaxOut \in Nat /\ MaxUndone \in Nat /\ MaxSet \in Nat

VARIABLES
  place,    \* Contiguous: where the place stands
  reading,  \* where the receive under way reads on from: at most one
  out,      \* how many acknowledgements of each record are out
  ended,    \* history: the records accepted or refused for good
  began,    \* history: where the place was last set
  undone,   \* count, for the bound
  sets      \* count, for the bound

contiguousVars == <<place, reading, out, ended, began, undone, sets>>

Log == 1..Records

ContiguousInit ==
  /\ place = 0 /\ began = 0
  /\ reading = {}
  /\ out = [r \in Log |-> 0]
  /\ ended = {}
  /\ undone = 0 /\ sets = 0

\* Where a Location starts reading, whatever was accepted.
SetPlace ==
  /\ sets < MaxSet
  /\ sets' = sets + 1
  /\ place' \in 0..Records
  /\ began' = place'
  /\ UNCHANGED <<reading, out, ended, undone>>

\* A receive looks where the place stands.
LookAt ==
  /\ reading = {}
  /\ reading' = {place}
  /\ UNCHANGED <<place, out, ended, began, undone, sets>>

\* What it reads from there, n records or to the log's end, is handed out.
ReadOn(n) ==
  \E from \in reading :
    LET read == {r \in Log : from < r /\ r <= from + n}
    IN  /\ \A r \in read : out[r] < MaxOut
        /\ out' = [r \in Log |-> IF r \in read THEN out[r] + 1 ELSE out[r]]
        /\ reading' = {}
        /\ UNCHANGED <<place, ended, began, undone, sets>>

\* MUTANT of Advance: wherever it stands before.
AdvancePast(from, to) == place' = IF place <= from THEN to ELSE place

\* The place moves from from to to, only where it stands at from.
Advance(from, to) == place' = IF place = from THEN to ELSE place

\* MUTANT of Advances: a refused record is not passed.
AdvancesAccepted == {"accepted"}

\* The verdicts that move the place.
Advances == {"accepted", "refused"}

\* An acknowledgement of record r is told its verdict: it is gone.
TellRecord(r, verdict) ==
  /\ out[r] > 0
  /\ verdict = "failed" => undone < MaxUndone
  /\ out' = [out EXCEPT ![r] = @ - 1]
  /\ IF verdict \in Advances THEN Advance(r - 1, r) ELSE UNCHANGED place
  /\ ended' = IF verdict = "failed" THEN ended ELSE ended \cup {r}
  /\ undone'  = IF verdict = "failed" THEN undone + 1 ELSE undone
  /\ UNCHANGED <<reading, began, sets>>

\* It is dropped untold: nothing is answered.
DropRecord(r) ==
  /\ out[r] > 0 /\ undone < MaxUndone
  /\ out' = [out EXCEPT ![r] = @ - 1]
  /\ undone' = undone + 1
  /\ UNCHANGED <<place, reading, ended, began, sets>>

Reads == LookAt \/ \E n \in 1..MostRead : ReadOn(n)

Verdict(r) ==
  \/ \E verdict \in {"accepted", "refused", "failed"} : TellRecord(r, verdict)
  \/ DropRecord(r)

ContiguousNext == SetPlace \/ Reads \/ \E r \in Log : Verdict(r)

ContiguousSpec == ContiguousInit /\ [][ContiguousNext]_contiguousVars

\* The Location receives again, and every cycle ends.
ContiguousFairness ==
  /\ WF_contiguousVars(Reads)
  /\ \A r \in Log : WF_contiguousVars(Verdict(r))

-----------------------------------------------------------------------------

ContiguousTypeOK ==
  /\ place \in 0..Records /\ began \in 0..Records /\ began <= place
  /\ reading \in SUBSET (0..Records)
  /\ out \in [Log -> Nat]
  /\ ended \in SUBSET Log
  /\ undone \in Nat /\ sets \in Nat

\* Every record the place has passed since it was set was accepted or refused
\* for good, whichever copy of it, in whatever order the verdicts came:
\* "at least once, never a skip" (contiguous.rs).
NeverSkips == \A r \in Log : began < r /\ r <= place => r \in ended

\* While receives go on the place comes to the log's end: a record failed
\* or dropped is read again, one refused for good does not hold the rest
\* (contiguous.rs).
PlaceReachesTheEnd == reading # {} ~> place = Records

=============================================================================
