------------------------------ MODULE Together ------------------------------
(***************************************************************************)
(* Arrivals whose far end settles them together, once the last of them has *)
(* its verdict (together.rs).  Each arrival's acknowledgement is told on   *)
(* the thread that carried it, or dropped; telling it runs what its own    *)
(* verdict does at the far end, and then counts it in the tally, under the *)
(* tally's lock; the last one counted takes what settles them, and runs it *)
(* outside the lock.                                                       *)
(***************************************************************************)
EXTENDS Naturals, Sequences, FiniteSets

CONSTANTS Count  \* how many arrivals one receive handed over

ASSUME TogetherAssumption == Count \in Nat \ {0}

VARIABLES
  stage,     \* each acknowledgement: "held", "each", "count", "settle", "over"
  given,     \* the verdict it counts with, "none" where it was dropped
  verdicts,  \* Tally::verdicts
  left,      \* Tally::left
  settle,    \* Tally::settle is there still
  settled    \* history: what settle was run with, each time

togetherVars == <<stage, given, verdicts, left, settle, settled>>

Group    == 1..Count
Told     == {"accepted", "refused", "failed"}
Verdicts == Told \cup {"none"}

TogetherInit ==
  /\ stage    = [at \in Group |-> "held"]
  /\ given    = [at \in Group |-> "none"]
  /\ verdicts = [at \in Group |-> "none"]
  /\ left     = Count
  /\ settle   = TRUE
  /\ settled  = <<>>

Goes(at, from, to) ==
  /\ stage[at] = from
  /\ stage' = [stage EXCEPT ![at] = to]

\* The verdict is told.
TellOne(at, verdict) ==
  /\ Goes(at, "held", "each")
  /\ given' = [given EXCEPT ![at] = verdict]
  /\ UNCHANGED <<verdicts, left, settle, settled>>

\* What the verdict does of its own runs, or fails: counted all the same.
EachRuns(at) ==
  /\ Goes(at, "each", "count")
  /\ UNCHANGED <<given, verdicts, left, settle, settled>>

\* It panics: the place is dropped uncounted.
EachPanics(at) ==
  /\ Goes(at, "each", "count")
  /\ given' = [given EXCEPT ![at] = "none"]
  /\ UNCHANGED <<verdicts, left, settle, settled>>

\* MUTANT of DropOne: one dropped counts nothing.
DropOneUncounted(at) ==
  /\ Goes(at, "held", "over")
  /\ UNCHANGED <<given, verdicts, left, settle, settled>>

\* The acknowledgement is dropped without a verdict.
DropOne(at) ==
  /\ Goes(at, "held", "count")
  /\ UNCHANGED <<given, verdicts, left, settle, settled>>

\* MUTANT of IsLast: whoever finds the settling there.
IsLastToLook == settle

\* Every other arrival was counted.
IsLast == left = 1

\* Counted under the lock; the last takes the settling out of the tally.
Counted(at) ==
  /\ stage[at] = "count"
  /\ verdicts' = [verdicts EXCEPT ![at] = given[at]]
  /\ left' = left - 1
  /\ stage' = [stage EXCEPT ![at] = IF IsLast THEN "settle" ELSE "over"]
  /\ settle' = (settle /\ ~IsLast)
  /\ UNCHANGED <<given, settled>>

\* Settled with all of them, outside the lock.
Settles(at) ==
  /\ Goes(at, "settle", "over")
  /\ settled' = Append(settled, verdicts)
  /\ UNCHANGED <<given, verdicts, left, settle>>

Carries(at) == EachRuns(at) \/ EachPanics(at) \/ Counted(at) \/ Settles(at)

TogetherNext ==
  \E at \in Group :
    \/ \E verdict \in Told : TellOne(at, verdict)
    \/ DropOne(at)
    \/ Carries(at)

TogetherSpec == TogetherInit /\ [][TogetherNext]_togetherVars

\* Threads go on.
TogetherFairness == \A at \in Group : WF_togetherVars(Carries(at))

-----------------------------------------------------------------------------

Stages == {"held", "each", "count", "settle", "over"}

TogetherTypeOK ==
  /\ stage \in [Group -> Stages]
  /\ given \in [Group -> Verdicts] /\ verdicts \in [Group -> Verdicts]
  /\ left \in 0..Count /\ settle \in BOOLEAN
  /\ settled \in Seq([Group -> Verdicts])

\* The group is settled once at most, after every arrival has its verdict or
\* was dropped, with exactly what each one came to: never as accepted where
\* one was let go or its cycle failed (together.rs).
SettledAfterTheLast ==
  /\ Len(settled) <= 1
  /\ settled # <<>> => /\ \A at \in Group : stage[at] = "over"
                       /\ settled[1] = given

\* Once every acknowledgement was told or dropped, the group is settled: one
\* that failed at the far end or was let go holds nobody back (together.rs).
EveryGroupIsSettled ==
  (\A at \in Group : stage[at] # "held") ~> settled # <<>>

=============================================================================
