------------------------------- MODULE Pinned -------------------------------
(***************************************************************************)
(* The keys far ends presented on first contact (pinned.rs), kept in a     *)
(* file of lines and read from it at a process's first hold.  Connections  *)
(* hold their far ends to the keys they present, one at a time under the   *)
(* lock; an append or its sync fails, the process dies at any step and     *)
(* another reads the file again.  A line is a key, a space, a name and its *)
(* end; no name begins another.                                            *)
(***************************************************************************)
EXTENDS Naturals, Sequences, FiniteSets

CONSTANTS
  FarEnds,     \* the far ends' names
  Keys,        \* the fingerprints they present
  NoKey,       \* no fingerprint
  SpoiltKey,   \* part of a key with a key after it: no far end presents it
  MaxLines,    \* bound: lines appended
  MaxTroubles  \* bound: failures and deaths

ASSUME PinnedAssumption ==
  /\ NoKey \notin Keys \cup {SpoiltKey} /\ SpoiltKey \notin Keys
  /\ MaxLines \in Nat /\ MaxTroubles \in Nat

VARIABLES
  file,      \* the file's whole lines; a line no pin is read from is Torn
  tail,      \* what follows them: how far a line came, and the line if whole
  read,      \* Pinned::held is there: the file was read
  pins,      \* Pinned::held
  holding,   \* the hold under the lock: <<far end, key, step>>, at most one
  trusted,   \* history: the keys a hold accepted for each far end
  joined,    \* history: whose pin's line became one with another's
  troubles   \* count, for the bound

pinnedVars == <<file, tail, read, pins, holding, trusted, joined, troubles>>

Torn == <<>>
Line == [name : FarEnds, key : Keys \cup {SpoiltKey}]
NoTail == <<"none", Torn>>

PinnedInit ==
  /\ file = <<>> /\ tail = NoTail
  /\ read = FALSE /\ pins = [f \in FarEnds |-> NoKey]
  /\ holding = {} /\ trusted = [f \in FarEnds |-> {}] /\ joined = {}
  /\ troubles = 0

Trouble == troubles < MaxTroubles /\ troubles' = troubles + 1

Hold(f, k, step) == holding = {<<f, k, step>>}

\* The lines read: the last one's end may be missing.
Lines == IF tail[2] = Torn THEN file ELSE Append(file, tail[2])

\* The lines that pin f.
PinsOf(f) == {i \in DOMAIN Lines : Lines[i] # Torn /\ Lines[i].name = f}

\* MUTANT of ReadPins: the first line's key.
ReadPinsFirst ==
  [f \in FarEnds |->
     IF PinsOf(f) = {} THEN NoKey
     ELSE Lines[CHOOSE i \in PinsOf(f) : \A j \in PinsOf(f) : i <= j].key]

\* What the file pins: for each far end its last line's key.
ReadPins ==
  [f \in FarEnds |->
     IF PinsOf(f) = {} THEN NoKey
     ELSE Lines[CHOOSE i \in PinsOf(f) : \A j \in PinsOf(f) : j <= i].key]

\* The lock is had, the file read where it was not yet; or it cannot be read.
BeginHold(f, k) ==
  /\ holding = {}
  /\ \/ /\ holding' = {<<f, k, "judge">>}
        /\ read' = TRUE
        /\ pins' = IF read THEN pins ELSE ReadPins
        /\ UNCHANGED troubles
     \/ /\ ~read /\ Trouble
        /\ UNCHANGED <<holding, read, pins>>
  /\ UNCHANGED <<file, tail, trusted, joined>>

Accepts(f, k) == trusted' = [trusted EXCEPT ![f] = @ \cup {k}]

\* The key pinned is held, another is refused, and where none is pinned it is
\* to be appended.
Judge(f, k) ==
  /\ Hold(f, k, "judge")
  /\ holding' = IF pins[f] = NoKey THEN {<<f, k, "append">>} ELSE {}
  /\ IF pins[f] = k THEN Accepts(f, k) ELSE UNCHANGED trusted
  /\ UNCHANGED <<file, tail, read, pins, joined, troubles>>

\* The line that f is pinned to k with, were it written after what is there.
LineOf(f, k) == [name |-> f, key |-> IF tail[1] = "key" THEN SpoiltKey ELSE k]

\* What is there already has a name, or part of one: what follows is part of it.
InName == tail[1] \in {"name", "line"}

\* The far end whose line loses its name, once something follows it.
LosesName == IF tail[1] = "line" THEN {tail[2].name} ELSE {}

\* A line written to its end.
Appended(f, k) ==
  /\ file' = Append(file, IF InName THEN Torn ELSE LineOf(f, k))
  /\ tail' = NoTail
  /\ joined' = joined \cup LosesName \cup (IF InName THEN {f} ELSE {})

\* A line written so far: into its key, into its name, or all but its end.
PartAppended(f, k, far) ==
  /\ tail' = IF InName THEN <<"name", Torn>>
             ELSE IF far = "line" THEN <<far, LineOf(f, k)>>
             ELSE <<far, Torn>>
  /\ joined' = joined \cup LosesName
  /\ UNCHANGED file

\* Appended and synced, then pinned: accepted.
AppendPin(f, k) ==
  /\ Hold(f, k, "append") /\ Len(file) < MaxLines
  /\ Appended(f, k)
  /\ pins' = [pins EXCEPT ![f] = k]
  /\ Accepts(f, k)
  /\ holding' = {}
  /\ UNCHANGED <<read, troubles>>

\* The append fails before its line is there, after it is, or between: the hold
\* fails, and pins nothing.
AppendFails(f, k) ==
  /\ Hold(f, k, "append") /\ Trouble
  /\ \/ UNCHANGED <<file, tail, joined>>
     \/ Len(file) < MaxLines /\ Appended(f, k)
     \/ \E far \in {"key", "name", "line"} : PartAppended(f, k, far)
  /\ holding' = {}
  /\ UNCHANGED <<read, pins, trusted>>

\* The process dies and another runs.
Restart ==
  /\ Trouble
  /\ read' = FALSE /\ pins' = [f \in FarEnds |-> NoKey] /\ holding' = {}
  /\ UNCHANGED <<file, tail, trusted, joined>>

PinnedNext ==
  \/ \E f \in FarEnds, k \in Keys :
       BeginHold(f, k) \/ Judge(f, k) \/ AppendPin(f, k) \/ AppendFails(f, k)
  \/ Restart

PinnedSpec == PinnedInit /\ [][PinnedNext]_pinnedVars

-----------------------------------------------------------------------------

PinnedTypeOK ==
  /\ file \in Seq(Line \cup {Torn}) /\ read \in BOOLEAN
  /\ tail \in ({"none", "key", "name"} \X {Torn}) \cup ({"line"} \X Line)
  /\ pins \in [FarEnds -> Keys \cup {NoKey, SpoiltKey}]
  /\ holding \in SUBSET (FarEnds \X Keys \X {"judge", "append"}) /\ Cardinality(holding) <= 1
  /\ trusted \in [FarEnds -> SUBSET Keys] /\ joined \in SUBSET FarEnds
  /\ troubles \in 0..MaxTroubles

\* "a node started again holds its far ends to the keys they presented before"
\* (pinned.rs): a far end is trusted under one key for good.
OneKeyForGood == \A f \in FarEnds : Cardinality(trusted[f]) <= 1

\* Over every failed append, death and restart, and however many lines were
\* written for it by holds that failed, a far end is trusted under one key for
\* good; but for one whose line became one with the line before or after it,
\* where an append stopped short of its line's end (Pinned::hold, append).
OneKeyUnlessJoined ==
  \A f \in FarEnds \ joined : Cardinality(trusted[f]) <= 1

=============================================================================
