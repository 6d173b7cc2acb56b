------------------------------- MODULE Stuffed -------------------------------
(***************************************************************************)
(* The dot-stuffed block mail speaks (stuffed.rs): a period doubled where  *)
(* one starts a line, ended by a line that is one period, and read back    *)
(* line by line up to the end of the first.  A peer writes block after     *)
(* block on one connection, and may close it anywhere.                     *)
(***************************************************************************)
EXTENDS Naturals, Sequences, SequencesExt

CONSTANTS
  CR, LF, Dot,  \* the bytes that matter
  Bytes,        \* every byte there is
  MaxBody,      \* bound: the longest body
  MaxBlocks,    \* bound: blocks written on one connection
  MaxBlock,     \* max: the longest block read
  MaxWire       \* bound: bytes written and not read

ASSUME StuffedAssumption ==
  /\ CR # LF /\ CR # Dot /\ LF # Dot /\ {CR, LF, Dot} \subseteq Bytes
  /\ MaxBody \in Nat /\ MaxBlocks \in Nat /\ MaxBlock \in Nat /\ MaxWire \in Nat

VARIABLES
  wire,     \* what was written and not read
  block,    \* what was read of the block under way
  wrote,    \* history: the bodies written
  gotBack,  \* the bodies read back
  closed,   \* the peer closed
  broken    \* a read failed: the connection is given up

stuffedVars == <<wire, block, wrote, gotBack, closed, broken>>

Bodies == UNION {[1..n -> Bytes] : n \in 0..MaxBody}

StuffedInit ==
  /\ wire = <<>> /\ block = <<>> /\ wrote = <<>> /\ gotBack = <<>>
  /\ closed = FALSE /\ broken = FALSE

Terminator == <<CR, LF, Dot, CR, LF>>

\* A line starts first of all, and after every CR LF.
StartsLine(bytes, i) == i = 1 \/ (i > 2 /\ bytes[i - 2] = CR /\ bytes[i - 1] = LF)

Stuff(bytes) ==
  FlattenSeq([i \in DOMAIN bytes |->
    IF bytes[i] = Dot /\ StartsLine(bytes, i) THEN <<Dot, Dot>> ELSE <<bytes[i]>>]) \o Terminator

\* A doubled period at a line's start back to one.
Unstuff(body) ==
  LET Undone(i) == i < Len(body) /\ body[i] = Dot /\ body[i + 1] = Dot /\ StartsLine(body, i)
  IN  FlattenSeq([i \in DOMAIN body |-> IF Undone(i) THEN <<>> ELSE <<body[i]>>])

WriteBlock(body) ==
  /\ ~closed /\ Len(wrote) < MaxBlocks /\ Len(wire) + Len(Stuff(body)) <= MaxWire
  /\ wrote' = Append(wrote, body)
  /\ wire' = wire \o Stuff(body)
  /\ UNCHANGED <<block, gotBack, closed, broken>>

\* The peer closes, part of what it had to say unsaid.
ClosePart ==
  /\ ~closed /\ closed' = TRUE
  /\ \E n \in 0..Len(wire) : wire' = SubSeq(wire, 1, n)
  /\ UNCHANGED <<block, wrote, gotBack, broken>>

OnlyPeriod == <<Dot, CR, LF>>

\* MUTANT of IsBlockEnd: any line that is one period.
IsBlockEndByLine(bytes) == bytes = OnlyPeriod \/ IsSuffix(<<LF>> \o OnlyPeriod, bytes)

\* The line that is one period first of all, or the terminator.
IsBlockEnd(bytes) == bytes = OnlyPeriod \/ IsSuffix(Terminator, bytes)

BodyOf(bytes) ==
  IF bytes = OnlyPeriod THEN <<>>
  ELSE Unstuff(SubSeq(bytes, 1, Len(bytes) - Len(Terminator)))

\* One more line, n bytes to its LF.
IsLine(n) == wire[n] = LF /\ \A m \in 1..(n - 1) : wire[m] # LF
TooLong(n) == Len(block) + n > MaxBlock + Len(Terminator)

ReadLine ==
  /\ ~broken
  /\ \E n \in DOMAIN wire :
       LET bytes == block \o SubSeq(wire, 1, n) IN
       /\ IsLine(n) /\ ~TooLong(n)
       /\ block' = IF IsBlockEnd(bytes) THEN <<>> ELSE bytes
       /\ gotBack' = IF IsBlockEnd(bytes) THEN Append(gotBack, BodyOf(bytes)) ELSE gotBack
       /\ wire' = SubSeq(wire, n + 1, Len(wire))
  /\ UNCHANGED <<wrote, closed, broken>>

\* The peer closed before the line's end, or the block passed what is read.
ReadLineFails ==
  /\ ~broken /\ broken' = TRUE
  /\ \/ closed /\ LF \notin ToSet(wire)
     \/ \E n \in DOMAIN wire : IsLine(n) /\ TooLong(n)
  /\ UNCHANGED <<wire, block, wrote, gotBack, closed>>

StuffedNext == (\E body \in Bodies : WriteBlock(body)) \/ ClosePart \/ ReadLine \/ ReadLineFails

StuffedSpec == StuffedInit /\ [][StuffedNext]_stuffedVars

-----------------------------------------------------------------------------

StuffedTypeOK ==
  /\ wire \in Seq(Bytes) /\ block \in Seq(Bytes)
  /\ wrote \in Seq(Bodies) /\ gotBack \in Seq(Seq(Bytes))
  /\ closed \in BOOLEAN /\ broken \in BOOLEAN

\* Each block reads back as the body written, in their order, whatever lines and
\* periods are in it and wherever the next begins, and none whose end was not
\* said: "so what was sent is what arrives" (stuffed.rs).
BlocksReadBack == IsPrefix(gotBack, wrote)

=============================================================================
