------------------------------ MODULE Custody ------------------------------
(***************************************************************************)
(* What a claim promises of each version a producer writes (claim.rs,      *)
(* claim/site.rs): it lies under its name, or is in the hands of the one   *)
(* node that claimed it, until that node consumes it or lets it lie again  *)
(* under the name it had, free by then.  Nodes that race, calls that fail  *)
(* and nodes that die are not seen here: none of them changes where a      *)
(* version is.  Claim is shown to implement this (Claim!KeepsCustody).     *)
(***************************************************************************)
EXTENDS Naturals

CONSTANTS Nodes, Names

VARIABLES
  lying,     \* the version lying under each name, 0 for none
  hands,     \* who holds which version, and the name it had
  drops,     \* versions written so far; the last one's number
  consumed,  \* versions deleted by the node that held them
  replaced   \* versions a producer wrote over

custody == <<lying, hands, drops, consumed, replaced>>

Init ==
  /\ lying = [x \in Names |-> 0]
  /\ hands = {}
  /\ drops = 0
  /\ consumed = {}
  /\ replaced = {}

\* A producer writes; only it may replace what lies there.
Write(x) ==
  /\ drops'    = drops + 1
  /\ lying'    = [lying EXCEPT ![x] = drops + 1]
  /\ replaced' = replaced \cup ({lying[x]} \ {0})
  /\ UNCHANGED <<hands, consumed>>

\* A node claims what lies under x.
Claim(n, x) ==
  /\ lying[x] # 0
  /\ hands' = hands \cup {<<n, x, lying[x]>>}
  /\ lying' = [lying EXCEPT ![x] = 0]
  /\ UNCHANGED <<drops, consumed, replaced>>

\* What a node holds lies under its name again, where nothing does.
Return(n, x, v) ==
  /\ <<n, x, v>> \in hands
  /\ lying[x] = 0
  /\ hands' = hands \ {<<n, x, v>>}
  /\ lying' = [lying EXCEPT ![x] = v]
  /\ UNCHANGED <<drops, consumed, replaced>>

\* What a node holds is consumed, on its Accepted verdict.
Consume(n, x, v) ==
  /\ <<n, x, v>> \in hands
  /\ hands' = hands \ {<<n, x, v>>}
  /\ consumed' = consumed \cup {v}
  /\ UNCHANGED <<lying, drops, replaced>>

Next ==
  \/ \E x \in Names : Write(x)
  \/ \E n \in Nodes, x \in Names :
       Claim(n, x) \/ \E v \in 1..drops : Return(n, x, v) \/ Consume(n, x, v)

Spec == Init /\ [][Next]_custody

=============================================================================
