------------------------------- MODULE Store -------------------------------
(***************************************************************************)
(* A receive from a store of named things that holds them until they are   *)
(* deleted and has no lock, lease or rejected place: the objects of a      *)
(* bucket (listed.rs), fetched when their body is first read (body.rs), or *)
(* the rows of a table (sql/accept.rs), read with the query.  What a cycle *)
(* refused is left and remembered with its stamp (refused.rs), and each    *)
(* arrival is told its verdict once its body was read or not (arrived.rs,  *)
(* acknowledgement.rs).                                                    *)
(*                                                                         *)
(* What a producer writes is a version, stamped anew: its ETag, or the     *)
(* hash of the row's body.  A listing names what lies there in one order,   *)
(* which is the order of the names.                                        *)
(***************************************************************************)
EXTENDS Naturals, FiniteSets

CONSTANTS
  Tables,      \* what it may be: TRUE for a table, FALSE for a bucket
  Places,      \* how many names things lie under, 1..Places, listed in order
  Most,        \* what one receive hands over at most
  Overwrites,  \* whether producers write over what lies there, not refused
  MaxWritten,  \* bound: versions ever written
  MaxStorms    \* bound: failures and deaths

ASSUME StoreAssumption ==
  /\ Tables \subseteq BOOLEAN /\ Tables # {}
  /\ Places \in Nat \ {0} /\ Most \in Nat \ {0} /\ Overwrites \in BOOLEAN
  /\ MaxWritten \in Nat /\ MaxStorms \in Nat

VARIABLES
  table,     \* whether it is a table whose query reads the bodies
  accepts,   \* whether accepting deletes: false where there is no statement
  lying,     \* the version under each name, 0 for none
  written,   \* how many versions were written
  illegible, \* a version no receive can read, 0 for none (bound: one)
  refused,   \* Refused::held: the stamp remembered for each name, 0 for none
  listing,   \* what the receive under way listed; {} between receives
  cycles,    \* the arrivals in their cycles
  accepted,  \* history: the versions a cycle accepted
  setAside,  \* history: the versions refused since the node started
  deleted,   \* history: the versions this node deleted
  storms     \* count, for the bound

histories == <<accepted, setAside, deleted>>
stored    == <<table, accepts, lying, written, illegible>>
storeVars == <<table, accepts, lying, written, illegible, refused, listing, cycles,
               accepted, setAside, deleted, storms>>

Named    == 1..Places
Versions == 1..MaxWritten

\* An arrival: its name, its stamp as listed, its body once read, and how far
\* its cycle came.
Cycle == [name : Named, stamp : Versions, body : 0..MaxWritten, stage : {"carried", "accepted"}]

StoreInit ==
  /\ table \in Tables /\ accepts \in {TRUE, table => FALSE}
  /\ lying = [n \in Named |-> 0] /\ written = 0 /\ illegible = 0
  /\ refused = [n \in Named |-> 0]
  /\ listing = {} /\ cycles = {}
  /\ accepted = {} /\ setAside = {} /\ deleted = {}
  /\ storms = 0

-----------------------------------------------------------------------------
(* The producers.                                                          *)

\* Written under a name that is free, or again where it was refused or cannot
\* be read; over what a cycle may be carrying only where Overwrites says so.
\* One may be such that no receive can read it: a value the technology's bytes
\* refuses, an entry without its name or its stamp.
Produce(n) ==
  /\ written < MaxWritten
  /\ Overwrites \/ lying[n] \in {0, refused[n], illegible}
  /\ written' = written + 1
  /\ illegible' \in IF illegible = 0 THEN {0, written + 1} ELSE {illegible}
  /\ lying' = [lying EXCEPT ![n] = written + 1]
  /\ UNCHANGED <<table, accepts, refused, listing, cycles, histories, storms>>

-----------------------------------------------------------------------------
(* The receive: its arrivals are told before the next one.                 *)

Lies == {n \in Named : lying[n] # 0}

\* The listing, or the query: what lies there, each with its stamp.  One that
\* fails is asked again and changes nothing.
ListStore ==
  /\ cycles = {} /\ listing = {} /\ Lies # {}
  /\ listing' = {[name |-> n, stamp |-> lying[n]] : n \in Lies}
  /\ UNCHANGED <<stored, refused, cycles, histories, storms>>

\* The item lies as it was refused.
AsRefused(item) == refused[item.name] = item.stamp

Sifted == {item \in listing : ~AsRefused(item)}

\* The first of these items, in the order of their names, as many as are handed
\* over at most.
First(items) == {item \in items : Cardinality({other \in items : other.name < item.name}) < Most}


\* What the receive hands over: the first of what was not refused.
Window == First(Sifted)

\* Everything the listing names has its name and its stamp, and the values of
\* the rows are ones their technology takes.
Legible == \A item \in listing : item.stamp # illegible

\* One of them is not: the whole receive fails, and forgets nothing.
ReceiveFails ==
  /\ listing # {} /\ ~Legible
  /\ listing' = {}
  /\ UNCHANGED <<stored, refused, cycles, histories, storms>>

\* Refusals not listed, or listed with another stamp, are forgotten; the rest
\* is handed over, a row's body with it.
HandOver ==
  /\ listing # {} /\ Legible
  /\ cycles' = {[name |-> item.name, stamp |-> item.stamp,
                 body |-> IF table THEN item.stamp ELSE 0, stage |-> "carried"] :
                  item \in Window}
  /\ refused' = [n \in Named |->
       IF \E item \in listing : item.name = n /\ AsRefused(item) THEN refused[n] ELSE 0]
  /\ listing' = {}
  /\ UNCHANGED <<stored, histories, storms>>

-----------------------------------------------------------------------------
(* One arrival's cycle.                                                    *)

CycleEnds(c) == cycles' = cycles \ {c}
Becomes(c, d) == cycles' = (cycles \ {c}) \cup {d}

Storm == storms < MaxStorms /\ storms' = storms + 1

\* The body is first read: fetched by its name.
Fetch(c) ==
  /\ c.stage = "carried" /\ c.body = 0 /\ lying[c.name] # 0
  /\ Becomes(c, [c EXCEPT !.body = lying[c.name]])
  /\ UNCHANGED <<stored, refused, listing, histories, storms>>

\* Nothing lies there any more, or the read or the cycle failed: it is left.
Fail(c) ==
  /\ c.stage = "carried"
  /\ CycleEnds(c)
  /\ IF c.body = 0 /\ lying[c.name] = 0 THEN UNCHANGED storms ELSE Storm
  /\ UNCHANGED <<stored, refused, listing, histories>>

\* The item is remembered as its listing stamped it.
Remembers(c) == refused' = [refused EXCEPT ![c.name] = c.stamp]

\* Refused, its body read or not: left where it lies.
Refuse(c) ==
  /\ c.stage = "carried"
  /\ Remembers(c)
  /\ setAside' = setAside \cup {c.stamp}
  /\ CycleEnds(c)
  /\ UNCHANGED <<stored, listing, accepted, deleted, storms>>

\* The cycle completed: what it read is durably Xmip's.
AcceptRead(c) ==
  /\ c.stage = "carried" /\ c.body # 0
  /\ accepted' = accepted \cup {c.body}
  /\ Becomes(c, [c EXCEPT !.stage = "accepted"])
  /\ UNCHANGED <<stored, refused, listing, setAside, deleted, storms>>

\* MUTANT of DeletesOn: a refusal deletes too.
DeletesOnAnyVerdict(c) == c.stage = "accepted" \/ c.body # 0

\* The verdict that consumes.
DeletesOn(c) == c.stage = "accepted"

\* Deleted by its name, or the statement run for it.
Delete(c) ==
  /\ DeletesOn(c)
  /\ lying' = IF accepts THEN [lying EXCEPT ![c.name] = 0] ELSE lying
  /\ deleted' = IF accepts THEN deleted \cup ({lying[c.name]} \ {0}) ELSE deleted
  /\ CycleEnds(c)
  /\ UNCHANGED <<table, accepts, written, illegible, refused, listing, accepted, setAside, storms>>

\* Deleting failed: it will be delivered again.
DeleteFails(c) ==
  /\ c.stage = "accepted"
  /\ Storm
  /\ CycleEnds(c)
  /\ UNCHANGED <<stored, refused, listing, histories>>

\* The node dies and starts: what it remembered is gone with it.
Die ==
  /\ Storm
  /\ listing' = {} /\ cycles' = {}
  /\ refused' = [n \in Named |-> 0] /\ setAside' = {}
  /\ UNCHANGED <<stored, accepted, deleted>>

Carried(c)   == Fetch(c) \/ Fail(c) \/ Refuse(c) \/ AcceptRead(c) \/ Delete(c) \/ DeleteFails(c)
CarryAny     == \E c \in cycles : Carried(c)
ReceiveStore == ListStore \/ HandOver \/ ReceiveFails

StoreNext == (\E n \in Named : Produce(n)) \/ ReceiveStore \/ CarryAny \/ Die

StoreSpec == StoreInit /\ [][StoreNext]_storeVars

\* The Location receives again, and every cycle ends.
StoreFairness == WF_storeVars(ReceiveStore) /\ WF_storeVars(CarryAny)

-----------------------------------------------------------------------------

StoreTypeOK ==
  /\ table \in Tables /\ accepts \in BOOLEAN /\ (~table => accepts)
  /\ lying \in [Named -> 0..MaxWritten] /\ written \in 0..MaxWritten
  /\ illegible \in 0..written
  /\ refused \in [Named -> 0..MaxWritten]
  /\ listing \in SUBSET [name : Named, stamp : Versions]
  /\ cycles \in SUBSET Cycle /\ Cardinality(cycles) <= Most
  /\ accepted \in SUBSET Versions /\ setAside \in SUBSET Versions /\ deleted \in SUBSET Versions
  /\ storms \in 0..MaxStorms

\* Only what a cycle read and accepted is ever deleted: a refusal, a failure or
\* a death destroys nothing, "at least once, never a loss" (listed.rs).
DeletedWasAccepted == deleted \subseteq accepted

\* Something lies there that no receive can read.
Spoilt == \E n \in Named : lying[n] # 0 /\ lying[n] = illegible


=============================================================================
