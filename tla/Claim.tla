------------------------------- MODULE Claim -------------------------------
(***************************************************************************)
(* The file family's claim: several nodes, each with one Receive Location, *)
(* race for the artifacts producers drop at one far end (a directory, an   *)
(* FTP or SFTP server).  A node's receive (Claiming::take) lists the far   *)
(* end and claims what is finished: it takes the artifact's turn, asks     *)
(* its stamp again, renames it to a name of its own and drops the turn.    *)
(* The runtime carries each claimed artifact through its cycle and tells   *)
(* the verdict (Claiming::told): Accepted deletes it, anything else        *)
(* returns it, and a return that finds its name taken is held and tried    *)
(* again (Claiming::settle).  A node that starts returns what its name     *)
(* still holds (Claiming::recover).                                        *)
(*                                                                         *)
(* Every call to the far end (a ClaimSite operation) is one step, so       *)
(* nodes, their verdicts and the producers interleave between any two.     *)
(* An artifact's contents and its stamp are one number, the version:       *)
(* each write stamps anew (claim/memory.rs does exactly this).             *)
(*                                                                         *)
(* A call in Failing may fail, and then was carried out or was not: an     *)
(* answer lost on its way back is a failure too.                           *)
(***************************************************************************)
EXTENDS Naturals, FiniteSets

CONSTANTS
  Nodes,       \* the claimants, one Receive Location each
  Names,       \* the names artifacts are dropped under
  Times,       \* bound: the nanoseconds a claimed name carries
  NoNode,      \* a turn nobody holds
  NoName,      \* a receive that is at no artifact
  Most,        \* the room a receive is given (receive_up_to)
  Ordered,     \* Arrivals::Ordered: verdicts told before the next receive
  Tells,       \* whether the far end tells that a writer holds a file
  Overwrites,  \* whether a producer writes again over a lying artifact
  Failing,     \* the far end's operations whose calls may fail
  MaxDrops,    \* bound: how many versions the producers write
  MaxCrashes   \* bound: how many times a node dies and starts again

Operations ==
  {"list", "take_turn", "stamp", "rename", "drop_turn", "restore", "delete"}

ASSUME ClaimAssumption ==
  /\ NoNode \notin Nodes
  /\ NoName \notin Names
  /\ Ordered \in BOOLEAN /\ Tells \in BOOLEAN /\ Overwrites \in BOOLEAN
  /\ Failing \subseteq Operations
  /\ Most \in Nat /\ MaxDrops \in Nat /\ MaxCrashes \in Nat

VARIABLES
  lying,      \* the version lying under each dropped name, 0 for none
  claimed,    \* the version lying under each claimed name, 0 for none
  turns,      \* who holds each artifact's turn
  drops,      \* versions written so far; the last one's number
  crashes,    \* nodes that died so far
  recovering, \* Inner::recovering
  listed,     \* Inner::listed, the stability check's memory
  refused,    \* Inner::refused, each refused name with its stamp
  held,       \* Inner::held, what waits to go back
  settling,   \* the lock on held: whose settle has it, and what that has left
  rx,         \* each node's receive: where take stands, and its locals
  jobs,       \* the claimed artifacts in their cycle, and where each stands
  consumed,   \* history: versions deleted on an Accepted verdict
  replaced,   \* history: versions a producer overwrote
  verdicts,   \* history: versions each node gave a Refused verdict
  setAside    \* history: names lying as the node refused and returned them

site  == <<lying, claimed, turns>>
local == <<recovering, listed, refused, held, settling, rx, jobs>>
past  == <<consumed, replaced, verdicts, setAside>>
vars  == <<lying, claimed, turns, drops, crashes, recovering, listed, refused, held,
           settling, rx, jobs, consumed, replaced, verdicts, setAside>>

Versions == 1..MaxDrops
Stamps   == 0..MaxDrops
NoStamps == [x \in Names |-> 0]

\* A claimed name: the dropped name, the claimant and the time of the claim.
Claims == [dropped : Names, by : Nodes, at : Times]

\* A claimed artifact in its cycle: it waits for its verdict ("carried"),
\* could not go back and is to be entered in held ("hold"), went back refused
\* and its stamp is to be asked ("remember"), or was deleted and what waits
\* for its name is to go back ("settle").
Stages == {"carried", "hold", "remember", "settle"}
Jobs   == [claim : Claims, stage : Stages, refused : BOOLEAN]
Held   == [claim : Claims, refused : BOOLEAN]

\* Where take stands between two calls to the far end.
Places == {"idle", "recover", "turns", "giveback", "hold", "settle", "settling",
           "list", "sift", "examine", "still", "rename", "untake"}
Idle   == [pc |-> "idle", left |-> {}, found |-> NoStamps, rest |-> {},
           name |-> NoName, won |-> {}, taken |-> {}, broken |-> FALSE]
Unlocked == [by |-> "nobody", todo |-> {}, mark |-> {}]

Fails(op) == op \in Failing

Init ==
  /\ lying   = NoStamps
  /\ claimed = [c \in Claims |-> 0]
  /\ turns   = [x \in Names |-> NoNode]
  /\ drops   = 0
  /\ crashes = 0
  /\ recovering = [n \in Nodes |-> TRUE]
  /\ listed     = [n \in Nodes |-> NoStamps]
  /\ refused    = [n \in Nodes |-> NoStamps]
  /\ held       = [n \in Nodes |-> {}]
  /\ settling   = [n \in Nodes |-> Unlocked]
  /\ rx         = [n \in Nodes |-> Idle]
  /\ jobs       = [n \in Nodes |-> {}]
  /\ consumed = {}
  /\ replaced = {}
  /\ verdicts = [n \in Nodes |-> {}]
  /\ setAside = [n \in Nodes |-> {}]

-----------------------------------------------------------------------------
(* The far end's restore.                                                  *)

\* MUTANT of Found: a restore that replaces what was dropped since.
FoundReplacing(c) == IF claimed[c] = 0 THEN "gone" ELSE "back"

\* What restore finds: a newer artifact under the dropped name keeps the
\* claimed one where it is; nothing under the claimed name is nothing to
\* return.
Found(c) ==
  IF lying[c.dropped] # 0 THEN "kept" ELSE IF claimed[c] = 0 THEN "gone" ELSE "back"

\* What the caller is answered: what was found, or a failure, the call
\* carried out ("lost") or not ("failed").
RestoreAnswers(c) ==
  {Found(c)} \cup IF Fails("restore") THEN {"failed", "lost"} ELSE {}

Settled(answer) == answer \in {"back", "gone"}

\* What restore does at the far end, asked by n of an artifact refused or not.
Restore(n, c, answer, isRefused) ==
  /\ answer \in RestoreAnswers(c)
  /\ IF Found(c) = "back" /\ answer # "failed"
     THEN /\ lying'   = [lying EXCEPT ![c.dropped] = claimed[c]]
          /\ claimed' = [claimed EXCEPT ![c] = 0]
          /\ setAside' = IF isRefused
                         THEN [setAside EXCEPT ![n] = @ \cup {c.dropped}]
                         ELSE setAside
     ELSE UNCHANGED <<lying, claimed, setAside>>

\* remember: x entered as refused, as it lies by then.
Remember(n, x) ==
  \/ refused' = IF lying[x] = 0 THEN refused ELSE [refused EXCEPT ![n][x] = lying[x]]
  \/ Fails("stamp") /\ UNCHANGED refused

\* MUTANT of Hold: what could not go back is not held.
HoldForgotten(n, c, isRefused) == UNCHANGED held

\* held.insert: what was held under this claimed name before is replaced.
Hold(n, c, isRefused) ==
  held' = [held EXCEPT ![n] =
             {h \in @ : h.claim # c} \cup {[claim |-> c, refused |-> isRefused]}]

\* The receive of n goes on as r.
Goes(n, r) == rx' = [rx EXCEPT ![n] = r]

\* Nobody settles: the lock on held is free.
Free(n) == settling[n].by = "nobody"

\* settle begun by who, with everything held to try; nothing held is done.
Settle(n, who) ==
  /\ Free(n)
  /\ settling' = IF held[n] = {} THEN settling
                 ELSE [settling EXCEPT ![n] = [by |-> who, todo |-> held[n], mark |-> {}]]

-----------------------------------------------------------------------------
(* take: the node starting.                                                *)

\* take begun.  An ordered Location is asked again only once every verdict
\* of the receive before is told, settle and all.
StartTake(n) ==
  /\ rx[n].pc = "idle"
  /\ Ordered => jobs[n] = {} /\ Free(n)
  /\ recovering' = [recovering EXCEPT ![n] = FALSE]
  /\ Goes(n, [rx[n] EXCEPT !.pc = IF recovering[n] THEN "recover" ELSE "settle"])
  /\ UNCHANGED <<site, drops, crashes, listed, refused, held, settling, jobs, past>>

\* recover failed: take goes on, and a later take recovers again.
RecoverFailed(n) ==
  /\ recovering' = [recovering EXCEPT ![n] = TRUE]
  /\ Goes(n, [rx[n] EXCEPT !.pc = "settle", !.left = {}])

\* MUTANT of Own: whoever claimed it.
OwnAnyones(n, c) == claimed[c] # 0

\* A claim the listing finds that records this node.
Own(n, c) == c.by = n /\ claimed[c] # 0

\* What this node's name still holds, listed, and the files its sends left
\* unfinished removed (they are SendFile's): a refused listing or removal
\* fails the recovery.
RecoverList(n) ==
  /\ rx[n].pc = "recover"
  /\ \/ /\ Goes(n, [rx[n] EXCEPT !.pc = "turns", !.left = {c \in Claims : Own(n, c)}])
        /\ UNCHANGED recovering
     \/ (Fails("list") \/ Fails("delete")) /\ RecoverFailed(n)
  /\ UNCHANGED <<site, drops, crashes, listed, refused, held, settling, jobs, past>>

\* MUTANT of Holds: whose turn it is is not asked.
HoldsUnasked(n, x) == turns[x] # NoNode

\* MUTANT of Holds: a starting node never finds its turns.
HoldsNone(n, x) == FALSE

\* Whether the turn of x names n as its holder.
Holds(n, x) == turns[x] = n

\* A turn this node left, removed; or the turns, or the holder of one, could
\* not be asked.
RecoverTurn(n) ==
  /\ rx[n].pc = "turns"
  /\ \/ \E x \in Names :
          /\ Holds(n, x)
          /\ \/ turns' = [turns EXCEPT ![x] = NoNode] /\ UNCHANGED <<recovering, rx>>
             \/ /\ Fails("drop_turn")
                /\ UNCHANGED turns \/ turns' = [turns EXCEPT ![x] = NoNode]
                /\ RecoverFailed(n)
     \/ Fails("list") /\ RecoverFailed(n) /\ UNCHANGED turns
  /\ UNCHANGED <<lying, claimed, drops, crashes, listed, refused, held, settling, jobs, past>>

RecoverTurnsDone(n) ==
  /\ rx[n].pc = "turns"
  /\ \A x \in Names : ~Holds(n, x)
  /\ Goes(n, [rx[n] EXCEPT !.pc = "giveback"])
  /\ UNCHANGED <<site, drops, crashes, recovering, listed, refused, held, settling, jobs, past>>

\* One of the claims left is given back, or is to be held.
RecoverReturn(n) ==
  /\ rx[n].pc = "giveback"
  /\ \E c \in rx[n].left, answer \in {"back", "gone", "kept", "failed", "lost"} :
       /\ Restore(n, c, answer, FALSE)
       /\ Goes(n, [rx[n] EXCEPT !.left = @ \ {c},
                                !.pc  = IF Settled(answer) THEN "giveback" ELSE "hold",
                                !.won = IF Settled(answer) THEN {} ELSE {c}])
  /\ UNCHANGED <<turns, drops, crashes, recovering, listed, refused, held, settling, jobs,
                 consumed, replaced, verdicts>>

RecoverHold(n) ==
  /\ rx[n].pc = "hold"
  /\ Free(n)
  /\ \E c \in rx[n].won : Hold(n, c, FALSE)
  /\ Goes(n, [rx[n] EXCEPT !.pc = "giveback", !.won = {}])
  /\ UNCHANGED <<site, drops, crashes, recovering, listed, refused, settling, jobs, past>>

RecoverDone(n) ==
  /\ rx[n].pc = "giveback"
  /\ rx[n].left = {}
  /\ Goes(n, [rx[n] EXCEPT !.pc = "settle"])
  /\ UNCHANGED <<site, drops, crashes, recovering, listed, refused, held, settling, jobs, past>>

-----------------------------------------------------------------------------
(* settle, begun by take or by the acknowledgement of a deleted artifact.  *)

TakeSettle(n) ==
  /\ rx[n].pc = "settle"
  /\ Settle(n, "take")
  /\ Goes(n, [rx[n] EXCEPT !.pc = IF held[n] = {} THEN "list" ELSE "settling"])
  /\ UNCHANGED <<site, drops, crashes, recovering, listed, refused, held, jobs, past>>

\* MUTANT of Marks: every returned artifact is remembered as refused.
MarksAll(h, answer) == IF answer = "back" THEN {h.claim.dropped} ELSE {}

\* Whose stamp a settle asks next: the returned artifact's, was it refused.
Marks(h, answer) == IF answer = "back" /\ h.refused THEN {h.claim.dropped} ELSE {}

\* One held artifact asked to go back: forgotten where it did or is gone.
SettleOne(n) ==
  /\ ~Free(n)
  /\ settling[n].mark = {}
  /\ \E h \in settling[n].todo, answer \in {"back", "gone", "kept", "failed", "lost"} :
       /\ Restore(n, h.claim, answer, h.refused)
       /\ settling' = [settling EXCEPT ![n].todo = @ \ {h},
                                              ![n].mark = Marks(h, answer)]
       /\ held' = IF Settled(answer) THEN [held EXCEPT ![n] = @ \ {h}] ELSE held
  /\ UNCHANGED <<turns, drops, crashes, recovering, listed, refused, rx, jobs,
                 consumed, replaced, verdicts>>

SettleRemember(n) ==
  /\ \E x \in settling[n].mark : Remember(n, x)
  /\ settling' = [settling EXCEPT ![n].mark = {}]
  /\ UNCHANGED <<site, drops, crashes, recovering, listed, held, rx, jobs, past>>

SettleDone(n) ==
  /\ ~Free(n)
  /\ settling[n].todo = {}
  /\ settling[n].mark = {}
  /\ settling' = [settling EXCEPT ![n] = Unlocked]
  /\ IF settling[n].by = "take" THEN Goes(n, [rx[n] EXCEPT !.pc = "list"]) ELSE UNCHANGED rx
  /\ UNCHANGED <<site, drops, crashes, recovering, listed, refused, held, jobs, past>>

-----------------------------------------------------------------------------
(* take: the listing, and the claim of each artifact in it.                *)

List(n) ==
  /\ rx[n].pc = "list"
  /\ \/ Goes(n, [rx[n] EXCEPT !.pc = "sift", !.found = lying])
     \/ Fails("list") /\ Goes(n, Idle)
  /\ UNCHANGED <<site, drops, crashes, recovering, listed, refused, held, settling, jobs, past>>

\* Whether x was listed as it was refused.
LiesRefused(n, x) == rx[n].found[x] # 0 /\ rx[n].found[x] = refused[n][x]

\* MUTANT of StillRefused: what was left out is not put back.
StillRefusedForgotten(n) == NoStamps

\* The refusals sift keeps: those that lie as refused, every other forgotten.
StillRefused(n) == [x \in Names |-> IF LiesRefused(n, x) THEN refused[n][x] ELSE 0]

\* Refused::sift: what lies as it was refused is left out of the listing.
Sift(n) ==
  LET kept == {x \in Names : rx[n].found[x] # 0 /\ ~LiesRefused(n, x)}
  IN  /\ rx[n].pc = "sift"
      /\ refused' = [refused EXCEPT ![n] = StillRefused(n)]
      /\ Goes(n, [rx[n] EXCEPT !.pc = "examine", !.rest = kept,
                               !.found = [x \in Names |-> IF x \in kept THEN @[x] ELSE 0]])
      /\ UNCHANGED <<site, drops, crashes, recovering, listed, held, settling, jobs, past>>

\* Room left, and nothing failed before in this take.
Room(n) == ~rx[n].broken /\ Cardinality(rx[n].taken) < Most

\* Finished by the stability check, where the far end does not tell.
Stable(n, x) == listed[n][x] = rx[n].found[x]

\* An artifact left to the next listing: no room, not stable, or a writer
\* holds it, which where the far end tells may be answered of any.
Leave(n) ==
  /\ rx[n].pc = "examine"
  /\ \E x \in rx[n].rest :
       /\ ~Room(n) \/ Tells \/ ~Stable(n, x)
       /\ Goes(n, [rx[n] EXCEPT !.rest = @ \ {x}])
  /\ UNCHANGED <<site, drops, crashes, recovering, listed, refused, held, settling, jobs, past>>

\* The artifact's turn asked for: had, another's, or the call failed.
TakeTurn(n) ==
  /\ rx[n].pc = "examine"
  /\ Room(n)
  /\ \E x \in rx[n].rest :
       /\ Tells \/ Stable(n, x)
       /\ \/ /\ turns[x] = NoNode
             /\ turns' = [turns EXCEPT ![x] = n]
             /\ Goes(n, [rx[n] EXCEPT !.rest = @ \ {x}, !.name = x, !.pc = "still"])
          \/ /\ turns[x] # NoNode
             /\ UNCHANGED turns
             /\ Goes(n, [rx[n] EXCEPT !.rest = @ \ {x}])
          \/ /\ Fails("take_turn")
             /\ UNCHANGED turns \/ (turns[x] = NoNode /\ turns' = [turns EXCEPT ![x] = n])
             /\ Goes(n, [rx[n] EXCEPT !.rest = @ \ {x}, !.broken = TRUE])
  /\ UNCHANGED <<lying, claimed, drops, crashes, recovering, listed, refused, held, settling,
                 jobs, past>>

\* MUTANT of AsFound: the stamp is not asked again.
AsFoundUnasked(n, x) == TRUE

\* Whether x lies as the listing found it.
AsFound(n, x) == lying[x] = rx[n].found[x]

\* Its stamp asked again, now that its turn is held.
StillAsFound(n) ==
  LET x == rx[n].name
  IN  /\ rx[n].pc = "still"
      /\ \/ Goes(n, [rx[n] EXCEPT !.pc = IF AsFound(n, x) THEN "rename" ELSE "untake"])
         \/ Fails("stamp") /\ Goes(n, [rx[n] EXCEPT !.pc = "untake", !.broken = TRUE])
      /\ UNCHANGED <<site, drops, crashes, recovering, listed, refused, held, settling, jobs, past>>

\* The claimed names node n still knows of.
Known(n) ==
  rx[n].left \cup rx[n].won \cup rx[n].taken \cup {j.claim : j \in jobs[n]}
    \cup {h.claim : h \in held[n]}

\* The claimed name of x for n: its time is one no name of theirs has.
Fresh(n, x) ==
  {c \in Claims : c.dropped = x /\ c.by = n /\ claimed[c] = 0 /\ c \notin Known(n)}

\* MUTANT of Renamed: a copy, the artifact left under its dropped name.
RenamedCopying(c) ==
  /\ lying[c.dropped] # 0
  /\ claimed' = [claimed EXCEPT ![c] = lying[c.dropped]]
  /\ UNCHANGED <<lying, setAside>>

\* The far end's rename: whatever lies under the name by then is moved.
Renamed(c) ==
  /\ lying[c.dropped] # 0
  /\ lying'    = [lying EXCEPT ![c.dropped] = 0]
  /\ claimed'  = [claimed EXCEPT ![c] = lying[c.dropped]]
  /\ setAside' = [n \in Nodes |-> setAside[n] \ {c.dropped}]

\* The claimed name the claim is made under.
ClaimedName(n) == CHOOSE c \in Fresh(n, rx[n].name) : TRUE

\* The claim itself: the artifact moved and won.
Won(n, x) ==
  /\ rx[n].pc = "rename"
  /\ rx[n].name = x
  /\ Fresh(n, rx[n].name) # {}
  /\ Renamed(ClaimedName(n))
  /\ Goes(n, [rx[n] EXCEPT !.pc = "untake", !.won = {ClaimedName(n)}])
  /\ UNCHANGED <<turns, drops, crashes, recovering, listed, refused, held, settling, jobs,
                 consumed, replaced, verdicts>>

\* The far end refused the rename, or the artifact is gone.
RenameRefused(n) ==
  /\ rx[n].pc = "rename"
  /\ Goes(n, [rx[n] EXCEPT !.pc = "untake"])
  /\ UNCHANGED <<site, drops, crashes, recovering, listed, refused, held, settling, jobs, past>>

\* The far end could not be asked, or its answer did not arrive.
RenameFailed(n) ==
  /\ rx[n].pc = "rename"
  /\ Fails("rename")
  /\ Fresh(n, rx[n].name) # {}
  /\ Renamed(ClaimedName(n)) \/ UNCHANGED <<lying, claimed, setAside>>
  /\ Goes(n, [rx[n] EXCEPT !.pc = "untake", !.broken = TRUE])
  /\ UNCHANGED <<turns, drops, crashes, recovering, listed, refused, held, settling, jobs,
                 consumed, replaced, verdicts>>

\* The turn dropped; where that fails the claim won is not handed back.
DropTurn(n) ==
  LET dropped == turns' = [turns EXCEPT ![rx[n].name] = NoNode]
  IN  /\ rx[n].pc = "untake"
      /\ \/ /\ dropped
            /\ Goes(n, [rx[n] EXCEPT !.pc = "examine", !.name = NoName, !.won = {},
                                     !.taken = @ \cup rx[n].won])
         \/ /\ Fails("drop_turn")
            /\ dropped \/ UNCHANGED turns
            /\ Goes(n, [rx[n] EXCEPT !.pc = "examine", !.name = NoName, !.won = {},
                                     !.broken = TRUE])
      /\ UNCHANGED <<lying, claimed, drops, crashes, recovering, listed, refused, held, settling,
                     jobs, past>>

\* MUTANT of Seen: what the listing found is not remembered.
SeenNothing(n) == NoStamps

\* What the listing found and did not take.
Seen(n) ==
  [x \in Names |-> IF \E c \in rx[n].taken : c.dropped = x THEN 0 ELSE rx[n].found[x]]

\* Everything examined: what was not taken is remembered as found, what was
\* is handed to the runtime, each with its acknowledgement.
TakeDone(n) ==
  /\ rx[n].pc = "examine"
  /\ rx[n].rest = {}
  /\ listed' = [listed EXCEPT ![n] = Seen(n)]
  /\ jobs' = [jobs EXCEPT ![n] = @ \cup
                {[claim |-> c, stage |-> "carried", refused |-> FALSE] : c \in rx[n].taken}]
  /\ Goes(n, Idle)
  /\ UNCHANGED <<site, drops, crashes, recovering, refused, held, settling, past>>

-----------------------------------------------------------------------------
(* told: the verdict on a claimed artifact, and what follows from it.      *)

\* The job j of node n, now at this stage.
At(n, j, stage, isRefused) ==
  jobs' = [jobs EXCEPT ![n] =
             (@ \ {j}) \cup {[claim |-> j.claim, stage |-> stage, refused |-> isRefused]}]
Over(n, j) == jobs' = [jobs EXCEPT ![n] = @ \ {j}]

Deleted(c) ==
  /\ claimed'  = [claimed EXCEPT ![c] = 0]
  /\ consumed' = consumed \cup ({claimed[c]} \ {0})

\* Accepted: deleted, or the delete failed and the verdict is an error.
Accept(n) ==
  \E j \in jobs[n] :
    /\ j.stage = "carried"
    /\ \/ Deleted(j.claim) /\ At(n, j, "settle", FALSE)
       \/ /\ Fails("delete")
          /\ Deleted(j.claim) \/ UNCHANGED <<claimed, consumed>>
          /\ Over(n, j)
    /\ UNCHANGED <<lying, turns, drops, crashes, recovering, listed, refused, held, settling, rx,
                   replaced, verdicts, setAside>>

\* Refused, Failed or let go without a verdict: give_back.
GiveBack(n) ==
  \E j \in jobs[n], isRefused \in BOOLEAN,
     answer \in {"back", "gone", "kept", "failed", "lost"} :
    /\ j.stage = "carried"
    /\ Restore(n, j.claim, answer, isRefused)
    /\ verdicts' = IF isRefused THEN [verdicts EXCEPT ![n] = @ \cup ({claimed[j.claim]} \ {0})]
                   ELSE verdicts
    /\ IF ~Settled(answer) THEN At(n, j, "hold", isRefused)
       ELSE IF answer = "back" /\ isRefused THEN At(n, j, "remember", TRUE)
       ELSE Over(n, j)
    /\ UNCHANGED <<turns, drops, crashes, recovering, listed, refused, held, settling, rx,
                   consumed, replaced>>

RememberRefused(n) ==
  \E j \in jobs[n] :
    /\ j.stage = "remember"
    /\ Remember(n, j.claim.dropped)
    /\ Over(n, j)
    /\ UNCHANGED <<site, drops, crashes, recovering, listed, held, settling, rx, past>>

HoldKept(n) ==
  \E j \in jobs[n] :
    /\ j.stage = "hold"
    /\ Free(n)
    /\ Hold(n, j.claim, j.refused)
    /\ Over(n, j)
    /\ UNCHANGED <<site, drops, crashes, recovering, listed, refused, settling, rx, past>>

ToldSettle(n) ==
  \E j \in jobs[n] :
    /\ j.stage = "settle"
    /\ Settle(n, "told")
    /\ Over(n, j)
    /\ UNCHANGED <<site, drops, crashes, recovering, listed, refused, held, rx, past>>

-----------------------------------------------------------------------------
(* Producers, and nodes that die.                                          *)

\* A producer writes a new version under x, over the one lying there where
\* it overwrites.
Drop(x) ==
  /\ drops < MaxDrops
  /\ lying[x] = 0 \/ Overwrites
  /\ drops' = drops + 1
  /\ lying' = [lying EXCEPT ![x] = drops + 1]
  /\ replaced' = replaced \cup ({lying[x]} \ {0})
  /\ setAside' = [n \in Nodes |-> setAside[n] \ {x}]
  /\ UNCHANGED <<claimed, turns, crashes, local, consumed, verdicts>>

\* The node dies and starts again: what it remembered is gone, what it did
\* at the far end lies there.
Crash(n) ==
  /\ crashes < MaxCrashes
  /\ crashes' = crashes + 1
  /\ recovering' = [recovering EXCEPT ![n] = TRUE]
  /\ listed'   = [listed EXCEPT ![n] = NoStamps]
  /\ refused'  = [refused EXCEPT ![n] = NoStamps]
  /\ held'     = [held EXCEPT ![n] = {}]
  /\ settling' = [settling EXCEPT ![n] = Unlocked]
  /\ rx'       = [rx EXCEPT ![n] = Idle]
  /\ jobs'     = [jobs EXCEPT ![n] = {}]
  /\ setAside' = [setAside EXCEPT ![n] = {}]
  /\ UNCHANGED <<site, drops, consumed, replaced, verdicts>>

-----------------------------------------------------------------------------

Take(n) ==
  \/ RecoverList(n) \/ RecoverTurn(n) \/ RecoverTurnsDone(n) \/ RecoverReturn(n)
  \/ RecoverHold(n) \/ RecoverDone(n) \/ TakeSettle(n) \/ List(n) \/ Sift(n) \/ Leave(n)
  \/ TakeTurn(n) \/ StillAsFound(n) \/ (\E x \in Names : Won(n, x)) \/ RenameRefused(n) \/ RenameFailed(n)
  \/ DropTurn(n) \/ TakeDone(n)

Settling(n) == SettleOne(n) \/ SettleRemember(n) \/ SettleDone(n)
Tell(n)     == Accept(n) \/ GiveBack(n)
Told(n)     == RememberRefused(n) \/ HoldKept(n) \/ ToldSettle(n)

Next ==
  \/ \E n \in Nodes : StartTake(n) \/ Take(n) \/ Settling(n) \/ Tell(n) \/ Told(n) \/ Crash(n)
  \/ \E x \in Names : Drop(x)

Spec == Init /\ [][Next]_vars

\* A receive is asked again and goes on, its thread being scheduled; every
\* cycle ends in a verdict or lets its acknowledgement go, which is one; and
\* no producer holds a file for ever, so a rename asked again and again is
\* not refused each time.
Fairness ==
  \A n \in Nodes :
    /\ WF_vars(StartTake(n)) /\ WF_vars(Take(n)) /\ WF_vars(Settling(n))
    /\ WF_vars(Tell(n)) /\ WF_vars(Told(n)) /\ \A x \in Names : SF_vars(Won(n, x))

LiveSpec == Spec /\ Fairness

-----------------------------------------------------------------------------
(* What the claim promises.                                                *)

SiteType ==
  /\ lying \in [Names -> Stamps]
  /\ claimed \in [Claims -> Stamps]
  /\ turns \in [Names -> Nodes \cup {NoNode}]
  /\ drops \in Stamps
  /\ crashes \in 0..MaxCrashes

Settlings == [by : {"nobody", "take", "told"}, todo : SUBSET Held, mark : SUBSET Names]
MemoryType ==
  /\ recovering \in [Nodes -> BOOLEAN]
  /\ listed \in [Nodes -> [Names -> Stamps]]
  /\ refused \in [Nodes -> [Names -> Stamps]]
  /\ held \in [Nodes -> SUBSET Held]
  /\ settling \in [Nodes -> Settlings]

Takes == [pc : Places, left : SUBSET Claims, found : [Names -> Stamps], rest : SUBSET Names,
          name : Names \cup {NoName}, won : SUBSET Claims, taken : SUBSET Claims,
          broken : BOOLEAN]
TakeType  == rx \in [Nodes -> Takes]
CycleType == jobs \in [Nodes -> SUBSET Jobs]

PastType ==
  /\ consumed \in SUBSET Versions
  /\ replaced \in SUBSET Versions
  /\ verdicts \in [Nodes -> SUBSET Versions]
  /\ setAside \in [Nodes -> SUBSET Names]

\* A node keeps only claims of its own.
KeepsItsOwn == \A n \in Nodes : \A c \in Known(n) : c.by = n

\* A receive is at an artifact exactly from the moment its turn was had
\* until it is dropped.
AtAnArtifact ==
  \A n \in Nodes : rx[n].pc \in {"still", "rename", "untake"} <=> rx[n].name # NoName

\* A settle begun by a take holds it up until it is done.
SettlesInTake == \A n \in Nodes : settling[n].by = "take" => rx[n].pc = "settling"

\* The types of the state, and what its parts always say of one another: no
\* node ever keeps another's claim, and none is at an artifact without having
\* asked for its turn (claimant.rs).
TypeOK ==
  /\ SiteType /\ MemoryType /\ TakeType /\ CycleType /\ PastType
  /\ KeepsItsOwn /\ AtAnArtifact /\ SettlesInTake

\* Nothing is anywhere that was not written.
Written ==
  /\ \A x \in Names : lying[x] <= drops
  /\ \A c \in Claims : claimed[c] <= drops
  /\ consumed \cup replaced \subseteq 1..drops

\* No version is in two places.
OnePlace ==
  /\ \A x, y \in Names : lying[x] = lying[y] /\ lying[x] # 0 => x = y
  /\ \A c, d \in Claims : claimed[c] = claimed[d] /\ claimed[c] # 0 => c = d
  /\ \A x \in Names, c \in Claims : lying[x] = claimed[c] => lying[x] = 0
  /\ \A x \in Names : lying[x] \notin consumed \cup replaced
  /\ \A c \in Claims : claimed[c] \notin consumed \cup replaced

\* Every version is in a place.
Accounted ==
  \A v \in 1..drops : \/ v \in consumed \cup replaced
                      \/ \E x \in Names : lying[x] = v
                      \/ \E c \in Claims : claimed[c] = v

\* Nothing written is lost or doubled, whatever fails, dies or races: every
\* version written lies under exactly one name, dropped or claimed, or was
\* consumed on its Accepted verdict, or overwritten by a producer, never by
\* a return (claiming.rs: "A return ... never replaces").
Conservation == Written /\ OnePlace /\ Accounted

\* Who holds which version, whatever claimed name it lies under.
Hands == {<<c.by, c.dropped, claimed[c]>> : c \in {d \in Claims : claimed[d] # 0}}

Promised == INSTANCE Custody WITH hands <- Hands

\* Every step of every node, failed calls and deaths included, is one that
\* custody allows: a version changes hands only as a whole, returns only
\* under the name it had and only where that is free, is consumed only by the
\* node that claimed it, and never comes back from there (claim.rs, site.rs).
KeepsCustody == Promised!Spec

\* One holder at a time: what a cycle carries lies claimed for it until the
\* verdict, so no listing of any node finds it (claim.rs, claiming.rs).
HeldByItsCycle ==
  \A n \in Nodes : \A j \in jobs[n] : j.stage = "carried" => claimed[j.claim] # 0

\* The turn excludes: whoever is between having an artifact's turn and
\* dropping it is its holder, so two renames of one artifact are never made
\* at once (claimant.rs).
InTurn == \A n \in Nodes : rx[n].name # NoName => turns[rx[n].name] = n

\* No turn outlives what it was taken for, but over a node's death, until it
\* has recovered: else its artifact would be left to the next listing for
\* good (claimant.rs).
NoTurnLeft ==
  \A x \in Names, n \in Nodes :
    turns[x] = n => \/ rx[n].name = x
                    \/ recovering[n] \/ rx[n].pc \in {"recover", "turns"}

\* No claim is forgotten: a claimed artifact is in its cycle, on its way
\* back, or held, but over its node's death until that recovers; so it never
\* waits for a restart (claiming.rs).
NoClaimLeft ==
  \A c \in Claims :
    claimed[c] # 0 => c \in Known(c.by) \/ recovering[c.by] \/ rx[c.by].pc = "recover"

\* A node remembers as refused only what it gave a Refused verdict
\* (refused.rs: "One written again under its name is another stamp, and a
\* new arrival").  The stamp is asked after the return, in a call of its own,
\* and whatever lies there by then is what is remembered.
RefusedWasRefused ==
  \A n \in Nodes, x \in Names : refused[n][x] # 0 => refused[n][x] \in verdicts[n]

\* The step that moves x to a claimed name of n, answered or not.
Receives(n, x) ==
  /\ rx[n].pc = "rename" /\ rx'[n].pc = "untake" /\ rx[n].name = x
  /\ lying[x] # 0 /\ lying'[x] = 0

\* What a node refused and returned, and nobody moved or wrote since, it
\* does not claim again (refused.rs, claiming.rs).
NotReceivedAgain ==
  [][\A n \in Nodes, x \in Names : Receives(n, x) => x \notin setAside[n]]_vars

\* A claim takes the artifact its listing found and found finished, not what
\* came to lie under the name since (claimant.rs: "where still says").
ClaimsWhatItFound ==
  [][\A n \in Nodes, x \in Names : Receives(n, x) => lying[x] = rx[n].found[x]]_vars

\* Whatever lies at the far end is received in the end, or overwritten, or
\* lies there because a node gave it a Refused verdict and remembers that
\* (claiming.rs: "a later listing finds it again").
EveryArtifactIsReceived ==
  \A x \in Names, v \in Versions :
    lying[x] = v ~> \/ lying[x] # v
                    \/ \E n \in Nodes : refused[n][x] = v /\ v \in verdicts[n]

\* A claimed artifact goes back, is consumed, or has a newer one in its way:
\* it never stays claimed while its name is free, its node having died or not
\* (claiming.rs: "as soon as the name is free").
NoClaimStays ==
  \A c \in Claims : claimed[c] # 0 ~> (claimed[c] = 0 \/ lying[c.dropped] # 0)

=============================================================================
