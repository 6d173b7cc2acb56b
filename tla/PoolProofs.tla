----------------------------- MODULE PoolProofs -----------------------------
(***************************************************************************)
(* What is proved of the pool, for every set of threads and keys and every *)
(* bound: a session is one thread's at a time, a delivery is acknowledged  *)
(* on its session and never lost, and an answer is its request's.          *)
(***************************************************************************)
EXTENDS Pool, TLAPS, FiniteSetTheorems, SequenceTheorems, WellFoundedInduction

-----------------------------------------------------------------------------
(* What is kept, as sequences.                                             *)

\* What is kept once one more is put back.
LEMMA PushedIs ==
  ASSUME NEW S, NEW s \in Seq(S), IsInjective(s), NEW x \in S, x \notin Range(s)
  PROVE  /\ Append(s, x) \in Seq(S) /\ IsInjective(Append(s, x))
         /\ Range(Append(s, x)) = Range(s) \cup {x}
<1>1. /\ Append(s, x) \in Seq(S) /\ Len(Append(s, x)) = Len(s) + 1
      /\ Append(s, x)[Len(s) + 1] = x /\ \A i \in 1..Len(s) : Append(s, x)[i] = s[i]
      /\ Len(s) \in Nat /\ DOMAIN s = 1..Len(s)
  BY AppendProperties, LenProperties
<1>2. DOMAIN Append(s, x) = 1..Len(s) + 1
  BY <1>1, LenProperties
<1>3. PICK q : q = Append(s, x)
  OBVIOUS
<1>4. /\ DOMAIN q = 1..Len(s) + 1 /\ q[Len(s) + 1] = x /\ \A i \in 1..Len(s) : q[i] = s[i]
  BY <1>1, <1>2, <1>3
<1>5. \A i \in 1..Len(s) + 1 : i \in 1..Len(s) \/ i = Len(s) + 1
  BY <1>1
<1>6. \A i \in 1..Len(s) : s[i] # x /\ s[i] \in Range(s)
  BY <1>1 DEF Range
<1>7. IsInjective(q)
  BY <1>1, <1>4, <1>5, <1>6 DEF IsInjective
<1>8. Range(q) \subseteq Range(s) \cup {x}
  BY <1>4, <1>5, <1>6 DEF Range
<1>9. Range(s) \subseteq Range(q)
  <2>1. \A i \in 1..Len(s) : i \in 1..Len(s) + 1
    BY <1>1
  <2>2. QED BY <1>1, <1>4, <2>1 DEF Range
<1>10. x \in Range(q)
  <2>1. Len(s) + 1 \in 1..Len(s) + 1
    BY <1>1
  <2>2. QED BY <1>4, <2>1 DEF Range
<1>11. QED BY <1>1, <1>3, <1>7, <1>8, <1>9, <1>10

\* What is there to read once the first is read.
LEMMA ReadIs ==
  ASSUME NEW S, NEW s \in Seq(S), s # <<>>
  PROVE  /\ Head(s) \in S /\ Tail(s) \in Seq(S)
         /\ Head(s) \in Range(s) /\ Range(Tail(s)) \subseteq Range(s)
         /\ IsInjective(s) => IsInjective(Tail(s)) /\ Head(s) \notin Range(Tail(s))
<1>1. /\ Len(s) \in Nat /\ Len(s) # 0 /\ DOMAIN s = 1..Len(s)
      /\ Head(s) \in S /\ Tail(s) \in Seq(S) /\ Len(Tail(s)) = Len(s) - 1
      /\ \A i \in 1..Len(Tail(s)) : Tail(s)[i] = s[i + 1]
  BY LenProperties, EmptySeq, HeadTailProperties
<1>2. PICK n : n = Len(s) - 1
  OBVIOUS
<1>3. n \in Nat /\ Len(s) = n + 1
  BY <1>1, <1>2
<1>4. PICK q : q = Tail(s)
  OBVIOUS
<1>5. DOMAIN q = 1..n /\ \A i \in 1..n : q[i] = s[i + 1]
  BY <1>1, <1>2, <1>4, LenProperties
<1>6. PICK x : x = Head(s)
  OBVIOUS
<1>7. 1 \in DOMAIN s /\ x = s[1]
  BY <1>1, <1>3, <1>6
<1>8. \A i \in 1..n : i + 1 \in DOMAIN s /\ i + 1 # 1
  BY <1>1, <1>3
<1>9. x \in Range(s) /\ Range(q) \subseteq Range(s)
  BY <1>5, <1>7, <1>8 DEF Range
<1>10. ASSUME IsInjective(s) PROVE IsInjective(q) /\ x \notin Range(q)
  <2>1. IsInjective(q)
    <3> SUFFICES ASSUME NEW i \in 1..n, NEW j \in 1..n, q[i] = q[j] PROVE i = j
      BY <1>5 DEF IsInjective
    <3>1. i + 1 = j + 1
      BY <1>5, <1>8, <1>10 DEF IsInjective
    <3>2. QED BY <3>1, <1>3
  <2>2. x \notin Range(q)
    BY <1>5, <1>7, <1>8, <1>10 DEF IsInjective, Range
  <2>3. QED BY <2>1, <2>2
<1>11. QED BY <1>1, <1>4, <1>6, <1>9, <1>10

\* What is kept once the last is taken.
LEMMA TakenIs ==
  ASSUME NEW s \in Seq(Sessions), IsInjective(s), s # <<>>
  PROVE  /\ Front(s) \in Seq(Sessions) /\ IsInjective(Front(s))
         /\ Range(Front(s)) \subseteq Range(s) /\ Last(s) \in Range(s) /\ Last(s) \notin Range(Front(s))
<1>1. Len(s) \in Nat /\ Len(s) # 0 /\ DOMAIN s = 1..Len(s) /\ \A i \in 1..Len(s) : s[i] \in Sessions
  BY LenProperties, ElementOfSeq, EmptySeq
<1>2. PICK n \in Nat : n = Len(s) - 1 /\ Len(s) = n + 1
  <2>1. Len(s) - 1 \in Nat /\ Len(s) = (Len(s) - 1) + 1
    BY <1>1
  <2>2. QED BY <2>1
<1>3. /\ SubSeq(s, 1, n) \in Seq(Sessions) /\ Len(SubSeq(s, 1, n)) = n
      /\ \A i \in 1..n : SubSeq(s, 1, n)[i] = s[i]
  <2>1. \A i \in 1..n : s[i] \in Sessions
    BY <1>1, <1>2
  <2>2. /\ SubSeq(s, 1, n) \in Seq(Sessions)
        /\ Len(SubSeq(s, 1, n)) = IF 1 <= n THEN n - 1 + 1 ELSE 0
        /\ \A i \in 1..n - 1 + 1 : SubSeq(s, 1, n)[i] = s[1 + i - 1]
    BY <2>1, SubSeqProperties
  <2>3. \A i \in 1..n : i \in 1..n - 1 + 1 /\ 1 + i - 1 = i
    BY <1>2
  <2>4. QED BY <2>2, <2>3
<1>4. PICK q : q = Front(s)
  OBVIOUS
<1>5. q \in Seq(Sessions) /\ DOMAIN q = 1..n /\ \A i \in 1..n : q[i] = s[i]
  BY <1>2, <1>3, <1>4, LenProperties DEF Front
<1>6. n + 1 \in 1..Len(s) /\ s[n + 1] = Last(s) /\ \A i \in 1..n : i \in 1..Len(s) /\ i # n + 1
  <2>1. n + 1 \in 1..n + 1 /\ \A i \in 1..n : i \in 1..n + 1 /\ i # n + 1
    BY <1>2
  <2>2. s[n + 1] = Last(s)
    BY <1>2 DEF Last
  <2>3. QED BY <1>2, <2>1, <2>2
<1>7. IsInjective(q) /\ Range(q) \subseteq Range(s)
  BY <1>1, <1>5, <1>6 DEF IsInjective, Range
<1>8. Last(s) \in Range(s)
  BY <1>1, <1>6 DEF Range
<1>9. Last(s) \notin Range(q)
  BY <1>1, <1>5, <1>6 DEF IsInjective, Range
<1>10. QED BY <1>4, <1>5, <1>7, <1>8, <1>9

\* A set of numbers that has 0 and each one's successor has them all.
LEMMA AllNumbers ==
  ASSUME NEW S, 0 \in S, \A n \in Nat : n \in S => n + 1 \in S PROVE Nat \subseteq S
<1> SUFFICES ASSUME NEW m \in Nat, m \notin S PROVE FALSE
  OBVIOUS
<1>1. Nat \ S # {} /\ Nat \ S \subseteq Nat
  OBVIOUS
<1> DEFINE R == OpToRel(<, Nat)
<1>0. \A x, y \in Nat : x < y => <<x, y>> \in R
  BY DEF OpToRel
<1>00. IsWellFoundedOn(R, Nat)
  BY NatLessThanWellFounded
<1> HIDE DEF R
<1>2. PICK k \in Nat \ S : \A l \in Nat \ S : ~(<<l, k>> \in R)
  BY <1>1, <1>00, WFMin
<1>3. k \in Nat /\ k # 0
  OBVIOUS
<1>4. k - 1 \in Nat /\ k = (k - 1) + 1
  BY <1>3
<1>5. k - 1 \notin S
  BY <1>4
<1>6. <<k - 1, k>> \in R
  BY <1>0, <1>4
<1>7. QED BY <1>2, <1>4, <1>5, <1>6

\* What f leaves of the first sessions of s, one after the other.
RestOf(f, s, n) ==
  \A i \in 0..n :
    f[i] = IF i = 0 THEN <<>> ELSE IF Usable(s[i]) THEN Append(f[i - 1], s[i]) ELSE f[i - 1]

LEMMA RestIs == ASSUME NEW s, NEW n \in Nat PROVE \E f : RestOf(f, s, n) /\ f = [i \in 0..n |-> f[i]]
<1> DEFINE S == {m \in Nat : \E f : RestOf(f, s, m) /\ f = [i \in 0..m |-> f[i]]}
<1>1. 0 \in S
  <2> DEFINE g == [i \in 0..0 |-> <<>>]
  <2>1. RestOf(g, s, 0) /\ g = [i \in 0..0 |-> g[i]]
    BY DEF RestOf
  <2> HIDE DEF g
  <2>2. QED BY <2>1
<1>2. ASSUME NEW m \in Nat, m \in S PROVE m + 1 \in S
  <2>1. PICK f : RestOf(f, s, m)
    BY <1>2
  <2> DEFINE last == IF Usable(s[m + 1]) THEN Append(f[m], s[m + 1]) ELSE f[m]
             g == [i \in 0..(m + 1) |-> IF i <= m THEN f[i] ELSE last]
  <2>2. /\ \A i \in 0..m : g[i] = f[i]
        /\ g[m + 1] = last /\ g = [i \in 0..(m + 1) |-> g[i]]
    BY <1>2
  <2> HIDE DEF g
  <2>3. ASSUME NEW i \in 0..(m + 1)
        PROVE  g[i] = IF i = 0 THEN <<>> ELSE IF Usable(s[i]) THEN Append(g[i - 1], s[i]) ELSE g[i - 1]
    <3>1. CASE i = 0
      <4>1. 0 \in 0..m
        BY <1>2
      <4>2. f[0] = <<>>
        BY <2>1, <4>1 DEF RestOf
      <4>3. QED BY <2>2, <3>1, <4>1, <4>2
    <3>2. CASE i \in 1..m
      <4>1. i \in 0..m /\ i - 1 \in 0..m /\ i # 0
        BY <3>2
      <4>2. QED BY <2>1, <2>2, <4>1 DEF RestOf
    <3>3. CASE i = m + 1
      <4>1. i - 1 = m /\ m \in 0..m /\ i # 0
        BY <3>3, <1>2
      <4>2. QED BY <2>2, <3>3, <4>1
    <3>4. QED BY <3>1, <3>2, <3>3, <1>2
  <2>4. RestOf(g, s, m + 1)
    BY <2>3 DEF RestOf
  <2>5. QED BY <2>2, <2>4
<1>3. Nat \subseteq S
  <2> HIDE DEF S
  <2>1. QED BY <1>1, <1>2, AllNumbers
<1>4. QED BY <1>3

LEMMA UsableIs ==
  ASSUME NEW s, Len(s) \in Nat
  PROVE  \E f : RestOf(f, s, Len(s)) /\ UsableOf(s) = f[Len(s)]
<1> DEFINE Is(f) == f = [i \in 0..Len(s) |->
                           IF i = 0 THEN <<>>
                           ELSE IF Usable(s[i]) THEN Append(f[i - 1], s[i]) ELSE f[i - 1]]
           chosen == CHOOSE f : Is(f)
<1>1. UsableOf(s) = chosen[Len(s)]
  BY Zenon DEF UsableOf
<1>2. \E f : Is(f)
  <2>1. PICK f : RestOf(f, s, Len(s)) /\ f = [i \in 0..Len(s) |-> f[i]]
    BY RestIs
  <2> DEFINE g == [i \in 0..Len(s) |->
                     IF i = 0 THEN <<>>
                     ELSE IF Usable(s[i]) THEN Append(f[i - 1], s[i]) ELSE f[i - 1]]
  <2>2. \A i \in 0..Len(s) : g[i] = f[i]
    BY <2>1 DEF RestOf
  <2>3. g = [i \in 0..Len(s) |-> g[i]]
    OBVIOUS
  <2> HIDE DEF g
  <2>4. f = g
    BY <2>1, <2>2, <2>3
  <2>5. QED BY <2>4 DEF g
<1>3. Is(chosen)
  <2> HIDE DEF Is
  <2>1. QED BY <1>2
<1> HIDE DEF chosen
<1>4. RestOf(chosen, s, Len(s))
  <2> DEFINE g == [i \in 0..Len(s) |->
                     IF i = 0 THEN <<>>
                     ELSE IF Usable(s[i]) THEN Append(chosen[i - 1], s[i]) ELSE chosen[i - 1]]
  <2>1. \A i \in 0..Len(s) :
          g[i] = IF i = 0 THEN <<>>
                 ELSE IF Usable(s[i]) THEN Append(chosen[i - 1], s[i]) ELSE chosen[i - 1]
    OBVIOUS
  <2>2. chosen = g
    BY <1>3
  <2> HIDE DEF g, Is
  <2>3. QED BY <2>1, <2>2 DEF RestOf
<1>5. QED BY <1>1, <1>4

\* What is left of the sessions kept is some of them, each once as it was.
LEMMA UsableOfIsSome ==
  ASSUME NEW s \in Seq(Sessions), IsInjective(s)
  PROVE  /\ UsableOf(s) \in Seq(Sessions) /\ IsInjective(UsableOf(s))
         /\ Range(UsableOf(s)) \subseteq Range(s)
<1>1. Len(s) \in Nat /\ DOMAIN s = 1..Len(s) /\ \A i \in 1..Len(s) : s[i] \in Sessions
  BY LenProperties, ElementOfSeq
<1>2. PICK f : RestOf(f, s, Len(s)) /\ UsableOf(s) = f[Len(s)]
  BY <1>1, UsableIs
<1> DEFINE Before(n) == {s[i] : i \in 1..n}
           Some(r, n) == r \in Seq(Sessions) /\ IsInjective(r) /\ Range(r) \subseteq Before(n)
           S == {n \in Nat : n <= Len(s) => Some(f[n], n)}
<1>3. Some(f[0], 0)
  <2>1. f[0] = <<>>
    BY <1>1, <1>2 DEF RestOf
  <2>2. <<>> \in Seq(Sessions) /\ DOMAIN <<>> = {}
    OBVIOUS
  <2>3. Some(<<>>, 0)
    BY <2>2 DEF IsInjective, Range
  <2> HIDE DEF Some
  <2>4. QED BY <2>1, <2>3
<1>4. ASSUME NEW n \in Nat, n <= Len(s) => Some(f[n], n), n + 1 <= Len(s)
      PROVE  Some(f[n + 1], n + 1)
  <2>1. n <= Len(s) /\ n + 1 \in 1..Len(s) /\ s[n + 1] \in Sessions
    BY <1>1, <1>4
  <2>2. PICK r : r = f[n]
    OBVIOUS
  <2>3. Some(r, n)
    BY <1>4, <2>1, <2>2
  <2>4. f[n + 1] = IF Usable(s[n + 1]) THEN Append(r, s[n + 1]) ELSE r
    <3>1. n + 1 \in 0..Len(s) /\ n + 1 # 0 /\ (n + 1) - 1 = n
      BY <1>1, <2>1
    <3>2. QED BY <1>2, <2>2, <3>1 DEF RestOf
  <2>5. Before(n) \subseteq Before(n + 1) /\ s[n + 1] \in Before(n + 1)
    BY <1>4
  <2>6. s[n + 1] \notin Before(n)
    <3> SUFFICES ASSUME NEW i \in 1..n, s[i] = s[n + 1] PROVE FALSE
      OBVIOUS
    <3>1. i \in 1..Len(s) /\ i # n + 1
      BY <2>1, <1>1, <1>4
    <3>2. QED BY <1>1, <2>1, <3>1 DEF IsInjective
  <2> HIDE DEF Before
  <2>7. CASE Usable(s[n + 1])
    <3>1. PICK x \in Sessions : x = s[n + 1]
      BY <2>1
    <3>2. x \notin Range(r)
      BY <2>3, <2>6, <3>1
    <3>3. /\ Append(r, x) \in Seq(Sessions) /\ IsInjective(Append(r, x))
          /\ Range(Append(r, x)) = Range(r) \cup {x}
      BY <2>3, <3>2, PushedIs
    <3>4. QED BY <2>3, <2>4, <2>5, <2>7, <3>1, <3>3
  <2>8. CASE ~Usable(s[n + 1])
    BY <2>3, <2>4, <2>5, <2>8
  <2>9. QED BY <2>7, <2>8
<1>5. Nat \subseteq S
  <2> HIDE DEF Some
  <2>1. 0 \in S
    BY <1>3
  <2>2. \A n \in Nat : n \in S => n + 1 \in S
    BY <1>1, <1>4
  <2> HIDE DEF S
  <2>3. QED BY <2>1, <2>2, AllNumbers
<1>6. Some(UsableOf(s), Len(s))
  <2> HIDE DEF Some
  <2>1. QED BY <1>1, <1>2, <1>5
<1>7. Before(Len(s)) = Range(s)
  BY <1>1 DEF Range
<1>8. QED BY <1>6, <1>7

-----------------------------------------------------------------------------
(* A session is one thread's at a time.                                    *)

\* Where a thread has a session out.
Out == {"check", "write", "read", "keep", "push"}

\* What the exchange at r is, of the requests begun (rq) and the session each
\* delivery was read on (cm), which was opened for a key (ky).
Does(r, ky, rq, cm) ==
  \/ r.op = "send" /\ r.key \in Sends /\ r.id \in 1..rq
  \/ r.op = "receive" /\ r.key \in Receives
  \/ r.op = "ack" /\ r.key \in Receives /\ r.id \in Deliveries /\ cm[r.id] # None /\ ky[cm[r.id]] = r.key

\* Where a thread's exchange stands, at r: it has out a session of those
\* opened (up to op) for its key, and what it has read came on that one.
Well(r, op, ky, rq, cm) ==
  /\ r \in Threadings
  /\ r.pc = "idle" => r = Idle
  /\ r.pc # "idle" => Does(r, ky, rq, cm)
  /\ r.on # None <=> r.pc \in Out
  /\ r.on # None => r.on <= op /\ ky[r.on] = r.key
  /\ r.op = "ack" => r.pc \notin {"letgo", "open"} /\ ~r.fresh
  /\ r.pc = "write" => r.op # "receive"
  /\ r.pc = "read" => r.op # "ack"
  /\ r.pc \in {"take", "check", "letgo", "open"} => ~r.fresh
  /\ \A d \in r.got : r.pc = "read" /\ r.op = "receive" /\ cm[d] = r.on

AllWell == \A t \in Threads : Well(th[t], opened, key, requests, came)

\* What is said on the sessions: none of it before one is opened, requests on
\* a session for sends, on one for receives deliveries, each once and none
\* read yet.
Wires ==
  /\ \A s \in Sessions : s <= opened => key[s] \in Keys
  /\ \A s \in Sessions : s > opened => ~far[s] /\ asked[s] = <<>> /\ inbox[s] = <<>>
  /\ \A s \in Sessions : asked[s] # <<>> => key[s] \in Sends
  /\ \A s \in Sessions : key[s] \in Receives =>
       IsInjective(inbox[s]) /\ \A d \in Range(inbox[s]) : d \in 1..delivered /\ came[d] = None
  /\ \A s, u \in Sessions : key[s] \in Receives /\ key[u] \in Receives /\ s # u =>
       Range(inbox[s]) \cap Range(inbox[u]) = {}
  /\ \A d \in Deliveries : came[d] # None =>
       came[d] <= opened /\ key[came[d]] \in Receives /\ d <= delivered
  /\ \A d \in owed : came[d] # None

\* What is kept is nobody's, and kept once, under its key; and no two threads
\* have one session out.
Apart ==
  /\ \A k \in Keys : IsInjective(kept[k])
  /\ \A k \in Keys : \A s \in Range(kept[k]) : s <= opened /\ key[s] = k
  /\ \A k \in Keys : \A s \in Range(kept[k]) : \A t \in Threads : th[t].on # s
  /\ \A t, u \in Threads : th[t].on # None /\ th[t].on = th[u].on => t = u

PoolInv == TypeOK /\ AllWell /\ Wires /\ Apart

LEMMA GoesTo ==
  ASSUME TypeOK, NEW t \in Threads, NEW r, Goes(t, r)
  PROVE  /\ th' = [th EXCEPT ![t] = r] /\ th'[t] = r
         /\ \A u \in Threads : u # t => th'[u] = th[u]
  BY DEF Goes, TypeOK

\* More opened, begun and read leaves an exchange where it stands.
LEMMA WellStays ==
  ASSUME NEW r, NEW op \in Nat, NEW ky, NEW rq \in Nat, NEW cm, Well(r, op, ky, rq, cm),
         NEW op2 \in Nat, NEW ky2, NEW rq2 \in Nat, NEW cm2, op <= op2, rq <= rq2,
         cm \in [Deliveries -> Sessions \cup {None}],
         \A s \in Sessions : s <= op => ky2[s] = ky[s],
         \A d \in Deliveries : cm[d] # None => cm[d] <= op /\ cm2[d] = cm[d]
  PROVE  Well(r, op2, ky2, rq2, cm2)
<1>1. r \in Threadings /\ r.got \subseteq Deliveries /\ r.on \in Sessions \cup {None}
  BY DEF Well, Threadings
<1>2. r.pc # "idle" => Does(r, ky2, rq2, cm2)
  BY <1>1 DEF Well, Does
<1>3. r.on # None => r.on <= op2 /\ ky2[r.on] = r.key
  BY <1>1 DEF Well, Sessions, None
<1>4. \A d \in r.got : cm2[d] = r.on
  BY <1>1 DEF Well, Out
<1>5. QED BY <1>2, <1>3, <1>4 DEF Well

LEMMA AllWellGoes ==
  ASSUME TypeOK, AllWell, Wires, NEW t \in Threads, NEW r, Goes(t, r),
         Well(r, opened', key', requests', came'), opened' \in Nat, requests' \in Nat,
         opened <= opened', requests <= requests',
         \A s \in Sessions : s <= opened => key'[s] = key[s],
         \A d \in Deliveries : came[d] # None => came'[d] = came[d]
  PROVE  AllWell' /\ th' \in [Threads -> Threadings]
<1>1. /\ opened \in Nat /\ requests \in Nat /\ came \in [Deliveries -> Sessions \cup {None}]
      /\ \A d \in Deliveries : came[d] # None => came[d] <= opened
  BY PoolAssumption DEF TypeOK, Wires
<1>2. ASSUME NEW u \in Threads PROVE Well(th'[u], opened', key', requests', came')
  <2>1. CASE u = t
    BY <2>1, GoesTo
  <2>2. CASE u # t
    <3>1. Well(th[u], opened, key, requests, came) /\ th'[u] = th[u]
      BY <2>2, GoesTo DEF AllWell
    <3>2. QED BY <1>1, <3>1, WellStays
  <2>3. QED BY <2>1, <2>2
<1>3. \A u \in Threads : th'[u] \in Threadings
  BY <1>2 DEF Well
<1>4. th' = [u \in Threads |-> th'[u]]
  BY GoesTo DEF TypeOK
<1>5. QED BY <1>2, <1>3, <1>4 DEF AllWell

LEMMA WiresStay ==
  ASSUME Wires, UNCHANGED <<wire, opened, delivered, came>>, owed' \subseteq owed
  PROVE  Wires'
  BY DEF Wires, wire

LEMMA ApartStays ==
  ASSUME TypeOK, Apart, NEW t \in Threads, NEW r, Goes(t, r), r.on \in {None, th[t].on},
         UNCHANGED <<opened, key>>,
         \A k \in Keys : Range(kept'[k]) \subseteq Range(kept[k]) /\ IsInjective(kept'[k])
  PROVE  Apart'
<1>1. th'[t] = r /\ \A u \in Threads : u # t => th'[u] = th[u]
  BY GoesTo
<1>2. \A u \in Threads : th'[u].on \in {None, th[u].on}
  BY <1>1
<1>3. None \notin Sessions /\ \A k \in Keys : Range(kept[k]) \subseteq Sessions
  <2>1. \A k \in Keys : kept[k] \in Seq(Sessions)
    BY DEF TypeOK
  <2>2. \A k \in Keys : Range(kept[k]) \subseteq Sessions
    BY <2>1, LenProperties, ElementOfSeq DEF Range
  <2>3. QED BY <2>2 DEF None, Sessions
<1>4. \A k \in Keys : \A s \in Range(kept'[k]) : s <= opened /\ key[s] = k
  BY DEF Apart
<1>5. \A k \in Keys : \A s \in Range(kept'[k]) : \A u \in Threads : th'[u].on # s
  BY <1>2, <1>3 DEF Apart
<1>6. \A u, v \in Threads : th'[u].on # None /\ th'[u].on = th'[v].on => u = v
  BY <1>2 DEF Apart
<1>7. QED BY <1>4, <1>5, <1>6 DEF Apart

\* The variables' types are all of the type invariant once threads are well.
LEMMA TypedNext ==
  ASSUME TypeOK, AllWell', th' \in [Threads -> Threadings], kept' \in [Keys -> Seq(Sessions)],
         opened' \in 0..MaxOpened, requests' \in 0..MaxRequests, delivered' \in 0..MaxDelivered,
         key' \in [Sessions -> Keys \cup {"none"}], far' \in [Sessions -> BOOLEAN],
         asked' \in [Sessions -> Seq(Requests)], inbox' \in [Sessions -> Seq(Nat)],
         owed' \subseteq Deliveries, carried' \in [Requests -> Nat],
         answered' \subseteq Requests \X Nat,
         came' \in [Deliveries -> Sessions \cup {None}], acked' \subseteq Deliveries \X Sessions
  PROVE  TypeOK'
<1>1. \A t \in Threads :
        /\ th'[t].on # None <=> th'[t].pc \in {"check", "write", "read", "keep", "push"}
        /\ th'[t].op = "ack" => th'[t].pc \notin {"letgo", "open"} /\ ~th'[t].fresh
  BY DEF AllWell, Well, Out
<1>2. QED BY <1>1 DEF TypeOK

\* A thread goes on, and of what is kept there is no more.
LEMMA PlainGoes ==
  ASSUME PoolInv, NEW t \in Threads, NEW r, Goes(t, r), r.on \in {None, th[t].on},
         Well(r, opened, key, requests', came), requests' \in requests..MaxRequests,
         UNCHANGED <<opened, delivered, wire, carried, answered, came>>,
         owed' \subseteq owed, acked' \subseteq Deliveries \X Sessions,
         kept' \in [Keys -> Seq(Sessions)],
         \A k \in Keys : Range(kept'[k]) \subseteq Range(kept[k]) /\ IsInjective(kept'[k])
  PROVE  PoolInv'
<1>1. UNCHANGED <<key, far, asked, inbox>>
  BY DEF wire
<1>2. opened \in Nat /\ requests \in Nat /\ requests' \in 0..MaxRequests /\ requests <= requests'
  BY PoolAssumption DEF PoolInv, TypeOK
<1>3. AllWell' /\ th' \in [Threads -> Threadings]
  BY <1>1, <1>2, AllWellGoes DEF PoolInv
<1>4. Wires'
  BY WiresStay DEF PoolInv
<1>5. Apart'
  BY <1>1, ApartStays DEF PoolInv
<1>6. TypeOK'
  <2>1. owed' \subseteq Deliveries
    BY DEF PoolInv, TypeOK
  <2>2. QED BY <1>1, <1>2, <1>3, <2>1, TypedNext DEF PoolInv, TypeOK
<1>7. QED BY <1>3, <1>4, <1>5, <1>6 DEF PoolInv

LEMMA PlainKept ==
  ASSUME PoolInv, NEW t \in Threads, NEW r, Goes(t, r), r.on \in {None, th[t].on},
         Well(r, opened, key, requests', came), requests' \in requests..MaxRequests,
         UNCHANGED <<kept, opened, delivered, wire, carried, answered, came>>,
         owed' \subseteq owed, acked' \subseteq Deliveries \X Sessions
  PROVE  PoolInv'
<1>1. /\ kept' \in [Keys -> Seq(Sessions)]
      /\ \A k \in Keys : Range(kept'[k]) \subseteq Range(kept[k]) /\ IsInjective(kept'[k])
  BY DEF PoolInv, TypeOK, Apart
<1>2. QED BY <1>1, PlainGoes

\* What every step may use of where things stand.
LEMMA Stand ==
  ASSUME PoolInv
  PROVE  /\ opened \in Nat /\ requests \in Nat /\ delivered \in Nat /\ opened <= MaxOpened
         /\ requests \in requests..MaxRequests /\ MaxRequests \in Nat /\ MaxOpened \in Nat
         /\ acked \subseteq Deliveries \X Sessions
         /\ None \notin Sessions
         /\ \A d \in 1..delivered : d \in Deliveries
         /\ \A t \in Threads : Well(th[t], opened, key, requests, came) /\ th[t] \in Threadings
<1>1. \A d \in 1..delivered : d \in Deliveries
  <2>1. delivered \in 0..MaxDelivered /\ MaxDelivered \in Nat
    BY PoolAssumption DEF PoolInv, TypeOK
  <2>2. QED BY <2>1 DEF Deliveries
<1>2. QED BY <1>1, PoolAssumption DEF PoolInv, TypeOK, AllWell, Well, None, Sessions

LEMMA PoolInit == Init => PoolInv
<1> SUFFICES ASSUME Init PROVE PoolInv
  OBVIOUS
<1>1. Idle \in Threadings /\ Idle.pc = "idle" /\ Idle.on = None /\ Idle.got = {} /\ Idle.op = "none"
  BY DEF Idle, Threadings, Places
<1>2. Well(Idle, opened, key, requests, came)
  BY <1>1 DEF Well, Out
<1>3. \A t \in Threads : th[t] = Idle
  BY DEF Init
<1>4. AllWell
  BY <1>2, <1>3 DEF AllWell
<1>5. TypeOK
  <2>1. \A t \in Threads :
          /\ th[t].on # None <=> th[t].pc \in {"check", "write", "read", "keep", "push"}
          /\ th[t].op = "ack" => th[t].pc \notin {"letgo", "open"} /\ ~th[t].fresh
    BY <1>1, <1>3
  <2>2. /\ kept \in [Keys -> Seq(Sessions)] /\ asked \in [Sessions -> Seq(Requests)]
        /\ inbox \in [Sessions -> Seq(Nat)]
    BY EmptySeq DEF Init
  <2>3. th \in [Threads -> Threadings]
    BY <1>1 DEF Init
  <2>4. /\ opened \in 0..MaxOpened /\ requests \in 0..MaxRequests /\ delivered \in 0..MaxDelivered
        /\ key \in [Sessions -> Keys \cup {"none"}] /\ far \in [Sessions -> BOOLEAN]
    BY PoolAssumption DEF Init
  <2>5. /\ owed \subseteq Deliveries /\ carried \in [Requests -> Nat]
        /\ answered \subseteq Requests \X Nat
        /\ came \in [Deliveries -> Sessions \cup {None}] /\ acked \subseteq Deliveries \X Sessions
    BY DEF Init
  <2>6. QED BY <2>1, <2>2, <2>3, <2>4, <2>5 DEF TypeOK
<1>6. DOMAIN <<>> = {} /\ IsInjective(<<>>) /\ Range(<<>>) = {}
  BY DEF IsInjective, Range
<1>7. Wires
  <2>1. \A s \in Sessions : s \in Nat /\ ~(s <= 0)
    BY PoolAssumption DEF Sessions
  <2>2. QED BY <1>6, <2>1 DEF Init, Wires
<1>8. Apart
  BY <1>1, <1>3, <1>6 DEF Init, Apart
<1>9. QED BY <1>4, <1>5, <1>7, <1>8 DEF PoolInv

LEMMA PoolBegins ==
  ASSUME PoolInv, NEW t \in Threads,
         \/ \E k \in Sends : Send(t, k)
         \/ \E k \in Receives : Receive(t, k)
         \/ \E d \in owed : Acknowledge(t, d)
  PROVE  PoolInv'
<1>1. CASE \E k \in Sends : Send(t, k)
  <2>1. PICK k \in Sends : Send(t, k)
    BY <1>1
  <2>2. PICK r : r = [Idle EXCEPT !.pc = "take", !.op = "send", !.key = k, !.id = requests + 1]
    OBVIOUS
  <2>3. requests' = requests + 1 /\ requests' \in requests..MaxRequests /\ requests' \in Nat
    <3>1. requests \in Nat /\ MaxRequests \in Nat /\ requests < MaxRequests /\ requests' = requests + 1
      BY <2>1, Stand DEF Send
    <3>2. QED BY <3>1
  <2>4. /\ r.pc = "take" /\ r.op = "send" /\ r.key = k /\ r.id = requests + 1
        /\ r.on = None /\ r.fresh = FALSE /\ r.got = {} /\ r \in Threadings
    <3>1. PICK i \in Nat : i = requests + 1
      BY <2>3
    <3>2. QED BY <2>2, <3>1 DEF Idle, Threadings, Places, Keys
  <2>5. Well(r, opened, key, requests', came)
    BY <2>3, <2>4, Stand DEF Well, Does, Out
  <2>6. /\ Goes(t, r) /\ UNCHANGED <<kept, opened, delivered, wire, carried, answered, came, owed, acked>>
    BY <2>1, <2>2 DEF Send, past
  <2>7. QED BY <2>3, <2>4, <2>5, <2>6, Stand, PlainKept
<1>2. CASE \E k \in Receives : Receive(t, k)
  <2>1. PICK k \in Receives : Receive(t, k)
    BY <1>2
  <2>2. PICK r : r = [Idle EXCEPT !.pc = "take", !.op = "receive", !.key = k]
    OBVIOUS
  <2>3. /\ r.pc = "take" /\ r.op = "receive" /\ r.key = k
        /\ r.on = None /\ r.fresh = FALSE /\ r.got = {} /\ r \in Threadings
    BY <2>2 DEF Idle, Threadings, Places, Keys
  <2>4. Well(r, opened, key, requests, came)
    BY <2>3 DEF Well, Does, Out
  <2>5. /\ Goes(t, r)
        /\ UNCHANGED <<kept, opened, delivered, requests, wire, carried, answered, came, owed, acked>>
    BY <2>1, <2>2 DEF Receive, past, count
  <2>6. QED BY <2>3, <2>4, <2>5, Stand, PlainKept
<1>3. CASE \E d \in owed : Acknowledge(t, d)
  <2>1. PICK d \in owed : Acknowledge(t, d)
    BY <1>3
  <2>2. PICK r : r = [Idle EXCEPT !.pc = "take", !.op = "ack", !.key = key[came[d]], !.id = d]
    OBVIOUS
  <2>3. d \in Deliveries /\ d \in Nat /\ came[d] # None /\ key[came[d]] \in Receives
    BY DEF PoolInv, TypeOK, Wires, Deliveries
  <2>4. /\ r.pc = "take" /\ r.op = "ack" /\ r.key = key[came[d]] /\ r.id = d
        /\ r.on = None /\ r.fresh = FALSE /\ r.got = {} /\ r \in Threadings
    BY <2>2, <2>3 DEF Idle, Threadings, Places, Keys
  <2>5. Well(r, opened, key, requests, came)
    BY <2>3, <2>4 DEF Well, Does, Out
  <2>6. /\ Goes(t, r) /\ owed' \subseteq owed
        /\ UNCHANGED <<kept, opened, delivered, requests, wire, carried, answered, came, acked>>
    BY <2>1, <2>2 DEF Acknowledge, past, count
  <2>7. QED BY <2>4, <2>5, <2>6, Stand, PlainKept
<1>4. QED BY <1>1, <1>2, <1>3

LEMMA IdleIsWell ==
  /\ Idle.pc = "idle" /\ Idle.on = None /\ Idle.got = {} /\ Idle.op = "none"
  /\ \A op, ky, rq, cm : Well(Idle, op, ky, rq, cm)
<1>1. Idle \in Threadings /\ Idle.pc = "idle" /\ Idle.on = None /\ Idle.got = {} /\ Idle.op = "none"
  BY DEF Idle, Threadings, Places
<1>2. QED BY <1>1 DEF Well, Out

LEMMA KeptSeqs ==
  ASSUME PoolInv, NEW k \in Keys
  PROVE  kept[k] \in Seq(Sessions) /\ IsInjective(kept[k]) /\ Range(kept[k]) \subseteq Sessions
<1>1. kept[k] \in Seq(Sessions) /\ IsInjective(kept[k])
  BY DEF PoolInv, TypeOK, Apart
<1>2. QED BY <1>1, LenProperties, ElementOfSeq DEF Range

\* A session found is taken and is the thread's.
LEMMA PoolPopFound ==
  ASSUME PoolInv, NEW t \in Threads, Pop(t), Found(t) # <<>>
  PROVE  PoolInv'
<1>1. PICK q : q = th[t]
  OBVIOUS
<1>2. q \in Threadings /\ Well(q, opened, key, requests, came) /\ q.pc = "take" /\ q.on = None
  BY <1>1, Stand DEF Pop, Well, Out
<1>3. PICK k \in Keys : k = q.key
  BY <1>2 DEF Well, Does, Keys
<1>4. kept[k] \in Seq(Sessions) /\ IsInjective(kept[k]) /\ kept[k] # <<>> /\ Range(kept[k]) \subseteq Sessions
  BY <1>1, <1>3, KeptSeqs DEF Found
<1>5. PICK left : left = Front(kept[k])
  OBVIOUS
<1>6. PICK s : s = Last(kept[k])
  OBVIOUS
<1>7. /\ left \in Seq(Sessions) /\ IsInjective(left) /\ Range(left) \subseteq Range(kept[k])
      /\ s \in Range(kept[k]) /\ s \notin Range(left) /\ s \in Sessions
  BY <1>4, <1>5, <1>6, TakenIs
<1>8. s <= opened /\ key[s] = k /\ \A u \in Threads : th[u].on # s
  BY <1>7 DEF PoolInv, Apart
<1>9. PICK r : r = [q EXCEPT !.pc = "check", !.on = s]
  OBVIOUS
<1>10. /\ Goes(t, r) /\ kept' = [kept EXCEPT ![k] = left]
       /\ UNCHANGED <<count, wire, owed, past>>
  BY <1>1, <1>3, <1>5, <1>6, <1>9 DEF Pop, Taken
<1>11. /\ r \in Threadings /\ r.pc = "check" /\ r.on = s /\ r.op = q.op /\ r.key = q.key
       /\ r.fresh = q.fresh /\ r.id = q.id /\ r.got = q.got
  BY <1>2, <1>7, <1>9 DEF Threadings, Places
<1>12. Well(r, opened, key, requests, came)
  <2>1. Does(r, key, requests, came)
    BY <1>2, <1>11 DEF Well, Does
  <2>2. r.on <= opened /\ key[r.on] = r.key /\ r.on # None
    BY <1>3, <1>7, <1>8, <1>11, Stand
  <2>3. r.got = {}
    BY <1>2, <1>11 DEF Well
  <2>4. QED BY <1>2, <1>11, <2>1, <2>2, <2>3 DEF Well, Out
<1>13. UNCHANGED <<opened, requests, delivered, key, far, asked, inbox, carried, answered, came, acked, owed>>
  BY <1>10 DEF count, wire, past
<1>14. AllWell' /\ th' \in [Threads -> Threadings]
  BY <1>10, <1>12, <1>13, Stand, AllWellGoes DEF PoolInv
<1>15. Wires'
  BY <1>13, WiresStay DEF PoolInv, wire
<1>16. kept' \in [Keys -> Seq(Sessions)] /\ kept'[k] = left /\ \A l \in Keys : l # k => kept'[l] = kept[l]
  BY <1>7, <1>10 DEF PoolInv, TypeOK
<1>17. TypeOK'
  BY <1>13, <1>14, <1>16, TypedNext DEF PoolInv, TypeOK
<1>18. Apart'
  <2>1. th'[t] = r /\ \A u \in Threads : u # t => th'[u] = th[u]
    BY <1>10, GoesTo DEF PoolInv
  <2>2. \A l \in Keys : IsInjective(kept'[l])
    BY <1>7, <1>16 DEF PoolInv, Apart
  <2>3. \A l \in Keys : \A x \in Range(kept'[l]) : x <= opened /\ key[x] = l /\ x \in Range(kept[l])
    BY <1>7, <1>16 DEF PoolInv, Apart
  <2>4. \A l \in Keys : \A x \in Range(kept'[l]) : x # s
    BY <1>7, <1>8, <1>16, <2>3
  <2>5. \A l \in Keys : \A x \in Range(kept'[l]) : \A u \in Threads : th'[u].on # x
    <3>1. \A l \in Keys : \A x \in Range(kept'[l]) : \A u \in Threads : th[u].on # x
      BY <2>3 DEF PoolInv, Apart
    <3>2. \A u \in Threads : th'[u].on = IF u = t THEN s ELSE th[u].on
      BY <1>11, <2>1
    <3>3. QED BY <2>4, <3>1, <3>2
  <2>6. \A u, v \in Threads : th'[u].on # None /\ th'[u].on = th'[v].on => u = v
    BY <1>8, <1>11, <2>1 DEF PoolInv, Apart
  <2>7. QED BY <1>13, <2>2, <2>3, <2>5, <2>6 DEF Apart
<1>19. QED BY <1>14, <1>15, <1>17, <1>18 DEF PoolInv

LEMMA PoolTakes ==
  ASSUME PoolInv, NEW t \in Threads, Pop(t) \/ Check(t) \/ LetGoUnusable(t) \/ OpenFails(t)
  PROVE  PoolInv'
<1>1. PICK q : q = th[t]
  OBVIOUS
<1>2. q \in Threadings /\ Well(q, opened, key, requests, came)
  BY <1>1, Stand
<1>3. CASE Pop(t)
  <2>1. CASE Found(t) # <<>>
    BY <1>3, <2>1, PoolPopFound
  <2>2. CASE Found(t) = <<>>
    <3>1. /\ q.pc = "take" /\ q.on = None /\ Goes(t, NoneFound(t))
          /\ UNCHANGED <<kept, count, wire, owed, past>>
      BY <1>1, <1>2, <1>3, <2>2 DEF Pop, Well, Out
    <3>2. PICK r : r = NoneFound(t)
      OBVIOUS
    <3>3. Well(r, opened, key, requests, came) /\ r.on = None
      <4>1. CASE q.op = "ack"
        BY <1>1, <3>2, <4>1, IdleIsWell DEF NoneFound
      <4>2. CASE q.op # "ack"
        <5>1. r = [q EXCEPT !.pc = "letgo"]
          BY <1>1, <3>2, <4>2 DEF NoneFound
        <5>2. /\ r \in Threadings /\ r.pc = "letgo" /\ r.on = q.on /\ r.op = q.op /\ r.key = q.key
              /\ r.fresh = q.fresh /\ r.id = q.id /\ r.got = q.got
          BY <1>2, <5>1 DEF Threadings, Places
        <5>3. Does(r, key, requests, came)
          BY <1>2, <3>1, <5>2 DEF Well, Does
        <5>4. QED BY <1>2, <3>1, <4>2, <5>2, <5>3 DEF Well, Out
      <4>3. QED BY <4>1, <4>2
    <3>4. QED BY <3>1, <3>2, <3>3, Stand, PlainKept DEF count, past
  <2>3. QED BY <2>1, <2>2
<1>4. CASE Check(t)
  <2>1. PICK r : r = IF Usable(q.on) THEN [q EXCEPT !.pc = Begins(t)]
                     ELSE [q EXCEPT !.pc = "take", !.on = None]
    OBVIOUS
  <2>2. q.pc = "check" /\ Goes(t, r) /\ UNCHANGED <<kept, count, wire, owed, past>>
    BY <1>1, <1>4, <2>1 DEF Check
  <2>3. Well(r, opened, key, requests, came) /\ r.on \in {None, q.on}
    <3>1. Begins(t) \in {"read", "write"} /\ (Begins(t) = "read" <=> q.op = "receive")
      BY <1>1 DEF Begins
    <3>2. q.got = {} /\ Does(q, key, requests, came) /\ q.fresh = FALSE
      BY <1>2, <2>2 DEF Well, Threadings
    <3>3. CASE Usable(q.on)
      <4>1. PICK pc : pc = Begins(t)
        OBVIOUS
      <4>2. r = [q EXCEPT !.pc = pc] /\ pc \in Places
        BY <2>1, <3>1, <3>3, <4>1 DEF Places
      <4>3. /\ r \in Threadings /\ r.pc = pc /\ r.on = q.on /\ r.op = q.op /\ r.key = q.key
            /\ r.fresh = q.fresh /\ r.id = q.id /\ r.got = q.got
        BY <1>2, <4>2 DEF Threadings
      <4>4. Does(r, key, requests, came)
        BY <3>2, <4>3 DEF Does
      <4>5. r.on # None /\ r.on <= opened /\ key[r.on] = r.key
        BY <1>2, <2>2, <4>3 DEF Well, Out
      <4>6. QED BY <3>1, <3>2, <4>1, <4>3, <4>4, <4>5 DEF Well, Out
    <3>4. CASE ~Usable(q.on)
      <4>1. r = [q EXCEPT !.pc = "take", !.on = None]
        BY <2>1, <3>4
      <4>2. /\ r \in Threadings /\ r.pc = "take" /\ r.on = None /\ r.op = q.op /\ r.key = q.key
            /\ r.fresh = q.fresh /\ r.id = q.id /\ r.got = q.got
        BY <1>2, <4>1 DEF Threadings, Places
      <4>3. Does(r, key, requests, came)
        BY <3>2, <4>2 DEF Does
      <4>4. QED BY <3>2, <4>2, <4>3 DEF Well, Out
    <3>5. QED BY <3>3, <3>4
  <2>4. QED BY <1>1, <2>2, <2>3, Stand, PlainKept DEF count, past
<1>5. CASE LetGoUnusable(t)
  <2>1. PICK r : r = [q EXCEPT !.pc = "open"]
    OBVIOUS
  <2>2. /\ q.pc = "letgo" /\ Goes(t, r) /\ UNCHANGED <<count, wire, owed, past>>
        /\ kept' = [k \in Keys |-> UsableOf(kept[k])]
    BY <1>1, <1>5, <2>1 DEF LetGoUnusable
  <2>3. /\ r \in Threadings /\ r.pc = "open" /\ r.on = q.on /\ r.op = q.op /\ r.key = q.key
        /\ r.fresh = q.fresh /\ r.id = q.id /\ r.got = q.got
    BY <1>2, <2>1 DEF Threadings, Places
  <2>4. Does(r, key, requests, came)
    BY <1>2, <2>2, <2>3 DEF Well, Does
  <2>5. Well(r, opened, key, requests, came)
    BY <1>2, <2>2, <2>3, <2>4 DEF Well, Out
  <2>6. ASSUME NEW k \in Keys
        PROVE  /\ UsableOf(kept[k]) \in Seq(Sessions) /\ IsInjective(UsableOf(kept[k]))
               /\ Range(UsableOf(kept[k])) \subseteq Range(kept[k])
    BY KeptSeqs, UsableOfIsSome
  <2>7. kept' \in [Keys -> Seq(Sessions)]
        /\ \A k \in Keys : Range(kept'[k]) \subseteq Range(kept[k]) /\ IsInjective(kept'[k])
    BY <2>2, <2>6
  <2>8. QED BY <1>1, <2>2, <2>3, <2>5, <2>7, Stand, PlainGoes DEF count, past
<1>6. CASE OpenFails(t)
  BY <1>6, IdleIsWell, Stand, PlainKept DEF OpenFails, Ends, count, past
<1>7. QED BY <1>3, <1>4, <1>5, <1>6

LEMMA PoolOpen ==
  ASSUME PoolInv, NEW t \in Threads, Open(t)
  PROVE  PoolInv'
<1>1. PICK q : q = th[t]
  OBVIOUS
<1>2. PICK s : s = opened + 1
  OBVIOUS
<1>3. PICK pc : pc = Begins(t)
  OBVIOUS
<1>4. PICK r : r = [q EXCEPT !.pc = pc, !.on = s, !.fresh = TRUE]
  OBVIOUS
<1>5. /\ opened < MaxOpened /\ opened' = s /\ far' = [far EXCEPT ![s] = TRUE]
      /\ key' = [key EXCEPT ![s] = q.key] /\ Goes(t, r) /\ q.pc = "open"
      /\ UNCHANGED <<kept, asked, inbox, requests, delivered, owed, past>>
  BY <1>1, <1>2, <1>3, <1>4 DEF Open
<1>6. q \in Threadings /\ Well(q, opened, key, requests, came)
  BY <1>1, Stand
<1>7. s \in Sessions /\ s \in Nat /\ opened < s /\ opened <= s /\ ~(s <= opened) /\ s # None /\ s <= s
  BY <1>2, <1>5, Stand DEF Sessions, None
<1>8. pc \in {"read", "write"} /\ (pc = "read" <=> q.op = "receive")
  BY <1>1, <1>3 DEF Begins
<1>9. /\ r \in Threadings /\ r.pc = pc /\ r.on = s /\ r.op = q.op /\ r.key = q.key
      /\ r.fresh = TRUE /\ r.id = q.id /\ r.got = q.got
  BY <1>4, <1>6, <1>7, <1>8 DEF Threadings, Places
<1>10. q.op # "ack" /\ q.got = {} /\ Does(q, key, requests, came) /\ q.key \in Keys
  BY <1>5, <1>6 DEF Well, Does, Keys
<1>11. key \in [Sessions -> Keys \cup {"none"}] /\ far \in [Sessions -> BOOLEAN]
  BY DEF PoolInv, TypeOK
<1>12. /\ key' \in [Sessions -> Keys \cup {"none"}] /\ key'[s] = q.key
       /\ \A x \in Sessions : x # s => key'[x] = key[x]
       /\ far' \in [Sessions -> BOOLEAN] /\ \A x \in Sessions : x # s => far'[x] = far[x]
  BY <1>5, <1>7, <1>10, <1>11
<1>13. \A x \in Sessions : x <= opened => x # s /\ key'[x] = key[x]
  BY <1>7, <1>12
<1>14. UNCHANGED <<carried, answered, came, acked>>
  BY <1>5 DEF past
<1>15. Well(r, opened', key', requests', came')
  <2>1. Does(r, key', requests', came')
    BY <1>5, <1>9, <1>10, <1>14 DEF Does
  <2>2. QED BY <1>5, <1>7, <1>8, <1>9, <1>10, <1>12, <2>1 DEF Well, Out
<1>16. AllWell' /\ th' \in [Threads -> Threadings]
  <2>1. /\ opened' \in Nat /\ requests' \in Nat /\ opened <= opened' /\ requests <= requests'
        /\ \A d \in Deliveries : came[d] # None => came'[d] = came[d]
    BY <1>5, <1>7, <1>14, Stand
  <2>2. QED BY <1>5, <1>13, <1>15, <2>1, AllWellGoes DEF PoolInv
<1>17. TypeOK'
  <2>1. opened' \in 0..MaxOpened
    BY <1>2, <1>5, Stand
  <2>2. QED BY <1>5, <1>12, <1>14, <1>16, <2>1, TypedNext DEF PoolInv, TypeOK
<1>18. asked[s] = <<>> /\ inbox[s] = <<>>
  BY <1>7 DEF PoolInv, Wires
<1>19. DOMAIN <<>> = {} /\ IsInjective(<<>>) /\ Range(<<>>) = {}
  BY DEF IsInjective, Range
<1>20. Wires'
  <2>1. \A x \in Sessions : x <= opened' => key'[x] \in Keys
    <3>1. \A x \in Sessions : x <= s => x = s \/ x <= opened
      BY <1>2, Stand DEF Sessions
    <3>2. QED BY <1>5, <1>10, <1>12, <1>13, <3>1 DEF PoolInv, Wires
  <2>2. \A x \in Sessions : x > opened' => ~far'[x] /\ asked'[x] = <<>> /\ inbox'[x] = <<>>
    <3>1. \A x \in Sessions : x > s => x # s /\ x > opened
      BY <1>2, Stand DEF Sessions
    <3>2. QED BY <1>5, <1>12, <3>1 DEF PoolInv, Wires
  <2>3. \A x \in Sessions : asked'[x] # <<>> => key'[x] \in Sends
    BY <1>5, <1>12, <1>18 DEF PoolInv, Wires
  <2>4. \A x \in Sessions : key'[x] \in Receives =>
          IsInjective(inbox'[x]) /\ \A d \in Range(inbox'[x]) : d \in 1..delivered' /\ came'[d] = None
    BY <1>5, <1>12, <1>14, <1>18, <1>19 DEF PoolInv, Wires
  <2>5. \A x, y \in Sessions : key'[x] \in Receives /\ key'[y] \in Receives /\ x # y =>
          Range(inbox'[x]) \cap Range(inbox'[y]) = {}
    BY <1>5, <1>12, <1>18, <1>19 DEF PoolInv, Wires
  <2>6. \A d \in Deliveries : came'[d] # None =>
          came'[d] <= opened' /\ key'[came'[d]] \in Receives /\ d <= delivered'
    <3> SUFFICES ASSUME NEW d \in Deliveries, came[d] # None
                 PROVE  came[d] <= s /\ key'[came[d]] \in Receives /\ d <= delivered
      BY <1>5, <1>14
    <3>1. came[d] <= opened /\ key[came[d]] \in Receives /\ d <= delivered /\ came[d] \in Sessions
      BY DEF PoolInv, Wires, TypeOK
    <3>2. came[d] <= s
      BY <1>2, <3>1, Stand DEF Sessions
    <3>3. QED BY <1>13, <3>1, <3>2
  <2>7. \A d \in owed' : came'[d] # None
    BY <1>5, <1>14 DEF PoolInv, Wires
  <2>8. QED BY <2>1, <2>2, <2>3, <2>4, <2>5, <2>6, <2>7 DEF Wires
<1>21. Apart'
  <2>1. th'[t] = r /\ \A u \in Threads : u # t => th'[u] = th[u]
    BY <1>5, GoesTo DEF PoolInv
  <2>2. \A u \in Threads : th[u].on # s
    BY <1>7, Stand DEF Well
  <2>3. \A k \in Keys : \A x \in Range(kept[k]) : x \in Sessions /\ x <= opened /\ x # s /\ key[x] = k
    BY <1>7, KeptSeqs DEF PoolInv, Apart
  <2>4. \A k \in Keys : \A x \in Range(kept'[k]) : x <= opened' /\ key'[x] = k
    <3>1. \A x \in Sessions : x <= opened => x <= s
      BY <1>2, Stand DEF Sessions
    <3>2. QED BY <1>5, <1>13, <2>3, <3>1
  <2>5. \A k \in Keys : IsInjective(kept'[k])
    BY <1>5 DEF PoolInv, Apart
  <2>6. \A k \in Keys : \A x \in Range(kept'[k]) : \A u \in Threads : th'[u].on # x
    BY <1>5, <1>9, <2>1, <2>3 DEF PoolInv, Apart
  <2>7. \A u, v \in Threads : th'[u].on # None /\ th'[u].on = th'[v].on => u = v
    BY <1>9, <2>1, <2>2 DEF PoolInv, Apart
  <2>8. QED BY <2>4, <2>5, <2>6, <2>7 DEF Apart
<1>22. QED BY <1>16, <1>17, <1>20, <1>21 DEF PoolInv

\* A thread goes on with the session it has out, and only what is said on
\* that one, or was read, changes.
LEMMA PlainExchange ==
  ASSUME PoolInv, NEW t \in Threads, NEW r, Goes(t, r), r.on = th[t].on,
         Well(r, opened, key, requests, came'),
         UNCHANGED <<kept, opened, delivered, requests, key, far, carried>>,
         \A d \in Deliveries : came[d] # None => came'[d] = came[d],
         came' \in [Deliveries -> Sessions \cup {None}],
         asked' \in [Sessions -> Seq(Requests)], inbox' \in [Sessions -> Seq(Nat)],
         owed' \subseteq Deliveries, answered' \subseteq Requests \X Nat,
         acked' \subseteq Deliveries \X Sessions,
         Wires'
  PROVE  PoolInv'
<1>1. AllWell' /\ th' \in [Threads -> Threadings]
  BY Stand, AllWellGoes DEF PoolInv
<1>2. Apart'
  <2>1. \A k \in Keys : Range(kept'[k]) \subseteq Range(kept[k]) /\ IsInjective(kept'[k])
    BY DEF PoolInv, Apart
  <2>2. QED BY <2>1, ApartStays DEF PoolInv
<1>3. TypeOK'
  BY <1>1, TypedNext DEF PoolInv, TypeOK
<1>4. QED BY <1>1, <1>2, <1>3 DEF PoolInv

LEMMA PoolWrite ==
  ASSUME PoolInv, NEW t \in Threads, Write(t)
  PROVE  PoolInv'
<1>1. PICK q : q = th[t]
  OBVIOUS
<1>2. /\ q \in Threadings /\ Well(q, opened, key, requests, came) /\ q.pc = "write"
      /\ UNCHANGED <<kept, count, key, far, inbox, owed, carried, answered, came>>
  BY <1>1, Stand DEF Write
<1>3. q.on \in Sessions /\ q.on <= opened /\ key[q.on] = q.key /\ q.got = {} /\ Does(q, key, requests, came)
  BY <1>2 DEF Well, Threadings, Out
<1>4. PICK pc \in {"keep", "read"} : pc = IF q.op = "ack" THEN "keep" ELSE "read"
  OBVIOUS
<1>5. PICK r : r = [q EXCEPT !.pc = pc]
  OBVIOUS
<1>6. /\ r \in Threadings /\ r.pc = pc /\ r.on = q.on /\ r.op = q.op /\ r.key = q.key
      /\ r.fresh = q.fresh /\ r.id = q.id /\ r.got = q.got
  BY <1>2, <1>5 DEF Threadings, Places
<1>7. Well(r, opened, key, requests, came)
  <2>1. Does(r, key, requests, came)
    BY <1>3, <1>6 DEF Does
  <2>2. QED BY <1>2, <1>3, <1>4, <1>6, <2>1 DEF Well, Out
<1>8. Goes(t, r)
  BY <1>1, <1>2, <1>4, <1>5 DEF Write
<1>9. CASE q.op = "ack"
  <2>1. acked' = acked \cup {<<q.id, q.on>>} /\ asked' = asked
    BY <1>1, <1>9 DEF Write
  <2>2. q.id \in Deliveries
    BY <1>3, <1>9 DEF Does
  <2>3. acked' \subseteq Deliveries \X Sessions
    BY <1>3, <2>1, <2>2, Stand
  <2>4. UNCHANGED <<kept, opened, delivered, requests, wire, carried, answered, came, owed>>
    BY <1>2, <2>1 DEF wire, count
  <2>5. QED BY <1>1, <1>6, <1>7, <1>8, <2>3, <2>4, Stand, PlainKept
<1>10. CASE q.op # "ack"
  <2>1. /\ asked' = IF far[q.on] THEN [asked EXCEPT ![q.on] = Append(@, q.id)] ELSE asked
        /\ acked' = acked
    BY <1>1, <1>10 DEF Write
  <2>2. q.op = "send" /\ q.key \in Sends /\ q.id \in 1..requests
    BY <1>2, <1>3, <1>10 DEF Does, Well
  <2>3. q.id \in Requests
    BY <2>2, Stand DEF Requests, PoolInv, TypeOK
  <2>4. asked[q.on] \in Seq(Requests) /\ asked \in [Sessions -> Seq(Requests)]
    BY <1>3 DEF PoolInv, TypeOK
  <2>5. asked' \in [Sessions -> Seq(Requests)] /\ \A s \in Sessions : s # q.on => asked'[s] = asked[s]
    <3>1. Append(asked[q.on], q.id) \in Seq(Requests)
      BY <2>3, <2>4, AppendProperties
    <3>2. QED BY <1>3, <2>1, <2>4, <3>1
  <2>6. UNCHANGED <<opened, requests, delivered>>
    BY <1>2 DEF count
  <2>7. Wires'
    <3>1. \A s \in Sessions : s > opened' => ~far'[s] /\ asked'[s] = <<>> /\ inbox'[s] = <<>>
      <4>1. \A s \in Sessions : s > opened => s # q.on
        BY <1>3, Stand DEF Sessions
      <4>2. QED BY <1>2, <2>5, <2>6, <4>1 DEF PoolInv, Wires
    <3>2. \A s \in Sessions : asked'[s] # <<>> => key'[s] \in Sends
      BY <1>2, <1>3, <2>2, <2>5 DEF PoolInv, Wires
    <3>3. QED BY <1>2, <2>6, <3>1, <3>2 DEF PoolInv, Wires
  <2>8. /\ UNCHANGED <<kept, opened, delivered, requests, key, far, carried, inbox, owed, came, answered>>
        /\ inbox \in [Sessions -> Seq(Nat)] /\ owed \subseteq Deliveries
        /\ answered \subseteq Requests \X Nat /\ came \in [Deliveries -> Sessions \cup {None}]
    BY <1>2, <2>6 DEF PoolInv, TypeOK
  <2>9. QED BY <1>1, <1>6, <1>7, <1>8, <2>1, <2>5, <2>7, <2>8, Stand, PlainExchange
<1>11. QED BY <1>9, <1>10

LEMMA PoolReads ==
  ASSUME PoolInv, NEW t \in Threads, ReadAnswer(t) \/ ReadDelivery(t)
  PROVE  PoolInv'
<1>1. PICK q : q = th[t]
  OBVIOUS
<1>2. /\ q \in Threadings /\ Well(q, opened, key, requests, came) /\ q.pc = "read"
      /\ UNCHANGED <<kept, count, key, far, asked, owed, carried, acked>>
  BY <1>1, Stand DEF ReadAnswer, ReadDelivery
<1>3. PICK s \in Sessions : s = q.on
  BY <1>2 DEF Well, Threadings, Out
<1>4. s <= opened /\ key[s] = q.key /\ Does(q, key, requests, came)
  BY <1>2, <1>3 DEF Well, Out
<1>5. inbox[s] # <<>> /\ inbox' = [inbox EXCEPT ![s] = Tail(@)]
  BY <1>1, <1>3 DEF ReadAnswer, ReadDelivery
<1>6. inbox \in [Sessions -> Seq(Nat)] /\ inbox[s] \in Seq(Nat)
  BY DEF PoolInv, TypeOK
<1>7. PICK h : h = Head(inbox[s])
  OBVIOUS
<1>8. PICK left : left = Tail(inbox[s])
  OBVIOUS
<1>9. /\ h \in Nat /\ left \in Seq(Nat) /\ h \in Range(inbox[s]) /\ Range(left) \subseteq Range(inbox[s])
      /\ IsInjective(inbox[s]) => IsInjective(left) /\ h \notin Range(left)
  BY <1>5, <1>6, <1>7, <1>8, ReadIs
<1>10. inbox' \in [Sessions -> Seq(Nat)] /\ inbox'[s] = left /\ \A x \in Sessions : x # s => inbox'[x] = inbox[x]
  BY <1>5, <1>6, <1>8, <1>9
<1>11. UNCHANGED <<opened, requests, delivered>>
  BY <1>2 DEF count
<1>12. \A x \in Sessions : x > opened => inbox'[x] = <<>>
  <2>1. \A x \in Sessions : x > opened => x # s
    BY <1>4, Stand DEF Sessions
  <2>2. QED BY <1>10, <2>1 DEF PoolInv, Wires
<1>13. CASE ReadAnswer(t)
  <2>1. PICK r : r = [q EXCEPT !.pc = "keep"]
    OBVIOUS
  <2>2. /\ q.op = "send" /\ Goes(t, r) /\ UNCHANGED came
        /\ answered' = answered \cup {<<q.id, h>>}
    BY <1>1, <1>3, <1>7, <1>13, <2>1 DEF ReadAnswer
  <2>3. /\ r \in Threadings /\ r.pc = "keep" /\ r.on = q.on /\ r.op = q.op /\ r.key = q.key
        /\ r.fresh = q.fresh /\ r.id = q.id /\ r.got = q.got
    BY <1>2, <2>1 DEF Threadings, Places
  <2>4. q.key \in Sends /\ q.id \in 1..requests /\ q.key \notin Receives
    BY <1>4, <2>2, PoolAssumption DEF Does
  <2>5. q.id \in Requests
    BY <2>4, Stand DEF Requests, PoolInv, TypeOK
  <2>6. answered' \subseteq Requests \X Nat
    BY <1>9, <2>2, <2>5 DEF PoolInv, TypeOK
  <2>7. Well(r, opened, key, requests, came)
    <3>1. Does(r, key, requests, came)
      BY <1>4, <2>3 DEF Does
    <3>2. q.got = {}
      BY <1>2, <2>2 DEF Well
    <3>3. QED BY <1>2, <2>2, <2>3, <3>1, <3>2 DEF Well, Out
  <2>8. \A x \in Sessions : key[x] \in Receives => x # s
    BY <1>4, <2>4
  <2>9. Wires'
    <3>1. \A x \in Sessions : key'[x] \in Receives => inbox'[x] = inbox[x]
      BY <1>2, <1>10, <2>8
    <3>2. \A x \in Sessions : key'[x] \in Receives =>
            IsInjective(inbox'[x]) /\ \A d \in Range(inbox'[x]) : d \in 1..delivered' /\ came'[d] = None
      BY <1>2, <1>11, <2>2, <3>1 DEF PoolInv, Wires
    <3>3. \A x, y \in Sessions : key'[x] \in Receives /\ key'[y] \in Receives /\ x # y =>
            Range(inbox'[x]) \cap Range(inbox'[y]) = {}
      BY <1>2, <3>1 DEF PoolInv, Wires
    <3>4. \A x \in Sessions : x > opened' => ~far'[x] /\ asked'[x] = <<>> /\ inbox'[x] = <<>>
      BY <1>2, <1>11, <1>12 DEF PoolInv, Wires
    <3>5. QED BY <1>2, <1>11, <2>2, <3>2, <3>3, <3>4 DEF PoolInv, Wires
  <2>10. /\ UNCHANGED <<kept, opened, delivered, requests, key, far, carried, asked, owed, came, acked>>
         /\ asked \in [Sessions -> Seq(Requests)] /\ owed \subseteq Deliveries
         /\ acked \subseteq Deliveries \X Sessions /\ came \in [Deliveries -> Sessions \cup {None}]
    BY <1>2, <1>11, <2>2 DEF PoolInv, TypeOK
  <2>11. QED BY <1>1, <1>10, <2>2, <2>3, <2>6, <2>7, <2>9, <2>10, PlainExchange
<1>14. CASE ReadDelivery(t)
  <2>1. PICK r : r = [q EXCEPT !.got = q.got \cup {h}]
    OBVIOUS
  <2>2. /\ q.op = "receive" /\ Goes(t, r) /\ UNCHANGED answered
        /\ came' = [came EXCEPT ![h] = s]
    BY <1>1, <1>3, <1>7, <1>14, <2>1 DEF ReadDelivery
  <2>3. q.key \in Receives /\ key[s] \in Receives
    BY <1>4, <2>2 DEF Does
  <2>4. IsInjective(inbox[s]) /\ h \in 1..delivered /\ came[h] = None
    BY <1>9, <2>3 DEF PoolInv, Wires
  <2>5. h \in Deliveries /\ h <= delivered
    BY <2>4, Stand
  <2>6. came \in [Deliveries -> Sessions \cup {None}]
    BY DEF PoolInv, TypeOK
  <2>7. /\ came' \in [Deliveries -> Sessions \cup {None}] /\ came'[h] = s
        /\ \A d \in Deliveries : d # h => came'[d] = came[d]
    BY <2>2, <2>5, <2>6
  <2>8. /\ r \in Threadings /\ r.pc = q.pc /\ r.on = q.on /\ r.op = q.op /\ r.key = q.key
        /\ r.fresh = q.fresh /\ r.id = q.id /\ r.got = q.got \cup {h}
    BY <1>2, <2>1, <2>5 DEF Threadings
  <2>9. Well(r, opened, key, requests, came')
    <3>1. Does(r, key, requests, came')
      BY <1>4, <2>2, <2>3, <2>8 DEF Does
    <3>2. q.got \subseteq Deliveries
      BY <1>2 DEF Threadings
    <3>3. \A d \in r.got : r.pc = "read" /\ r.op = "receive" /\ came'[d] = r.on
      BY <1>2, <1>3, <2>2, <2>7, <2>8, <3>2 DEF Well
    <3>4. QED BY <1>2, <2>2, <2>8, <3>1, <3>3 DEF Well, Out
  <2>10. \A x \in Sessions : Range(inbox'[x]) \subseteq Range(inbox[x])
    BY <1>9, <1>10
  <2>11. \A x \in Sessions : key[x] \in Receives => h \notin Range(inbox'[x]) /\ IsInjective(inbox'[x])
    <3> SUFFICES ASSUME NEW x \in Sessions, key[x] \in Receives
                 PROVE  h \notin Range(inbox'[x]) /\ IsInjective(inbox'[x])
      OBVIOUS
    <3>1. CASE x = s
      BY <1>9, <1>10, <2>4, <3>1
    <3>2. CASE x # s
      <4>1. Range(inbox[x]) \cap Range(inbox[s]) = {} /\ IsInjective(inbox[x])
        BY <2>3, <3>2 DEF PoolInv, Wires
      <4>2. QED BY <1>9, <1>10, <3>2, <4>1
    <3>3. QED BY <3>1, <3>2
  <2>12. Wires'
    <3>1. \A x \in Sessions : key'[x] \in Receives =>
            IsInjective(inbox'[x]) /\ \A d \in Range(inbox'[x]) : d \in 1..delivered' /\ came'[d] = None
      <4> SUFFICES ASSUME NEW x \in Sessions, key[x] \in Receives
                   PROVE  IsInjective(inbox'[x]) /\ \A d \in Range(inbox'[x]) : d \in 1..delivered /\ came'[d] = None
        BY <1>2, <1>11
      <4>1. \A d \in Range(inbox'[x]) : d # h /\ d \in 1..delivered /\ came[d] = None
        BY <2>10, <2>11 DEF PoolInv, Wires
      <4>2. \A d \in 1..delivered : d \in Deliveries
        BY Stand
      <4>3. QED BY <2>7, <2>11, <4>1, <4>2
    <3>2. \A x, y \in Sessions : key'[x] \in Receives /\ key'[y] \in Receives /\ x # y =>
            Range(inbox'[x]) \cap Range(inbox'[y]) = {}
      <4>1. \A x, y \in Sessions : key[x] \in Receives /\ key[y] \in Receives /\ x # y =>
              Range(inbox[x]) \cap Range(inbox[y]) = {}
        BY DEF PoolInv, Wires
      <4>2. QED BY <1>2, <2>10, <4>1
    <3>3. \A x \in Sessions : x > opened' => ~far'[x] /\ asked'[x] = <<>> /\ inbox'[x] = <<>>
      BY <1>2, <1>11, <1>12 DEF PoolInv, Wires
    <3>4. \A d \in Deliveries : came'[d] # None =>
            came'[d] <= opened' /\ key'[came'[d]] \in Receives /\ d <= delivered'
      BY <1>2, <1>4, <1>11, <2>3, <2>5, <2>7 DEF PoolInv, Wires
    <3>5. \A d \in owed' : came'[d] # None
      <4>1. s # None /\ owed \subseteq Deliveries
        BY Stand DEF PoolInv, TypeOK
      <4>2. QED BY <1>2, <2>7, <4>1 DEF PoolInv, Wires
    <3>6. QED BY <1>2, <1>11, <3>1, <3>2, <3>3, <3>4, <3>5 DEF PoolInv, Wires
  <2>13. /\ UNCHANGED <<kept, opened, delivered, requests, key, far, carried, asked, owed, acked>>
         /\ asked \in [Sessions -> Seq(Requests)] /\ owed \subseteq Deliveries
         /\ acked \subseteq Deliveries \X Sessions /\ answered \subseteq Requests \X Nat
    BY <1>2, <1>11 DEF PoolInv, TypeOK
  <2>14. \A d \in Deliveries : came[d] # None => came'[d] = came[d]
    BY <2>4, <2>7
  <2>15. QED BY <1>1, <1>10, <2>2, <2>7, <2>8, <2>9, <2>12, <2>13, <2>14, PlainExchange
<1>15. QED BY <1>13, <1>14

LEMMA PoolHandsOver ==
  ASSUME PoolInv, NEW t \in Threads, HandOver(t)
  PROVE  PoolInv'
<1>1. PICK q : q = th[t]
  OBVIOUS
<1>2. PICK r : r = [q EXCEPT !.pc = "keep", !.got = {}]
  OBVIOUS
<1>3. /\ q \in Threadings /\ Well(q, opened, key, requests, came) /\ q.pc = "read" /\ q.op = "receive"
      /\ owed' = owed \cup q.got /\ Goes(t, r) /\ UNCHANGED <<kept, count, wire, past>>
  BY <1>1, <1>2, Stand DEF HandOver
<1>4. /\ r \in Threadings /\ r.pc = "keep" /\ r.on = q.on /\ r.op = q.op /\ r.key = q.key
      /\ r.fresh = q.fresh /\ r.id = q.id /\ r.got = {}
  BY <1>2, <1>3 DEF Threadings, Places
<1>5. Well(r, opened, key, requests, came)
  <2>1. Does(r, key, requests, came)
    BY <1>3, <1>4 DEF Well, Does
  <2>2. QED BY <1>3, <1>4, <2>1 DEF Well, Out
<1>6. q.got \subseteq Deliveries /\ \A d \in q.got : came[d] # None
  BY <1>3, Stand DEF Well, Threadings, Out
<1>7. /\ UNCHANGED <<kept, opened, delivered, requests, key, far, carried, inbox, asked, came, answered, acked>>
      /\ inbox \in [Sessions -> Seq(Nat)] /\ owed' \subseteq Deliveries
      /\ answered \subseteq Requests \X Nat /\ came \in [Deliveries -> Sessions \cup {None}]
      /\ asked \in [Sessions -> Seq(Requests)] /\ acked \subseteq Deliveries \X Sessions
  BY <1>3, <1>6 DEF PoolInv, TypeOK, count, wire, past
<1>8. Wires'
  BY <1>3, <1>6, <1>7 DEF PoolInv, Wires
<1>9. QED BY <1>1, <1>3, <1>4, <1>5, <1>7, <1>8, PlainExchange

LEMMA PoolFails ==
  ASSUME PoolInv, NEW t \in Threads, Fail(t)
  PROVE  PoolInv'
<1>1. PICK q : q = th[t]
  OBVIOUS
<1>2. /\ q \in Threadings /\ Well(q, opened, key, requests, came) /\ q.pc \in {"write", "read"}
      /\ Goes(t, AfterFailure(t)) /\ UNCHANGED <<kept, count, wire, owed, past>>
  BY <1>1, Stand DEF Fail
<1>3. PICK r : r = AfterFailure(t)
  OBVIOUS
<1>4. Well(r, opened, key, requests, came) /\ r.on = None
  <2>1. CASE q.fresh \/ q.op = "ack"
    BY <1>1, <1>3, <2>1, IdleIsWell DEF AfterFailure
  <2>2. CASE ~(q.fresh \/ q.op = "ack")
    <3>1. r = [q EXCEPT !.pc = "letgo", !.on = None, !.got = {}]
      BY <1>1, <1>3, <2>2 DEF AfterFailure
    <3>2. /\ r \in Threadings /\ r.pc = "letgo" /\ r.on = None /\ r.op = q.op /\ r.key = q.key
          /\ r.fresh = q.fresh /\ r.id = q.id /\ r.got = {}
      BY <1>2, <3>1 DEF Threadings, Places
    <3>3. Does(r, key, requests, came)
      BY <1>2, <3>2 DEF Well, Does
    <3>4. QED BY <2>2, <3>2, <3>3 DEF Well, Out
  <2>3. QED BY <2>1, <2>2
<1>5. QED BY <1>2, <1>3, <1>4, Stand, PlainKept DEF count, past

LEMMA PoolReturns ==
  ASSUME PoolInv, NEW t \in Threads, PutBack(t) \/ Push(t)
  PROVE  PoolInv'
<1>1. PICK q : q = th[t]
  OBVIOUS
<1>2. q \in Threadings /\ Well(q, opened, key, requests, came)
  BY <1>1, Stand
<1>3. CASE PutBack(t)
  <2>1. q.pc = "keep" /\ UNCHANGED <<kept, count, wire, owed, past>>
    BY <1>1, <1>3 DEF PutBack
  <2>2. CASE Usable(q.on)
    <3>1. PICK r : r = [q EXCEPT !.pc = "push"]
      OBVIOUS
    <3>2. /\ r \in Threadings /\ r.pc = "push" /\ r.on = q.on /\ r.op = q.op /\ r.key = q.key
          /\ r.fresh = q.fresh /\ r.id = q.id /\ r.got = q.got
      BY <1>2, <3>1 DEF Threadings, Places
    <3>3. Does(r, key, requests, came)
      BY <1>2, <2>1, <3>2 DEF Well, Does
    <3>4. Well(r, opened, key, requests, came)
      BY <1>2, <2>1, <3>2, <3>3 DEF Well, Out
    <3>5. Goes(t, r)
      BY <1>1, <1>3, <2>2, <3>1 DEF PutBack
    <3>6. QED BY <1>1, <2>1, <3>2, <3>4, <3>5, Stand, PlainKept DEF count, past
  <2>3. CASE ~Usable(q.on)
    <3>1. Goes(t, Idle)
      BY <1>1, <1>3, <2>3 DEF PutBack, Ends
    <3>2. QED BY <2>1, <3>1, IdleIsWell, Stand, PlainKept DEF count, past
  <2>4. QED BY <2>2, <2>3
<1>4. CASE Push(t)
  <2>1. PICK s \in Sessions : s = q.on
    BY <1>1, <1>2, <1>4 DEF Push, Well, Threadings, Out
  <2>2. PICK k \in Keys : k = q.key
    BY <1>1, <1>2, <1>4 DEF Push, Well, Does, Keys
  <2>3. s <= opened /\ key[s] = k /\ s # None
    BY <1>2, <2>1, <2>2, Stand DEF Well
  <2>4. kept[k] \in Seq(Sessions) /\ IsInjective(kept[k])
    BY KeptSeqs
  <2>5. \A l \in Keys : s \notin Range(kept[l])
    BY <1>1, <2>1 DEF PoolInv, Apart
  <2>6. PICK more : more = Append(kept[k], s)
    OBVIOUS
  <2>7. /\ more \in Seq(Sessions) /\ IsInjective(more) /\ Range(more) = Range(kept[k]) \cup {s}
    BY <2>4, <2>5, <2>6, PushedIs
  <2>8. Goes(t, Idle) /\ kept' = [kept EXCEPT ![k] = more] /\ UNCHANGED <<count, wire, owed, past>>
    BY <1>1, <1>4, <2>1, <2>2, <2>6 DEF Push, Ends
  <2>9. kept' \in [Keys -> Seq(Sessions)] /\ kept'[k] = more /\ \A l \in Keys : l # k => kept'[l] = kept[l]
    BY <2>7, <2>8 DEF PoolInv, TypeOK
  <2>10. UNCHANGED <<opened, requests, delivered, key, far, asked, inbox, carried, answered, came, acked, owed>>
    BY <2>8 DEF count, wire, past
  <2>11. AllWell' /\ th' \in [Threads -> Threadings]
    BY <2>8, <2>10, IdleIsWell, Stand, AllWellGoes DEF PoolInv
  <2>12. Wires'
    BY <2>10, WiresStay DEF PoolInv, wire
  <2>13. TypeOK'
    BY <2>9, <2>10, <2>11, TypedNext DEF PoolInv, TypeOK
  <2>14. Apart'
    <3>1. th'[t] = Idle /\ \A u \in Threads : u # t => th'[u] = th[u]
      BY <2>8, GoesTo DEF PoolInv
    <3>2. Idle.on = None /\ None \notin Sessions
      BY IdleIsWell, Stand
    <3>3. \A u \in Threads : th'[u].on # s
      BY <1>1, <2>1, <2>3, <3>1, <3>2 DEF PoolInv, Apart
    <3>4. \A l \in Keys : \A x \in Range(kept'[l]) : x \in Range(kept[l]) \/ (x = s /\ l = k)
      BY <2>7, <2>9
    <3>5. \A l \in Keys : \A x \in Range(kept'[l]) : x <= opened /\ key[x] = l
      BY <2>3, <3>4 DEF PoolInv, Apart
    <3>6. \A l \in Keys : \A x \in Range(kept[l]) : x \in Sessions
      BY KeptSeqs
    <3>7. \A l \in Keys : \A x \in Range(kept[l]) : \A u \in Threads : th'[u].on # x
      BY <3>1, <3>2, <3>6 DEF PoolInv, Apart
    <3>8. \A l \in Keys : \A x \in Range(kept'[l]) : \A u \in Threads : th'[u].on # x
      BY <3>3, <3>4, <3>7
    <3>9. \A l \in Keys : IsInjective(kept'[l])
      BY <2>7, <2>9 DEF PoolInv, Apart
    <3>10. \A u, v \in Threads : th'[u].on # None /\ th'[u].on = th'[v].on => u = v
      BY <3>1, <3>2 DEF PoolInv, Apart
    <3>11. QED BY <2>10, <3>5, <3>8, <3>9, <3>10 DEF Apart
  <2>15. QED BY <2>11, <2>12, <2>13, <2>14 DEF PoolInv
<1>5. QED BY <1>3, <1>4

\* What a far end does leaves the threads and what is kept as they are.
LEMMA FarSteps ==
  ASSUME PoolInv, UNCHANGED <<kept, opened, requests, key, owed, th, answered, came, acked>>,
         delivered' \in 0..MaxDelivered, far' \in [Sessions -> BOOLEAN],
         asked' \in [Sessions -> Seq(Requests)], inbox' \in [Sessions -> Seq(Nat)],
         carried' \in [Requests -> Nat], Wires'
  PROVE  PoolInv'
<1>1. AllWell' /\ th' \in [Threads -> Threadings] /\ Apart'
  BY DEF PoolInv, AllWell, Apart, TypeOK
<1>2. TypeOK'
  BY <1>1, TypedNext DEF PoolInv, TypeOK
<1>3. QED BY <1>1, <1>2 DEF PoolInv

\* One more word on a session for sends.
LEMMA WiresWithAWord ==
  ASSUME PoolInv, NEW s \in Sessions, far[s], key[s] \in Sends,
         UNCHANGED <<opened, delivered, key, owed, came>>,
         \A x \in Sessions : x # s => far'[x] = far[x] /\ asked'[x] = asked[x] /\ inbox'[x] = inbox[x]
  PROVE  Wires'
<1>1. \A x \in Sessions : x > opened => x # s
  BY DEF PoolInv, Wires
<1>2. \A x \in Sessions : key[x] \in Receives => x # s
  BY PoolAssumption
<1>3. \A x \in Sessions : x > opened' => ~far'[x] /\ asked'[x] = <<>> /\ inbox'[x] = <<>>
  BY <1>1 DEF PoolInv, Wires
<1>4. \A x \in Sessions : asked'[x] # <<>> => key'[x] \in Sends
  BY DEF PoolInv, Wires
<1>5. \A x \in Sessions : key'[x] \in Receives =>
        IsInjective(inbox'[x]) /\ \A d \in Range(inbox'[x]) : d \in 1..delivered' /\ came'[d] = None
  BY <1>2 DEF PoolInv, Wires
<1>6. \A x, y \in Sessions : key'[x] \in Receives /\ key'[y] \in Receives /\ x # y =>
        Range(inbox'[x]) \cap Range(inbox'[y]) = {}
  BY <1>2 DEF PoolInv, Wires
<1>7. QED BY <1>3, <1>4, <1>5, <1>6 DEF PoolInv, Wires

LEMMA PoolFarEnds ==
  ASSUME PoolInv, NEW s \in Sessions, Answer(s) \/ Deliver(s) \/ Close(s)
  PROVE  PoolInv'
<1>1. /\ far \in [Sessions -> BOOLEAN] /\ asked \in [Sessions -> Seq(Requests)]
      /\ inbox \in [Sessions -> Seq(Nat)] /\ carried \in [Requests -> Nat]
      /\ delivered \in 0..MaxDelivered /\ asked[s] \in Seq(Requests) /\ inbox[s] \in Seq(Nat)
  BY DEF PoolInv, TypeOK
<1>2. far[s]
  BY DEF Answer, Deliver, Close
<1>3. CASE Answer(s)
  <2>1. asked[s] # <<>> /\ key[s] \in Sends
    BY <1>3 DEF Answer, PoolInv, Wires
  <2>2. PICK h \in Requests : h = Head(asked[s])
    BY <1>1, <2>1, HeadTailProperties
  <2>3. h \in Nat /\ Append(inbox[s], h) \in Seq(Nat)
    BY <1>1, <2>2, AppendProperties DEF Requests
  <2>4. Tail(asked[s]) \in Seq(Requests)
    BY <1>1, <2>1, HeadTailProperties
  <2>5. /\ asked' \in [Sessions -> Seq(Requests)] /\ inbox' \in [Sessions -> Seq(Nat)]
        /\ \A x \in Sessions : x # s => asked'[x] = asked[x] /\ inbox'[x] = inbox[x]
    BY <1>1, <1>3, <2>2, <2>3, <2>4 DEF Answer
  <2>6. carried' \in [Requests -> Nat]
    BY <1>1, <1>3, <2>2 DEF Answer
  <2>7. UNCHANGED <<kept, opened, requests, delivered, key, far, owed, th, answered, came, acked>>
    BY <1>3 DEF Answer, count
  <2>8. Wires'
    BY <1>2, <2>1, <2>5, <2>7, WiresWithAWord
  <2>9. QED BY <1>1, <2>5, <2>6, <2>7, <2>8, FarSteps
<1>4. CASE Close(s)
  <2>1. /\ far' = [far EXCEPT ![s] = FALSE] /\ asked' = [asked EXCEPT ![s] = <<>>]
        /\ UNCHANGED <<kept, opened, requests, delivered, key, owed, th, carried, answered, came, acked>>
    BY <1>4 DEF Close, count, past
  <2>2. <<>> \in Seq(Requests)
    OBVIOUS
  <2>3. /\ far' \in [Sessions -> BOOLEAN] /\ asked' \in [Sessions -> Seq(Requests)]
        /\ ~far'[s] /\ asked'[s] = <<>>
        /\ \A x \in Sessions : x # s => far'[x] = far[x] /\ asked'[x] = asked[x]
    BY <1>1, <2>1, <2>2
  <2>4. CASE UNCHANGED inbox
    <3>1. \A x \in Sessions : x > opened' => ~far'[x] /\ asked'[x] = <<>> /\ inbox'[x] = <<>>
      BY <2>1, <2>3, <2>4 DEF PoolInv, Wires
    <3>2. \A x \in Sessions : asked'[x] # <<>> => key'[x] \in Sends
      BY <2>1, <2>3 DEF PoolInv, Wires
    <3>3. Wires'
      BY <2>1, <2>4, <3>1, <3>2 DEF PoolInv, Wires
    <3>4. QED BY <1>1, <2>1, <2>3, <2>4, <3>3, FarSteps
  <2>5. CASE key[s] \in Sends /\ inbox' = [inbox EXCEPT ![s] = Append(@, Notice)]
    <3>1. Append(inbox[s], Notice) \in Seq(Nat)
      BY <1>1, AppendProperties DEF Notice
    <3>2. inbox' \in [Sessions -> Seq(Nat)] /\ \A x \in Sessions : x # s => inbox'[x] = inbox[x]
      BY <1>1, <2>5, <3>1
    <3>3. Wires'
      BY <1>2, <2>1, <2>3, <2>5, <3>2, WiresWithAWord
    <3>4. QED BY <1>1, <2>1, <2>3, <3>2, <3>3, FarSteps
  <2>6. QED BY <1>4, <2>4, <2>5 DEF Close
<1>5. CASE Deliver(s)
  <2>1. PICK d : d = delivered + 1
    OBVIOUS
  <2>2. /\ key[s] \in Receives /\ delivered < MaxDelivered /\ delivered' = d
        /\ inbox' = [inbox EXCEPT ![s] = Append(@, d)]
        /\ UNCHANGED <<kept, opened, requests, key, far, asked, owed, th, carried, answered, came, acked>>
    BY <1>5, <2>1 DEF Deliver, past
  <2>3. delivered \in Nat /\ MaxDelivered \in Nat
    BY PoolAssumption, Stand
  <2>4. /\ d \in Nat /\ d \in Deliveries /\ d \in 0..MaxDelivered /\ ~(d <= delivered) /\ d \in 1..d
        /\ \A e \in 1..delivered : e \in 1..d /\ e # d
    BY <2>1, <2>2, <2>3 DEF Deliveries
  <2>5. /\ IsInjective(inbox[s])
        /\ \A x \in Sessions : key[x] \in Receives => \A e \in Range(inbox[x]) : e \in 1..delivered
    BY <2>2 DEF PoolInv, Wires
  <2>6. \A x \in Sessions : key[x] \in Receives => d \notin Range(inbox[x])
    BY <2>4, <2>5
  <2>7. PICK more : more = Append(inbox[s], d)
    OBVIOUS
  <2>8. more \in Seq(Nat) /\ IsInjective(more) /\ Range(more) = Range(inbox[s]) \cup {d}
    BY <1>1, <2>2, <2>4, <2>5, <2>6, <2>7, PushedIs
  <2>9. /\ inbox' \in [Sessions -> Seq(Nat)] /\ inbox'[s] = more
        /\ \A x \in Sessions : x # s => inbox'[x] = inbox[x]
    BY <1>1, <2>2, <2>7, <2>8
  <2>10. came[d] = None
    BY <2>4 DEF PoolInv, Wires
  <2>11. Wires'
    <3>1. \A x \in Sessions : x > opened' => ~far'[x] /\ asked'[x] = <<>> /\ inbox'[x] = <<>>
      BY <1>2, <2>2, <2>9 DEF PoolInv, Wires
    <3>2. \A x \in Sessions : key'[x] \in Receives =>
            IsInjective(inbox'[x]) /\ \A e \in Range(inbox'[x]) : e \in 1..delivered' /\ came'[e] = None
      BY <2>2, <2>4, <2>8, <2>9, <2>10 DEF PoolInv, Wires
    <3>3. \A x, y \in Sessions : key'[x] \in Receives /\ key'[y] \in Receives /\ x # y =>
            Range(inbox'[x]) \cap Range(inbox'[y]) = {}
      <4>1. \A x, y \in Sessions : key[x] \in Receives /\ key[y] \in Receives /\ x # y =>
              Range(inbox[x]) \cap Range(inbox[y]) = {}
        BY DEF PoolInv, Wires
      <4>2. \A x \in Sessions : Range(inbox'[x]) = IF x = s THEN Range(inbox[s]) \cup {d} ELSE Range(inbox[x])
        BY <2>8, <2>9
      <4>3. QED BY <2>2, <2>6, <4>1, <4>2
    <3>4. \A e \in Deliveries : came'[e] # None =>
            came'[e] <= opened' /\ key'[came'[e]] \in Receives /\ e <= delivered'
      <4>1. \A e \in Deliveries : e <= delivered => e <= d
        BY <2>1, <2>3 DEF Deliveries
      <4>2. QED BY <2>2, <4>1 DEF PoolInv, Wires
    <3>5. QED BY <2>2, <3>1, <3>2, <3>3, <3>4 DEF PoolInv, Wires
  <2>12. QED BY <1>1, <2>2, <2>4, <2>9, <2>11, FarSteps
<1>6. QED BY <1>3, <1>4, <1>5

LEMMA PoolStutters == PoolInv /\ UNCHANGED vars => PoolInv'
  BY DEF PoolInv, TypeOK, AllWell, Wires, Apart, vars

LEMMA PoolStep == PoolInv /\ [Next]_vars => PoolInv'
<1> SUFFICES ASSUME PoolInv, [Next]_vars PROVE PoolInv'
  OBVIOUS
<1>1. ASSUME NEW t \in Threads, NEW k \in Sends, Send(t, k) PROVE PoolInv'
  BY <1>1, PoolBegins
<1>2. ASSUME NEW t \in Threads, NEW k \in Receives, Receive(t, k) PROVE PoolInv'
  BY <1>2, PoolBegins
<1>3. ASSUME NEW t \in Threads, NEW d \in owed, Acknowledge(t, d) PROVE PoolInv'
  BY <1>3, PoolBegins
<1>4. ASSUME NEW t \in Threads, Take(t) PROVE PoolInv'
  BY <1>4, PoolTakes, PoolOpen DEF Take
<1>5. ASSUME NEW t \in Threads, Exchange(t) PROVE PoolInv'
  BY <1>5, PoolWrite, PoolReads, PoolHandsOver, PoolFails DEF Exchange
<1>6. ASSUME NEW t \in Threads, Return(t) PROVE PoolInv'
  BY <1>6, PoolReturns DEF Return
<1>7. ASSUME NEW s \in Sessions, Answer(s) \/ Deliver(s) \/ Close(s) PROVE PoolInv'
  BY <1>7, PoolFarEnds
<1>8. CASE UNCHANGED vars
  BY <1>8, PoolStutters
<1>9. QED BY <1>1, <1>2, <1>3, <1>4, <1>5, <1>6, <1>7, <1>8 DEF Next

LEMMA PoolHolds == Spec => []PoolInv
<1>1. Init => PoolInv
  BY PoolInit
<1>2. PoolInv /\ [Next]_vars => PoolInv'
  BY PoolStep
<1>3. QED BY <1>1, <1>2, PTL DEF Spec

LEMMA PoolInvIsOneUser == PoolInv => OneUser
<1> SUFFICES ASSUME PoolInv, NEW s \in Sessions
             PROVE  /\ Cardinality(Users(s)) <= 1
                    /\ IsKept(s) => Users(s) = {}
                    /\ \A k \in Keys : \A i, j \in DOMAIN kept[k] :
                         kept[k][i] = s /\ kept[k][j] = s => i = j /\ key[s] = k
  BY DEF OneUser
<1>1. Cardinality(Users(s)) <= 1
  <2>1. \A t, u \in Users(s) : t = u
    BY Stand DEF Users, PoolInv, Apart
  <2>2. CASE Users(s) = {}
    <3>1. Cardinality(Users(s)) = 0
      BY <2>2, FS_EmptySet
    <3>2. QED BY <3>1
  <2>3. CASE Users(s) # {}
    <3>1. PICK t : t \in Users(s)
      BY <2>3
    <3>2. Users(s) = {t}
      BY <2>1, <3>1
    <3>3. Cardinality(Users(s)) = 1
      BY <3>2, FS_Singleton
    <3>4. QED BY <3>3
  <2>4. QED BY <2>2, <2>3
<1>2. IsKept(s) => Users(s) = {}
  BY DEF IsKept, Users, PoolInv, Apart
<1>3. ASSUME NEW k \in Keys, NEW i \in DOMAIN kept[k], NEW j \in DOMAIN kept[k],
             kept[k][i] = s, kept[k][j] = s
      PROVE  i = j /\ key[s] = k
  <2>1. IsInjective(kept[k]) /\ s \in Range(kept[k])
    BY <1>3 DEF PoolInv, Apart, Range
  <2>2. QED BY <1>3, <2>1 DEF PoolInv, Apart, IsInjective
<1>4. QED BY <1>1, <1>2, <1>3

\* The variables keep their types, and a thread has a session out from
\* finding one until it is put back or let go.
THEOREM PoolTyped == Spec => []TypeOK
<1>1. PoolInv => TypeOK
  BY DEF PoolInv
<1>2. QED BY <1>1, PoolHolds, PTL

\* A session is one thread's at a time, is nobody's while it is kept, and is
\* kept once, under the key it was opened for.
THEOREM OneThreadASession == Spec => []OneUser
<1>1. QED BY PoolHolds, PoolInvIsOneUser, PTL

-----------------------------------------------------------------------------
(* A delivery is acknowledged on the session it came on, and none is lost, *)
(* where arrivals are told before the next receive.                        *)

\* Where an exchange has the only session its key may have, or opens one.
Held(r) == r.on # None \/ r.pc \in {"letgo", "open"}

\* For each Location one exchange at a time and one session: kept, or in the
\* hands of that exchange.  A delivery owed, or being acknowledged, came on
\* that one, if it is still there.
Orderly ==
  /\ \A t, u \in Threads :
       th[t].pc # "idle" /\ th[u].pc # "idle" /\ th[t].key = th[u].key /\ th[t].key \in Receives => t = u
  /\ \A k \in Receives : \A s, u \in Range(kept[k]) : s = u
  /\ \A t \in Threads : Held(th[t]) /\ th[t].key \in Receives => Range(kept[th[t].key]) = {}
  /\ \A t \in Threads : th[t].op = "ack" =>
       th[t].on \in {None, came[th[t].id]} /\ Range(kept[th[t].key]) \subseteq {came[th[t].id]}
  /\ \A d \in owed : Range(kept[key[came[d]]]) \subseteq {came[d]}
  /\ \A d \in owed : \A t \in Threads : th[t].pc # "idle" /\ th[t].key = key[came[d]] =>
       /\ th[t].op = "ack" \/ th[t].pc \in {"keep", "push"}
       /\ th[t].on \in {None, came[d]}

Same(q, r) == r.op = q.op /\ r.key = q.key /\ r.id = q.id

\* An exchange at q may go on at r: it is over, or none of a Location's, or
\* the same one, which opens a session or keeps the one it has.
Fits(q, r, left) ==
  \/ r = Idle
  \/ r.op # "ack" /\ r.key \notin Receives
  \/ /\ Same(q, r) /\ q.pc # "idle"
     /\ Held(r) /\ r.key \in Receives => Range(left[r.key]) = {}
     /\ r.on \in {None, q.on} \/ (r.op # "ack" /\ q.pc \notin {"keep", "push"})
     /\ r.op # "ack" /\ q.pc \in {"keep", "push"} => r.pc \in {"keep", "push"}

LEMMA OrderlyGoes ==
  ASSUME PoolInv, Orderly, NEW t \in Threads, NEW r, Goes(t, r), owed' = owed,
         \A s \in Sessions : s <= opened => key'[s] = key[s],
         \A d \in Deliveries : came[d] # None => came'[d] = came[d],
         \A k \in Receives : Range(kept'[k]) \subseteq Range(kept[k]),
         Fits(th[t], r, kept')
  PROVE  Orderly'
<1>1. \A u \in Threads : th'[u] = IF u = t THEN r ELSE th[u]
  BY GoesTo DEF PoolInv
<1>2. ASSUME NEW u \in Threads PROVE Fits(th[u], th'[u], kept')
  <2>1. CASE u = t
    BY <1>1, <2>1
  <2>2. CASE u # t
    <3>1. th'[u] = th[u] /\ (th[u].pc = "idle" => th[u] = Idle)
      BY <1>1, <2>2, Stand DEF Well
    <3>2. Held(th[u]) /\ th[u].key \in Receives => Range(kept'[th[u].key]) = {}
      BY DEF Orderly
    <3>3. QED BY <3>1, <3>2 DEF Fits, Same
  <2>3. QED BY <2>1, <2>2
<1>3. Idle.pc = "idle" /\ Idle.on = None /\ Idle.op = "none" /\ ~Held(Idle)
  BY IdleIsWell DEF Held
<1>4. ASSUME NEW u \in Threads
      PROVE  /\ th'[u].pc # "idle" /\ th'[u].key \in Receives => th[u].pc # "idle" /\ th[u].key = th'[u].key
             /\ Held(th'[u]) /\ th'[u].key \in Receives => Range(kept'[th'[u].key]) = {}
             /\ th'[u].op = "ack" => th[u].op = "ack" /\ th'[u].id = th[u].id /\ th'[u].key = th[u].key
                                     /\ th'[u].on \in {None, th[u].on}
  BY <1>2, <1>3 DEF Fits, Same
<1>5. \A d \in owed : d \in Deliveries /\ came'[d] = came[d] /\ key'[came[d]] = key[came[d]] /\ key[came[d]] \in Receives
  BY DEF PoolInv, TypeOK, Wires
<1>6. ASSUME NEW u \in Threads, th[u].op = "ack"
      PROVE  th[u].key \in Receives /\ came'[th[u].id] = came[th[u].id]
  <2>1. Does(th[u], key, requests, came)
    BY <1>3, <1>6, Stand DEF Well
  <2>2. QED BY <1>6, <2>1 DEF Does
<1>7. \A u, v \in Threads :
        th'[u].pc # "idle" /\ th'[v].pc # "idle" /\ th'[u].key = th'[v].key /\ th'[u].key \in Receives => u = v
  BY <1>4 DEF Orderly
<1>8. \A k \in Receives : \A s, u \in Range(kept'[k]) : s = u
  BY DEF Orderly
<1>9. \A u \in Threads : th'[u].op = "ack" =>
        th'[u].on \in {None, came'[th'[u].id]} /\ Range(kept'[th'[u].key]) \subseteq {came'[th'[u].id]}
  <2> SUFFICES ASSUME NEW u \in Threads, th'[u].op = "ack"
               PROVE  th'[u].on \in {None, came'[th'[u].id]} /\ Range(kept'[th'[u].key]) \subseteq {came'[th'[u].id]}
    OBVIOUS
  <2>1. /\ th[u].op = "ack" /\ th'[u].id = th[u].id /\ th'[u].key = th[u].key /\ th'[u].on \in {None, th[u].on}
        /\ th[u].key \in Receives /\ came'[th[u].id] = came[th[u].id]
    BY <1>4, <1>6
  <2>2. th[u].on \in {None, came[th[u].id]} /\ Range(kept[th[u].key]) \subseteq {came[th[u].id]}
    BY <2>1 DEF Orderly
  <2>3. Range(kept'[th[u].key]) \subseteq Range(kept[th[u].key])
    BY <2>1
  <2>4. QED BY <2>1, <2>2, <2>3
<1>10. \A d \in owed' : Range(kept'[key'[came'[d]]]) \subseteq {came'[d]}
  <2> SUFFICES ASSUME NEW d \in owed PROVE Range(kept'[key[came[d]]]) \subseteq {came[d]}
    BY <1>5
  <2>1. Range(kept[key[came[d]]]) \subseteq {came[d]}
    BY DEF Orderly
  <2>2. QED BY <1>5, <2>1
<1>11. \A d \in owed' : \A u \in Threads : th'[u].pc # "idle" /\ th'[u].key = key'[came'[d]] =>
         /\ th'[u].op = "ack" \/ th'[u].pc \in {"keep", "push"}
         /\ th'[u].on \in {None, came'[d]}
  <2> SUFFICES ASSUME NEW d \in owed, NEW u \in Threads, th'[u].pc # "idle", th'[u].key = key[came[d]]
               PROVE  /\ th'[u].op = "ack" \/ th'[u].pc \in {"keep", "push"}
                      /\ th'[u].on \in {None, came[d]}
    BY <1>5
  <2>1. th'[u].key \in Receives /\ th[u].pc # "idle" /\ th[u].key = key[came[d]]
    BY <1>4, <1>5
  <2>2. th[u].op = "ack" \/ th[u].pc \in {"keep", "push"}
    BY <2>1 DEF Orderly
  <2>3. th[u].on \in {None, came[d]}
    BY <2>1 DEF Orderly
  <2>4. QED BY <1>2, <1>3, <2>1, <2>2, <2>3 DEF Fits, Same
<1>12. \A u \in Threads : Held(th'[u]) /\ th'[u].key \in Receives => Range(kept'[th'[u].key]) = {}
  BY <1>4
<1>13. QED BY <1>7, <1>8, <1>9, <1>10, <1>11, <1>12 DEF Orderly, Held

LEMMA OrderlyReceive ==
  ASSUME Ordered, PoolInv, Orderly, NEW t \in Threads, NEW k \in Receives, Receive(t, k)
  PROVE  Orderly'
<1>1. PICK r : r = [Idle EXCEPT !.pc = "take", !.op = "receive", !.key = k]
  OBVIOUS
<1>2. /\ r.pc = "take" /\ r.op = "receive" /\ r.key = k /\ r.on = None
  BY <1>1 DEF Idle
<1>3. /\ Goes(t, r) /\ UNCHANGED <<kept, key, came, owed>> /\ th[t].pc = "idle"
      /\ \A u \in Threads : th[u].key # k
      /\ \A d \in owed : key[came[d]] # k
  BY <1>1 DEF Receive, wire, past
<1>4. \A u \in Threads : th'[u] = IF u = t THEN r ELSE th[u]
  BY <1>3, GoesTo DEF PoolInv
<1>5. ~Held(r)
  BY <1>2 DEF Held
<1>6. \A u, v \in Threads :
        th'[u].pc # "idle" /\ th'[v].pc # "idle" /\ th'[u].key = th'[v].key /\ th'[u].key \in Receives => u = v
  BY <1>2, <1>3, <1>4 DEF Orderly
<1>7. \A u \in Threads : Held(th'[u]) /\ th'[u].key \in Receives => Range(kept'[th'[u].key]) = {}
  BY <1>3, <1>4, <1>5 DEF Orderly
<1>8. \A u \in Threads : th'[u].op = "ack" =>
        th'[u].on \in {None, came'[th'[u].id]} /\ Range(kept'[th'[u].key]) \subseteq {came'[th'[u].id]}
  BY <1>2, <1>3, <1>4 DEF Orderly
<1>9. \A d \in owed' : \A u \in Threads : th'[u].pc # "idle" /\ th'[u].key = key'[came'[d]] =>
         /\ th'[u].op = "ack" \/ th'[u].pc \in {"keep", "push"}
         /\ th'[u].on \in {None, came'[d]}
  BY <1>2, <1>3, <1>4 DEF Orderly
<1>10. /\ \A l \in Receives : \A s, u \in Range(kept'[l]) : s = u
       /\ \A d \in owed' : Range(kept'[key'[came'[d]]]) \subseteq {came'[d]}
  BY <1>3 DEF Orderly
<1>11. QED BY <1>6, <1>7, <1>8, <1>9, <1>10 DEF Orderly, Held

LEMMA OrderlyAcknowledge ==
  ASSUME Ordered, PoolInv, Orderly, NEW t \in Threads, NEW d \in owed, Acknowledge(t, d)
  PROVE  Orderly'
<1>1. PICK k : k = key[came[d]]
  OBVIOUS
<1>2. PICK r : r = [Idle EXCEPT !.pc = "take", !.op = "ack", !.key = k, !.id = d]
  OBVIOUS
<1>3. /\ r.pc = "take" /\ r.op = "ack" /\ r.key = k /\ r.on = None /\ r.id = d
  BY <1>2 DEF Idle
<1>4. /\ Goes(t, r) /\ UNCHANGED <<kept, key, came>> /\ owed' \subseteq owed /\ th[t].pc = "idle"
      /\ \A u \in Threads : th[u].key # k
  BY <1>1, <1>2 DEF Acknowledge, Busy, wire, past
<1>5. \A u \in Threads : th'[u] = IF u = t THEN r ELSE th[u]
  BY <1>4, GoesTo DEF PoolInv
<1>6. ~Held(r) /\ Range(kept[k]) \subseteq {came[d]}
  BY <1>1, <1>3 DEF Held, Orderly
<1>7. \A u, v \in Threads :
        th'[u].pc # "idle" /\ th'[v].pc # "idle" /\ th'[u].key = th'[v].key /\ th'[u].key \in Receives => u = v
  BY <1>3, <1>4, <1>5 DEF Orderly
<1>8. \A u \in Threads : Held(th'[u]) /\ th'[u].key \in Receives => Range(kept'[th'[u].key]) = {}
  BY <1>4, <1>5, <1>6 DEF Orderly
<1>9. \A u \in Threads : th'[u].op = "ack" =>
        th'[u].on \in {None, came'[th'[u].id]} /\ Range(kept'[th'[u].key]) \subseteq {came'[th'[u].id]}
  BY <1>3, <1>4, <1>5, <1>6 DEF Orderly
<1>10. \A e \in owed' : \A u \in Threads : th'[u].pc # "idle" /\ th'[u].key = key'[came'[e]] =>
         /\ th'[u].op = "ack" \/ th'[u].pc \in {"keep", "push"}
         /\ th'[u].on \in {None, came'[e]}
  BY <1>3, <1>4, <1>5 DEF Orderly
<1>11. /\ \A l \in Receives : \A s, u \in Range(kept'[l]) : s = u
       /\ \A e \in owed' : Range(kept'[key'[came'[e]]]) \subseteq {came'[e]}
  BY <1>4 DEF Orderly
<1>12. QED BY <1>7, <1>8, <1>9, <1>10, <1>11 DEF Orderly, Held

\* The session taken is the one its Location has.
LEMMA OrderlyPop ==
  ASSUME PoolInv, Orderly, NEW t \in Threads, Pop(t), Found(t) # <<>>
  PROVE  Orderly'
<1>1. PICK q : q = th[t]
  OBVIOUS
<1>2. q \in Threadings /\ Well(q, opened, key, requests, came) /\ q.pc = "take" /\ q.on = None
  BY <1>1, Stand DEF Pop, Well, Out
<1>3. PICK k \in Keys : k = q.key
  BY <1>2 DEF Well, Does, Keys
<1>4. kept[k] \in Seq(Sessions) /\ IsInjective(kept[k]) /\ kept[k] # <<>> /\ Range(kept[k]) \subseteq Sessions
  BY <1>1, <1>3, KeptSeqs DEF Found
<1>5. PICK left : left = Front(kept[k])
  OBVIOUS
<1>6. PICK s : s = Last(kept[k])
  OBVIOUS
<1>7. Range(left) \subseteq Range(kept[k]) /\ s \in Range(kept[k]) /\ s \notin Range(left) /\ s \in Sessions
  BY <1>4, <1>5, <1>6, TakenIs
<1>8. PICK r : r = [q EXCEPT !.pc = "check", !.on = s]
  OBVIOUS
<1>9. Goes(t, r) /\ kept' = [kept EXCEPT ![k] = left] /\ UNCHANGED <<key, came, owed>>
  BY <1>1, <1>3, <1>5, <1>6, <1>8 DEF Pop, Taken, wire, past
<1>10. kept'[k] = left /\ \A l \in Keys : l # k => kept'[l] = kept[l]
  BY <1>9 DEF PoolInv, TypeOK
<1>11. r.pc = "check" /\ r.on = s /\ Same(q, r)
  BY <1>2, <1>8 DEF Same, Threadings
<1>12. \A l \in Receives : Range(kept'[l]) \subseteq Range(kept[l])
  BY <1>7, <1>10 DEF Keys
<1>13. CASE k \notin Receives
  <2>1. r.op # "ack" /\ r.key \notin Receives
    BY <1>2, <1>3, <1>11, <1>13 DEF Same, Well, Does
  <2>2. Fits(th[t], r, kept')
    BY <2>1 DEF Fits
  <2>3. QED BY <1>9, <1>12, <2>2, OrderlyGoes
<1>14. CASE k \in Receives
  <2>1. \A u \in Threads : th'[u] = IF u = t THEN r ELSE th[u]
    BY <1>9, GoesTo DEF PoolInv
  <2>2. Range(left) = {} /\ Range(kept'[k]) = {}
    BY <1>7, <1>10, <1>14 DEF Orderly
  <2>3. \A u, v \in Threads :
          th'[u].pc # "idle" /\ th'[v].pc # "idle" /\ th'[u].key = th'[v].key /\ th'[u].key \in Receives => u = v
    BY <1>1, <1>2, <1>11, <2>1 DEF Orderly, Same
  <2>4. \A l \in Receives : \A x, y \in Range(kept'[l]) : x = y
    <3>1. \A l \in Receives : \A x, y \in Range(kept[l]) : x = y
      BY DEF Orderly
    <3>2. QED BY <1>12, <3>1
  <2>5. \A u \in Threads : Held(th'[u]) /\ th'[u].key \in Receives => Range(kept'[th'[u].key]) = {}
    <3>1. r.key = k
      BY <1>3, <1>11 DEF Same
    <3>2. \A u \in Threads : u # t => (Held(th[u]) /\ th[u].key \in Receives => Range(kept[th[u].key]) = {})
      BY DEF Orderly
    <3>3. QED BY <1>12, <2>1, <2>2, <3>1, <3>2
  <2>6. \A u \in Threads : th'[u].op = "ack" =>
          th'[u].on \in {None, came'[th'[u].id]} /\ Range(kept'[th'[u].key]) \subseteq {came'[th'[u].id]}
    <3>1. ASSUME q.op = "ack" PROVE s = came[q.id]
      BY <1>1, <1>3, <1>7, <3>1 DEF Orderly
    <3>2. CASE q.op = "ack"
      <4>1. r.on = came[r.id] /\ Range(kept'[r.key]) = {}
        BY <1>3, <1>11, <2>2, <3>1, <3>2 DEF Same
      <4>2. \A u \in Threads : u # t /\ th[u].op = "ack" =>
              /\ th[u].on \in {None, came[th[u].id]} /\ Range(kept[th[u].key]) \subseteq {came[th[u].id]}
              /\ th[u].key \in Receives
        BY IdleIsWell, Stand DEF Orderly, Well, Does
      <4>3. QED BY <1>9, <1>12, <2>1, <4>1, <4>2
    <3>3. CASE q.op # "ack"
      <4>1. r.op # "ack"
        BY <1>11, <3>3 DEF Same
      <4>2. \A u \in Threads : u # t /\ th[u].op = "ack" =>
              /\ th[u].on \in {None, came[th[u].id]} /\ Range(kept[th[u].key]) \subseteq {came[th[u].id]}
              /\ th[u].key \in Receives
        BY IdleIsWell, Stand DEF Orderly, Well, Does
      <4>3. QED BY <1>9, <1>12, <2>1, <4>1, <4>2
    <3>4. QED BY <3>2, <3>3
  <2>7. \A d \in owed : key[came[d]] \in Receives
    BY DEF PoolInv, TypeOK, Wires
  <2>8. \A d \in owed' : Range(kept'[key'[came'[d]]]) \subseteq {came'[d]}
    <3>1. \A d \in owed : Range(kept[key[came[d]]]) \subseteq {came[d]}
      BY DEF Orderly
    <3>2. QED BY <1>9, <1>12, <2>7, <3>1
  <2>9. \A d \in owed' : \A u \in Threads : th'[u].pc # "idle" /\ th'[u].key = key'[came'[d]] =>
          /\ th'[u].op = "ack" \/ th'[u].pc \in {"keep", "push"}
          /\ th'[u].on \in {None, came'[d]}
    <3> SUFFICES ASSUME NEW d \in owed, NEW u \in Threads, th'[u].pc # "idle", th'[u].key = key[came[d]]
                 PROVE  /\ th'[u].op = "ack" \/ th'[u].pc \in {"keep", "push"}
                        /\ th'[u].on \in {None, came[d]}
      BY <1>9
    <3>1. CASE u # t
      BY <2>1, <3>1 DEF Orderly
    <3>2. CASE u = t
      <4>1. q.key = key[came[d]] /\ k = key[came[d]]
        BY <1>3, <1>11, <2>1, <3>2 DEF Same
      <4>2. q.op = "ack"
        BY <1>1, <1>2, <4>1 DEF Orderly
      <4>3. s = came[d]
        BY <1>7, <4>1 DEF Orderly
      <4>4. QED BY <1>11, <2>1, <3>2, <4>2, <4>3 DEF Same
    <3>3. QED BY <3>1, <3>2
  <2>10. QED BY <2>3, <2>4, <2>5, <2>6, <2>8, <2>9 DEF Orderly, Held
<1>15. QED BY <1>13, <1>14

\* The session put back is the only one its Location has.
LEMMA OrderlyPush ==
  ASSUME PoolInv, Orderly, NEW t \in Threads, Push(t)
  PROVE  Orderly'
<1>1. PICK q : q = th[t]
  OBVIOUS
<1>2. q \in Threadings /\ Well(q, opened, key, requests, came) /\ q.pc = "push"
  BY <1>1, Stand DEF Push
<1>3. PICK s \in Sessions : s = q.on
  BY <1>2 DEF Well, Threadings, Out
<1>4. PICK k \in Keys : k = q.key
  BY <1>2 DEF Well, Does, Keys
<1>5. kept[k] \in Seq(Sessions) /\ IsInjective(kept[k]) /\ s \notin Range(kept[k]) /\ s # None
  BY <1>1, <1>3, KeptSeqs, Stand DEF PoolInv, Apart
<1>6. PICK more : more = Append(kept[k], s)
  OBVIOUS
<1>7. Range(more) = Range(kept[k]) \cup {s}
  BY <1>5, <1>6, PushedIs
<1>8. Goes(t, Idle) /\ kept' = [kept EXCEPT ![k] = more] /\ UNCHANGED <<key, came, owed>>
  BY <1>1, <1>2, <1>3, <1>4, <1>6 DEF Push, Ends, wire, past
<1>9. kept'[k] = more /\ \A l \in Keys : l # k => kept'[l] = kept[l]
  BY <1>8 DEF PoolInv, TypeOK
<1>10. CASE k \notin Receives
  <2>1. \A l \in Receives : kept'[l] = kept[l]
    BY <1>9, <1>10 DEF Keys
  <2>2. QED BY <1>8, <2>1, OrderlyGoes DEF Fits
<1>11. CASE k \in Receives
  <2>1. \A u \in Threads : th'[u] = IF u = t THEN Idle ELSE th[u]
    BY <1>8, GoesTo DEF PoolInv
  <2>2. Held(q)
    BY <1>3, <1>5 DEF Held
  <2>3. Range(kept'[k]) = {s} /\ \A l \in Receives : l # k => kept'[l] = kept[l]
    BY <1>1, <1>4, <1>7, <1>9, <1>11, <2>2 DEF Orderly, Keys
  <2>4. Idle.pc = "idle" /\ Idle.op = "none" /\ ~Held(Idle)
    BY IdleIsWell DEF Held
  <2>5. \A u \in Threads : u # t /\ th[u].pc # "idle" => th[u].key # k
    BY <1>1, <1>2, <1>4, <1>11 DEF Orderly
  <2>6. \A u \in Threads : th[u].op = "ack" \/ Held(th[u]) => th[u].pc # "idle"
    BY <2>4, Stand DEF Well
  <2>7. \A u, v \in Threads :
          th'[u].pc # "idle" /\ th'[v].pc # "idle" /\ th'[u].key = th'[v].key /\ th'[u].key \in Receives => u = v
    BY <2>1, <2>4 DEF Orderly
  <2>8. \A l \in Receives : \A x, y \in Range(kept'[l]) : x = y
    BY <2>3 DEF Orderly
  <2>9. \A u \in Threads : Held(th'[u]) /\ th'[u].key \in Receives => Range(kept'[th'[u].key]) = {}
    BY <2>1, <2>3, <2>4, <2>5, <2>6 DEF Orderly
  <2>10. \A u \in Threads : th'[u].op = "ack" =>
          th'[u].on \in {None, came'[th'[u].id]} /\ Range(kept'[th'[u].key]) \subseteq {came'[th'[u].id]}
    <3>1. \A u \in Threads : th[u].op = "ack" => th[u].key \in Receives
      BY <2>6, Stand DEF Well, Does
    <3>2. QED BY <1>8, <2>1, <2>3, <2>4, <2>5, <2>6, <3>1 DEF Orderly
  <2>11. \A d \in owed : key[came[d]] \in Receives
    BY DEF PoolInv, TypeOK, Wires
  <2>12. \A d \in owed' : Range(kept'[key'[came'[d]]]) \subseteq {came'[d]}
    <3> SUFFICES ASSUME NEW d \in owed PROVE Range(kept'[key[came[d]]]) \subseteq {came[d]}
      BY <1>8
    <3>1. CASE key[came[d]] = k
      <4>1. q.on \in {None, came[d]}
        BY <1>1, <1>2, <1>4, <3>1 DEF Orderly
      <4>2. QED BY <1>3, <1>5, <2>3, <3>1, <4>1
    <3>2. CASE key[came[d]] # k
      BY <2>3, <2>11, <3>2 DEF Orderly
    <3>3. QED BY <3>1, <3>2
  <2>13. \A d \in owed' : \A u \in Threads : th'[u].pc # "idle" /\ th'[u].key = key'[came'[d]] =>
          /\ th'[u].op = "ack" \/ th'[u].pc \in {"keep", "push"}
          /\ th'[u].on \in {None, came'[d]}
    BY <1>8, <2>1, <2>4 DEF Orderly
  <2>14. QED BY <2>7, <2>8, <2>9, <2>10, <2>12, <2>13 DEF Orderly, Held
<1>12. QED BY <1>10, <1>11

\* What is handed over came on the session that the receive has out.
LEMMA OrderlyHandOver ==
  ASSUME PoolInv, Orderly, NEW t \in Threads, HandOver(t)
  PROVE  Orderly'
<1>1. PICK q : q = th[t]
  OBVIOUS
<1>2. PICK r : r = [q EXCEPT !.pc = "keep", !.got = {}]
  OBVIOUS
<1>3. /\ q \in Threadings /\ Well(q, opened, key, requests, came) /\ q.pc = "read" /\ q.op = "receive"
      /\ owed' = owed \cup q.got /\ Goes(t, r) /\ UNCHANGED <<kept, key, came>>
  BY <1>1, <1>2, Stand DEF HandOver, wire, past
<1>4. r.pc = "keep" /\ r.on = q.on /\ Same(q, r)
  BY <1>2, <1>3 DEF Threadings, Same
<1>5. PICK k \in Receives : k = q.key
  BY <1>3 DEF Well, Does
<1>6. q.on # None /\ key[q.on] = k /\ Held(q) /\ Held(r) /\ r.key = k /\ r.op = "receive"
  BY <1>3, <1>4, <1>5 DEF Well, Out, Held, Same
<1>7. \A u \in Threads : th'[u] = IF u = t THEN r ELSE th[u]
  BY <1>3, GoesTo DEF PoolInv
<1>8. Range(kept[k]) = {}
  BY <1>1, <1>5, <1>6 DEF Orderly
<1>9. \A d \in q.got : came[d] = q.on /\ key[came[d]] = k
  BY <1>3, <1>6 DEF Well
<1>10. \A u \in Threads : u # t /\ th[u].pc # "idle" => th[u].key # k
  BY <1>1, <1>3, <1>5 DEF Orderly
<1>11. \A u, v \in Threads :
         th'[u].pc # "idle" /\ th'[v].pc # "idle" /\ th'[u].key = th'[v].key /\ th'[u].key \in Receives => u = v
  BY <1>1, <1>3, <1>5, <1>6, <1>7 DEF Orderly
<1>12. \A u \in Threads : Held(th'[u]) /\ th'[u].key \in Receives => Range(kept'[th'[u].key]) = {}
  BY <1>3, <1>6, <1>7, <1>8 DEF Orderly
<1>13. \A u \in Threads : th'[u].op = "ack" =>
         th'[u].on \in {None, came'[th'[u].id]} /\ Range(kept'[th'[u].key]) \subseteq {came'[th'[u].id]}
  BY <1>3, <1>6, <1>7 DEF Orderly
<1>14. \A d \in owed' : Range(kept'[key'[came'[d]]]) \subseteq {came'[d]}
  BY <1>3, <1>8, <1>9 DEF Orderly
<1>15. \A d \in owed' : \A u \in Threads : th'[u].pc # "idle" /\ th'[u].key = key'[came'[d]] =>
         /\ th'[u].op = "ack" \/ th'[u].pc \in {"keep", "push"}
         /\ th'[u].on \in {None, came'[d]}
  <2> SUFFICES ASSUME NEW d \in owed', NEW u \in Threads, th'[u].pc # "idle", th'[u].key = key[came[d]]
               PROVE  /\ th'[u].op = "ack" \/ th'[u].pc \in {"keep", "push"}
                      /\ th'[u].on \in {None, came[d]}
    BY <1>3
  <2>1. CASE d \in q.got
    BY <1>4, <1>7, <1>9, <1>10, <2>1
  <2>2. CASE d \in owed
    <3>1. CASE u = t
      <4>1. q.op = "ack" \/ q.pc \in {"keep", "push"}
        BY <1>1, <1>3, <1>5, <1>6, <1>7, <2>2, <3>1 DEF Orderly
      <4>2. QED BY <1>3, <4>1
    <3>2. CASE u # t
      BY <1>7, <2>2, <3>2 DEF Orderly
    <3>3. QED BY <3>1, <3>2
  <2>3. QED BY <1>3, <2>1, <2>2
<1>16. \A l \in Receives : \A x, y \in Range(kept'[l]) : x = y
  BY <1>3 DEF Orderly
<1>17. QED BY <1>11, <1>12, <1>13, <1>14, <1>15, <1>16 DEF Orderly, Held

\* The other steps of a thread's exchange.
LEMMA OrderlyThreads ==
  ASSUME PoolInv, Orderly, NEW t \in Threads, Take(t) \/ Exchange(t) \/ Return(t)
  PROVE  Orderly'
<1>1. PICK q : q = th[t]
  OBVIOUS
<1>2. q \in Threadings /\ Well(q, opened, key, requests, came)
  BY <1>1, Stand
<1>3. q.pc # "idle"
  BY <1>1 DEF Take, Exchange, Return, Pop, Check, LetGoUnusable, Open, OpenFails, Write, ReadAnswer,
              ReadDelivery, HandOver, Fail, PutBack, Push
<1>4. ASSUME q.key \in Receives, Held(q) PROVE Range(kept[q.key]) = {}
  BY <1>1, <1>4 DEF Orderly
<1>5. ASSUME NEW r, Goes(t, r), Fits(q, r, kept), UNCHANGED <<kept, key, came, owed>> PROVE Orderly'
  <2>1. Fits(th[t], r, kept')
    BY <1>1, <1>5
  <2>2. QED BY <1>5, <2>1, OrderlyGoes
<1>6. CASE Pop(t)
  <2>1. CASE Found(t) # <<>>
    BY <1>6, <2>1, OrderlyPop
  <2>2. CASE Found(t) = <<>>
    <3>1. PICK r : r = NoneFound(t)
      OBVIOUS
    <3>2. q.pc = "take" /\ Goes(t, r) /\ UNCHANGED <<kept, key, came, owed>>
      BY <1>1, <1>6, <2>2, <3>1 DEF Pop, wire, past
    <3>3. Fits(q, r, kept)
      <4>1. CASE q.op = "ack"
        BY <1>1, <3>1, <4>1 DEF NoneFound, Fits
      <4>2. CASE q.op # "ack"
        <5>1. r = [q EXCEPT !.pc = "letgo"]
          BY <1>1, <3>1, <4>2 DEF NoneFound
        <5>2. Same(q, r) /\ r.on = q.on
          BY <1>2, <5>1 DEF Threadings, Same
        <5>3. kept[q.key] = <<>> /\ DOMAIN <<>> = {}
          BY <1>1, <2>2 DEF Found
        <5>4. Range(kept[r.key]) = {}
          BY <5>2, <5>3 DEF Range, Same
        <5>5. QED BY <3>2, <5>2, <5>4, <4>2 DEF Fits, Same
      <4>3. QED BY <4>1, <4>2
    <3>4. QED BY <1>5, <3>2, <3>3
  <2>3. QED BY <2>1, <2>2
<1>7. CASE Check(t)
  <2>1. PICK pc : pc = Begins(t)
    OBVIOUS
  <2>2. PICK r : r = IF Usable(q.on) THEN [q EXCEPT !.pc = pc] ELSE [q EXCEPT !.pc = "take", !.on = None]
    OBVIOUS
  <2>3. q.pc = "check" /\ Goes(t, r) /\ UNCHANGED <<kept, key, came, owed>>
    BY <1>1, <1>7, <2>1, <2>2 DEF Check, wire, past
  <2>4. Same(q, r) /\ r.on \in {None, q.on}
    BY <1>2, <2>2 DEF Threadings, Same
  <2>5. q.on # None /\ Held(q)
    BY <1>2, <2>3 DEF Well, Out, Held
  <2>6. Fits(q, r, kept)
    BY <1>3, <1>4, <2>3, <2>4, <2>5 DEF Fits, Same
  <2>7. QED BY <1>5, <2>3, <2>6
<1>8. CASE LetGoUnusable(t)
  <2>1. PICK r : r = [q EXCEPT !.pc = "open"]
    OBVIOUS
  <2>2. /\ q.pc = "letgo" /\ Goes(t, r) /\ UNCHANGED <<key, came, owed>>
        /\ kept' = [k \in Keys |-> UsableOf(kept[k])]
    BY <1>1, <1>8, <2>1 DEF LetGoUnusable, wire, past
  <2>3. Same(q, r) /\ r.on = q.on
    BY <1>2, <2>1 DEF Threadings, Same
  <2>4. \A k \in Keys : Range(UsableOf(kept[k])) \subseteq Range(kept[k])
    BY KeptSeqs, UsableOfIsSome
  <2>5. \A k \in Receives : Range(kept'[k]) \subseteq Range(kept[k])
    BY <2>2, <2>4 DEF Keys
  <2>6. Held(q)
    BY <2>2 DEF Held
  <2>7. r.key \in Receives => Range(kept'[r.key]) = {}
    BY <1>4, <2>3, <2>5, <2>6 DEF Same
  <2>8. Fits(th[t], r, kept')
    BY <1>1, <2>2, <2>3, <2>7 DEF Fits
  <2>9. QED BY <2>2, <2>5, <2>8, OrderlyGoes
<1>9. CASE Open(t)
  <2>1. PICK pc : pc = Begins(t)
    OBVIOUS
  <2>2. PICK s : s = opened + 1
    OBVIOUS
  <2>3. PICK r : r = [q EXCEPT !.pc = pc, !.on = s, !.fresh = TRUE]
    OBVIOUS
  <2>4. /\ q.pc = "open" /\ Goes(t, r) /\ UNCHANGED <<kept, came, owed>>
        /\ key' = [key EXCEPT ![s] = q.key]
    BY <1>1, <1>9, <2>1, <2>2, <2>3 DEF Open, past
  <2>5. \A x \in Sessions : x <= opened => key'[x] = key[x]
    <3>1. \A x \in Sessions : x <= opened => x # s
      BY <2>2, Stand DEF Sessions
    <3>2. QED BY <2>4, <3>1 DEF PoolInv, TypeOK
  <2>6. Same(q, r)
    BY <1>2, <2>3 DEF Threadings, Same
  <2>7. Held(q) /\ q.op # "ack"
    BY <1>2, <2>4 DEF Held, Well
  <2>8. Fits(th[t], r, kept')
    BY <1>1, <1>4, <2>4, <2>6, <2>7 DEF Fits, Same
  <2>9. QED BY <2>4, <2>5, <2>8, OrderlyGoes
<1>10. CASE OpenFails(t)
  BY <1>5, <1>10 DEF OpenFails, Ends, Fits, wire, past
<1>11. CASE Write(t)
  <2>1. PICK r : r = [q EXCEPT !.pc = IF q.op = "ack" THEN "keep" ELSE "read"]
    OBVIOUS
  <2>2. q.pc = "write" /\ Goes(t, r) /\ UNCHANGED <<kept, key, came, owed>>
    BY <1>1, <1>11, <2>1 DEF Write
  <2>3. Same(q, r) /\ r.on = q.on
    BY <1>2, <2>1 DEF Threadings, Same
  <2>4. Held(q)
    BY <1>2, <2>2 DEF Well, Out, Held
  <2>5. Fits(q, r, kept)
    BY <1>4, <2>2, <2>3, <2>4 DEF Fits, Same
  <2>6. QED BY <1>5, <2>2, <2>5
<1>12. CASE ReadAnswer(t)
  <2>1. PICK r : r = [q EXCEPT !.pc = "keep"]
    OBVIOUS
  <2>2. q.pc = "read" /\ Goes(t, r) /\ UNCHANGED <<kept, key, came, owed>>
    BY <1>1, <1>12, <2>1 DEF ReadAnswer
  <2>3. Same(q, r) /\ r.on = q.on
    BY <1>2, <2>1 DEF Threadings, Same
  <2>4. Held(q)
    BY <1>2, <2>2 DEF Well, Out, Held
  <2>5. Fits(q, r, kept)
    BY <1>4, <2>2, <2>3, <2>4 DEF Fits, Same
  <2>6. QED BY <1>5, <2>2, <2>5
<1>13. CASE ReadDelivery(t)
  <2>1. PICK s : s = q.on
    OBVIOUS
  <2>2. PICK h : h = Head(inbox[s])
    OBVIOUS
  <2>3. PICK r : r = [q EXCEPT !.got = q.got \cup {h}]
    OBVIOUS
  <2>4. /\ q.pc = "read" /\ q.op = "receive" /\ Goes(t, r) /\ UNCHANGED <<kept, key, owed>>
        /\ came' = [came EXCEPT ![h] = s] /\ inbox[s] # <<>>
    BY <1>1, <1>13, <2>1, <2>2, <2>3 DEF ReadDelivery
  <2>5. Same(q, r) /\ r.on = q.on
    BY <1>2, <2>3 DEF Threadings, Same
  <2>6. Held(q) /\ s \in Sessions /\ key[s] \in Receives
    BY <1>2, <2>1, <2>4 DEF Well, Out, Held, Does, Threadings
  <2>7. inbox[s] \in Seq(Nat)
    BY <2>6 DEF PoolInv, TypeOK
  <2>8. h \in Range(inbox[s])
    BY <2>2, <2>4, <2>7, ReadIs
  <2>9. came[h] = None
    BY <2>6, <2>8 DEF PoolInv, Wires
  <2>10. \A d \in Deliveries : came[d] # None => came'[d] = came[d]
    BY <2>4, <2>9 DEF PoolInv, TypeOK
  <2>11. Fits(th[t], r, kept')
    BY <1>1, <1>4, <2>4, <2>5, <2>6 DEF Fits, Same
  <2>12. QED BY <2>4, <2>10, <2>11, OrderlyGoes
<1>14. CASE HandOver(t)
  BY <1>14, OrderlyHandOver
<1>15. CASE Fail(t)
  <2>1. PICK r : r = AfterFailure(t)
    OBVIOUS
  <2>2. q.pc \in {"write", "read"} /\ Goes(t, r) /\ UNCHANGED <<kept, key, came, owed>>
    BY <1>1, <1>15, <2>1 DEF Fail, wire, past
  <2>3. CASE q.fresh \/ q.op = "ack"
    <3>1. r = Idle
      BY <1>1, <2>1, <2>3 DEF AfterFailure
    <3>2. QED BY <1>5, <2>2, <3>1 DEF Fits
  <2>4. CASE ~(q.fresh \/ q.op = "ack")
    <3>1. r = [q EXCEPT !.pc = "letgo", !.on = None, !.got = {}]
      BY <1>1, <2>1, <2>4 DEF AfterFailure
    <3>2. Same(q, r) /\ r.on = None
      BY <1>2, <3>1 DEF Threadings, Same
    <3>3. Held(q)
      BY <1>2, <2>2 DEF Well, Out, Held
    <3>4. Fits(q, r, kept)
      BY <1>4, <2>2, <3>2, <3>3 DEF Fits, Same
    <3>5. QED BY <1>5, <2>2, <3>4
  <2>5. QED BY <2>3, <2>4
<1>16. CASE PutBack(t)
  <2>1. q.pc = "keep" /\ UNCHANGED <<kept, key, came, owed>>
    BY <1>1, <1>16 DEF PutBack, wire, past
  <2>2. CASE Usable(q.on)
    <3>1. PICK r : r = [q EXCEPT !.pc = "push"]
      OBVIOUS
    <3>2. Goes(t, r)
      BY <1>1, <1>16, <2>2, <3>1 DEF PutBack
    <3>3. Same(q, r) /\ r.on = q.on /\ r.pc = "push"
      BY <1>2, <3>1 DEF Threadings, Same
    <3>4. Held(q)
      BY <1>2, <2>1 DEF Well, Out, Held
    <3>5. Fits(q, r, kept)
      BY <1>3, <1>4, <3>3, <3>4 DEF Fits, Same
    <3>6. QED BY <1>5, <2>1, <3>2, <3>5
  <2>3. CASE ~Usable(q.on)
    BY <1>1, <1>5, <1>16, <2>1, <2>3 DEF PutBack, Ends, Fits
  <2>4. QED BY <2>2, <2>3
<1>17. CASE Push(t)
  BY <1>17, OrderlyPush
<1>18. QED BY <1>6, <1>7, <1>8, <1>9, <1>10, <1>11, <1>12, <1>13, <1>14, <1>15, <1>16, <1>17
           DEF Take, Exchange, Return

LEMMA OrderlyStep == ASSUME Ordered PROVE PoolInv /\ Orderly /\ [Next]_vars => Orderly'
<1> SUFFICES ASSUME PoolInv, Orderly, [Next]_vars PROVE Orderly'
  OBVIOUS
<1>1. ASSUME NEW t \in Threads, NEW k \in Sends, Send(t, k) PROVE Orderly'
  <2>1. PICK r : r = [Idle EXCEPT !.pc = "take", !.op = "send", !.key = k, !.id = requests + 1]
    OBVIOUS
  <2>2. r.op = "send" /\ r.key = k
    BY <2>1 DEF Idle
  <2>3. Goes(t, r) /\ UNCHANGED <<kept, key, came, owed>>
    BY <1>1, <2>1 DEF Send, wire, past
  <2>4. Fits(th[t], r, kept')
    BY <2>2, PoolAssumption DEF Fits
  <2>5. QED BY <2>3, <2>4, OrderlyGoes
<1>2. ASSUME NEW t \in Threads, NEW k \in Receives, Receive(t, k) PROVE Orderly'
  BY <1>2, OrderlyReceive
<1>3. ASSUME NEW t \in Threads, NEW d \in owed, Acknowledge(t, d) PROVE Orderly'
  BY <1>3, OrderlyAcknowledge
<1>4. ASSUME NEW t \in Threads, Take(t) \/ Exchange(t) \/ Return(t) PROVE Orderly'
  BY <1>4, OrderlyThreads
<1>5. ASSUME UNCHANGED <<kept, key, owed, th, came>> PROVE Orderly'
  BY <1>5 DEF Orderly
<1>6. ASSUME NEW s \in Sessions, Answer(s) \/ Deliver(s) \/ Close(s) PROVE Orderly'
  BY <1>5, <1>6 DEF Answer, Deliver, Close, past
<1>7. CASE UNCHANGED vars
  BY <1>5, <1>7 DEF vars
<1>8. QED BY <1>1, <1>2, <1>3, <1>4, <1>6, <1>7 DEF Next

LEMMA OrderlyInit == Init => Orderly
<1> SUFFICES ASSUME Init PROVE Orderly
  OBVIOUS
<1>1. \A t \in Threads : th[t].pc = "idle" /\ th[t].op = "none" /\ ~Held(th[t])
  BY IdleIsWell DEF Init, Held
<1>2. owed = {} /\ \A k \in Receives : Range(kept[k]) = {}
  <2>1. \A k \in Receives : kept[k] = <<>>
    BY DEF Init, Keys
  <2>2. Range(<<>>) = {}
    BY DEF Range
  <2>3. QED BY <2>1, <2>2 DEF Init
<1>3. QED BY <1>1, <1>2 DEF Orderly, Held

\* An acknowledgement under way past its write has been written.
AckedThen ==
  \A t \in Threads : th[t].op = "ack" /\ th[t].pc \in {"keep", "push"} =>
    \E s \in Sessions : <<th[t].id, s>> \in acked

Tells == AckedOnItsSession /\ AckedThen /\ NoDeliveryLost

LEMMA StandsIs ==
  \A s : Stands(s) <=> (\E k \in Keys : s \in Range(kept[k])) \/ (\E t \in Threads : th[t].on = s)
  BY DEF Stands, IsKept, Users

\* What stands after a step.
Remains(s) == (\E k \in Keys : s \in Range(kept'[k])) \/ (\E t \in Threads : th'[t].on = s)

\* What stood no more stands no more.
LEMMA StandsLess ==
  ASSUME PoolInv, NEW t \in Threads, NEW r, Goes(t, r), NEW q, q = th[t],
         \A k \in Keys : Range(kept'[k]) \subseteq Range(kept[k]) \cup {q.on},
         r.on \in {None, q.on} \/ r.on = opened + 1 \/ \E k \in Keys : r.on \in Range(kept[k]),
         NEW s \in Sessions, s <= opened, Remains(s)
  PROVE  Stands(s)
<1>1. \A u \in Threads : th'[u] = IF u = t THEN r ELSE th[u]
  BY GoesTo DEF PoolInv
<1>2. (\E k \in Keys : s \in Range(kept'[k])) \/ (\E u \in Threads : th'[u].on = s)
  BY DEF Remains
<1>3. s # None /\ s # opened + 1
  BY Stand DEF Sessions, None
<1>4. CASE \E k \in Keys : s \in Range(kept'[k])
  <2>1. (\E k \in Keys : s \in Range(kept[k])) \/ th[t].on = s
    BY <1>4
  <2>2. QED BY <2>1, StandsIs
<1>5. CASE \E u \in Threads : th'[u].on = s
  <2>1. (\E u \in Threads : th[u].on = s) \/ (\E k \in Keys : s \in Range(kept[k]))
    BY <1>1, <1>3, <1>5
  <2>2. QED BY <2>1, StandsIs
<1>6. QED BY <1>2, <1>4, <1>5

\* A thread's session is let go with it.
LEMMA LetGo ==
  ASSUME PoolInv, NEW t \in Threads, NEW r, Goes(t, r), r.on = None, kept' = kept,
         NEW s \in Sessions, th[t].on = s
  PROVE  ~Remains(s)
<1>1. \A u \in Threads : th'[u] = IF u = t THEN r ELSE th[u]
  BY GoesTo DEF PoolInv
<1>2. s # None
  BY Stand
<1>3. \A k \in Keys : s \notin Range(kept[k])
  BY DEF PoolInv, Apart
<1>4. \A u \in Threads : th'[u].on # s
  BY <1>1, <1>2 DEF PoolInv, Apart
<1>5. QED BY <1>3, <1>4 DEF Remains

\* An exchange at q may go on at r: what it leaves has its acknowledgement or
\* stands no more, and it has out what it had, what was kept, or a new session.
Passes(q, r) ==
  /\ \A k \in Keys : Range(kept'[k]) \subseteq Range(kept[k]) \cup {q.on}
  /\ r.on \in {None, q.on} \/ r.on = opened + 1 \/ \E k \in Keys : r.on \in Range(kept[k])
  /\ acked \subseteq acked'
  /\ \A e \in acked' : e \in acked \/ (came[e[1]] = e[2] /\ e[2] # None /\ e[1] \in Deliveries)
  /\ \A d \in Deliveries : came[d] # None => came'[d] = came[d]
  /\ \A d \in Deliveries : came[d] = None /\ came'[d] # None => d \in r.got
  /\ \A d \in owed : d \in owed' \/ (r.op = "ack" /\ r.id = d)
  /\ \A d \in q.got : d \in r.got \/ d \in owed' \/ ~Remains(q.on)
  /\ q.op = "ack" => \/ r.op = "ack" /\ r.id = q.id
                     \/ \E s \in Sessions : <<q.id, s>> \in acked'
                     \/ ~Remains(came[q.id])
  /\ r.op = "ack" /\ r.pc \in {"keep", "push"} => \E s \in Sessions : <<r.id, s>> \in acked'

LEMMA TellsGoes ==
  ASSUME PoolInv, Tells, NEW t \in Threads, NEW r, Goes(t, r), NEW q, q = th[t], Passes(q, r)
  PROVE  Tells'
<1>1. \A u \in Threads : th'[u] = IF u = t THEN r ELSE th[u]
  BY GoesTo DEF PoolInv
<1>2. AckedOnItsSession'
  <2>1. \A e \in acked : e[1] \in Deliveries /\ e[2] \in Sessions /\ came[e[1]] = e[2] /\ e[2] # None
    BY Stand DEF Tells, AckedOnItsSession
  <2>2. \A e \in acked' : came[e[1]] = e[2] /\ e[2] # None /\ e[1] \in Deliveries
    BY <2>1 DEF Passes
  <2>3. \A d \in Deliveries : came[d] # None => came'[d] = came[d]
    BY DEF Passes
  <2>4. QED BY <2>2, <2>3 DEF AckedOnItsSession
<1>3. AckedThen'
  <2> SUFFICES ASSUME NEW u \in Threads, th'[u].op = "ack", th'[u].pc \in {"keep", "push"}
               PROVE  \E s \in Sessions : <<th'[u].id, s>> \in acked'
    BY DEF AckedThen
  <2>1. CASE u = t
    BY <1>1, <2>1 DEF Passes
  <2>2. CASE u # t
    <3>1. th'[u] = th[u]
      BY <1>1, <2>2
    <3>2. \E s \in Sessions : <<th[u].id, s>> \in acked
      BY <3>1 DEF Tells, AckedThen
    <3>3. acked \subseteq acked'
      BY DEF Passes
    <3>4. QED BY <3>1, <3>2, <3>3
  <2>3. QED BY <2>1, <2>2
<1>4. ASSUME NEW d \in Deliveries, came'[d] # None
      PROVE  \/ d \in owed'
             \/ \E u \in Threads : d \in th'[u].got \/ (th'[u].op = "ack" /\ th'[u].id = d)
             \/ \E s \in Sessions : <<d, s>> \in acked'
             \/ ~Remains(came'[d])
  <2>1. CASE came[d] = None
    BY <1>1, <1>4, <2>1 DEF Passes
  <2>2. CASE came[d] # None
    <3>1. PICK s \in Sessions : s = came[d] /\ s = came'[d] /\ s <= opened
      BY <2>2 DEF PoolInv, TypeOK, Wires, Passes
    <3>2. CASE d \in owed
      BY <1>1, <3>2 DEF Passes
    <3>3. CASE \E u \in Threads : d \in th[u].got
      <4>1. PICK u \in Threads : d \in th[u].got
        BY <3>3
      <4>2. CASE u # t
        BY <1>1, <4>1, <4>2
      <4>3. CASE u = t
        <5>1. s = q.on
          BY <3>1, <4>1, <4>3, Stand DEF Well
        <5>2. d \in r.got \/ d \in owed' \/ ~Remains(s)
          BY <4>1, <4>3, <5>1 DEF Passes
        <5>3. QED BY <1>1, <3>1, <5>2
      <4>4. QED BY <4>2, <4>3
    <3>4. CASE \E u \in Threads : th[u].op = "ack" /\ th[u].id = d
      <4>1. PICK u \in Threads : th[u].op = "ack" /\ th[u].id = d
        BY <3>4
      <4>2. CASE u # t
        BY <1>1, <4>1, <4>2
      <4>3. CASE u = t
        <5>1. \/ r.op = "ack" /\ r.id = d
              \/ \E x \in Sessions : <<d, x>> \in acked'
              \/ ~Remains(came[d])
          BY <4>1, <4>3 DEF Passes
        <5>2. QED BY <1>1, <3>1, <5>1
      <4>4. QED BY <4>2, <4>3
    <3>5. CASE \E x \in Sessions : <<d, x>> \in acked
      BY <3>5 DEF Passes
    <3>6. CASE ~Stands(came[d])
      <4>1. ~Remains(s)
        BY <3>1, <3>6, StandsLess DEF Passes
      <4>2. QED BY <3>1, <4>1
    <3>7. \/ d \in owed
          \/ \E u \in Threads : d \in th[u].got \/ (th[u].op = "ack" /\ th[u].id = d)
          \/ \E x \in Sessions : <<d, x>> \in acked
          \/ ~Stands(came[d])
      BY <2>2 DEF Tells, NoDeliveryLost
    <3>8. QED BY <3>2, <3>3, <3>4, <3>5, <3>6, <3>7
  <2>3. QED BY <2>1, <2>2
<1>5. NoDeliveryLost'
  BY <1>4 DEF NoDeliveryLost, Remains, Stands, IsKept, Users
<1>6. QED BY <1>2, <1>3, <1>5 DEF Tells

\* The same exchange goes on, with what it has read.
LEMMA TellsSame ==
  ASSUME PoolInv, Tells, NEW t \in Threads, NEW r, Goes(t, r), NEW q, q = th[t],
         Same(q, r), q.got \subseteq r.got,
         \A k \in Keys : Range(kept'[k]) \subseteq Range(kept[k]) \cup {q.on},
         r.on \in {None, q.on} \/ r.on = opened + 1 \/ \E k \in Keys : r.on \in Range(kept[k]),
         UNCHANGED <<owed, acked, came>>, r.pc \in {"keep", "push"} => r.op # "ack" \/ q.pc \in {"keep", "push"}
  PROVE  Tells'
<1>1. q.op = "ack" => r.op = "ack" /\ r.id = q.id
  BY DEF Same
<1>2. ASSUME r.op = "ack", r.pc \in {"keep", "push"} PROVE \E s \in Sessions : <<r.id, s>> \in acked'
  <2>1. q.op = "ack" /\ q.pc \in {"keep", "push"} /\ r.id = q.id
    BY <1>2 DEF Same
  <2>2. \E s \in Sessions : <<q.id, s>> \in acked
    BY <2>1 DEF Tells, AckedThen
  <2>3. QED BY <2>1, <2>2
<1>3. Passes(q, r)
  BY <1>1, <1>2 DEF Passes
<1>4. QED BY <1>3, TellsGoes

\* An exchange that has read nothing it has not handed over is over.
LEMMA TellsEnds ==
  ASSUME PoolInv, Tells, NEW t \in Threads, Goes(t, Idle), NEW q, q = th[t], q.got = {},
         \A k \in Keys : Range(kept'[k]) \subseteq Range(kept[k]) \cup {q.on},
         UNCHANGED <<owed, acked, came>>,
         q.op = "ack" => (\E s \in Sessions : <<q.id, s>> \in acked) \/ ~Remains(came[q.id])
  PROVE  Tells'
<1>1. PICK r : r = Idle
  OBVIOUS
<1>2. r.on = None /\ r.op = "none" /\ Goes(t, r)
  BY <1>1, IdleIsWell
<1>3. Passes(q, r)
  BY <1>2 DEF Passes
<1>4. QED BY <1>2, <1>3, TellsGoes

LEMMA TellsTakes ==
  ASSUME PoolInv, Orderly, Tells, NEW t \in Threads, Take(t)
  PROVE  Tells'
<1>1. PICK q : q = th[t]
  OBVIOUS
<1>2. q \in Threadings /\ Well(q, opened, key, requests, came)
  BY <1>1, Stand
<1>3. CASE Pop(t)
  <2>1. q.pc = "take" /\ q.on = None /\ q.got = {} /\ UNCHANGED <<owed, acked, came>>
    BY <1>1, <1>2, <1>3 DEF Pop, Well, Out, past
  <2>2. PICK k \in Keys : k = q.key
    BY <1>2, <2>1 DEF Well, Does, Keys
  <2>3. CASE Found(t) # <<>>
    <3>1. kept[k] \in Seq(Sessions) /\ IsInjective(kept[k]) /\ kept[k] # <<>>
      BY <1>1, <2>2, <2>3, KeptSeqs DEF Found
    <3>2. PICK left : left = Front(kept[k])
      OBVIOUS
    <3>3. PICK s : s = Last(kept[k])
      OBVIOUS
    <3>4. Range(left) \subseteq Range(kept[k]) /\ s \in Range(kept[k])
      BY <3>1, <3>2, <3>3, TakenIs
    <3>5. PICK r : r = [q EXCEPT !.pc = "check", !.on = s]
      OBVIOUS
    <3>6. Goes(t, r) /\ kept' = [kept EXCEPT ![k] = left]
      BY <1>1, <1>3, <2>2, <2>3, <3>2, <3>3, <3>5 DEF Pop, Taken, Found
    <3>7. \A l \in Keys : Range(kept'[l]) \subseteq Range(kept[l]) \cup {q.on}
      BY <3>4, <3>6 DEF PoolInv, TypeOK
    <3>8. Same(q, r) /\ r.got = q.got /\ r.on = s /\ r.pc = "check"
      BY <1>2, <3>5 DEF Threadings, Same
    <3>9. r.on \in Range(kept[k])
      BY <3>4, <3>8
    <3>10. QED BY <1>1, <2>1, <3>6, <3>7, <3>8, <3>9, TellsSame
  <2>4. CASE Found(t) = <<>>
    <3>1. Goes(t, NoneFound(t)) /\ kept' = kept /\ kept[k] = <<>>
      BY <1>1, <1>3, <2>2, <2>4 DEF Pop, Found
    <3>2. CASE q.op = "ack"
      <4>1. Goes(t, Idle)
        BY <1>1, <3>1, <3>2 DEF NoneFound
      <4>2. came[q.id] \in Sessions /\ key[came[q.id]] = k /\ came[q.id] # None /\ k \in Receives
        BY <1>2, <2>1, <2>2, <3>2 DEF Well, Does, PoolInv, TypeOK
      <4>3. PICK s \in Sessions : s = came[q.id] /\ key[s] = k
        BY <4>2
      <4>4. \A l \in Keys : s \notin Range(kept'[l])
        <5>1. DOMAIN <<>> = {}
          OBVIOUS
        <5>2. Range(kept[k]) = {}
          BY <3>1, <5>1 DEF Range
        <5>3. QED BY <3>1, <4>3, <5>2 DEF PoolInv, Apart
      <4>5. \A u \in Threads : th'[u].on # s
        <5> SUFFICES ASSUME NEW u \in Threads, th'[u].on = s PROVE FALSE
          OBVIOUS
        <5>1. s # None
          BY Stand
        <5>2. u # t /\ th[u].on = s
          BY <4>1, <5>1, GoesTo, IdleIsWell DEF PoolInv
        <5>3. th[u].key = k /\ th[u].pc # "idle"
          BY <4>3, <5>1, <5>2, Stand DEF Well, Out
        <5>4. QED BY <1>1, <2>1, <2>2, <4>2, <5>2, <5>3 DEF Orderly
      <4>6. ~Remains(came[q.id])
        BY <4>3, <4>4, <4>5 DEF Remains
      <4>7. \A l \in Keys : Range(kept'[l]) \subseteq Range(kept[l]) \cup {q.on}
        BY <3>1
      <4>8. QED BY <1>1, <2>1, <4>1, <4>6, <4>7, TellsEnds
    <3>3. CASE q.op # "ack"
      <4>1. PICK r : r = [q EXCEPT !.pc = "letgo"]
        OBVIOUS
      <4>2. Goes(t, r)
        BY <1>1, <3>1, <3>3, <4>1 DEF NoneFound
      <4>3. Same(q, r) /\ r.got = q.got /\ r.on = q.on /\ r.pc = "letgo"
        BY <1>2, <4>1 DEF Threadings, Same
      <4>4. QED BY <1>1, <2>1, <3>1, <4>2, <4>3, TellsSame
    <3>4. QED BY <3>2, <3>3
  <2>5. QED BY <2>3, <2>4
<1>4. CASE Check(t)
  <2>1. PICK pc \in {"read", "write"} : pc = Begins(t)
    BY DEF Begins
  <2>2. PICK r : r = IF Usable(q.on) THEN [q EXCEPT !.pc = pc] ELSE [q EXCEPT !.pc = "take", !.on = None]
    OBVIOUS
  <2>3. Goes(t, r) /\ UNCHANGED <<kept, came, owed, acked>>
    BY <1>1, <1>4, <2>1, <2>2 DEF Check, past
  <2>4. Same(q, r) /\ r.on \in {None, q.on} /\ r.got = q.got /\ r.pc \in {"read", "write", "take"}
    BY <1>2, <2>2 DEF Threadings, Same
  <2>5. QED BY <1>1, <2>3, <2>4, TellsSame
<1>5. CASE LetGoUnusable(t)
  <2>1. PICK r : r = [q EXCEPT !.pc = "open"]
    OBVIOUS
  <2>2. Goes(t, r) /\ UNCHANGED <<came, owed, acked>> /\ kept' = [k \in Keys |-> UsableOf(kept[k])]
    BY <1>1, <1>5, <2>1 DEF LetGoUnusable, past
  <2>3. Same(q, r) /\ r.on = q.on /\ r.got = q.got /\ r.pc = "open"
    BY <1>2, <2>1 DEF Threadings, Same
  <2>4. \A k \in Keys : Range(UsableOf(kept[k])) \subseteq Range(kept[k])
    BY KeptSeqs, UsableOfIsSome
  <2>5. \A k \in Keys : Range(kept'[k]) \subseteq Range(kept[k]) \cup {q.on}
    BY <2>2, <2>4
  <2>6. QED BY <1>1, <2>2, <2>3, <2>5, TellsSame
<1>6. CASE Open(t)
  <2>1. PICK pc \in {"read", "write"} : pc = Begins(t)
    BY DEF Begins
  <2>2. PICK s : s = opened + 1
    OBVIOUS
  <2>3. PICK r : r = [q EXCEPT !.pc = pc, !.on = s, !.fresh = TRUE]
    OBVIOUS
  <2>4. Goes(t, r) /\ UNCHANGED <<kept, came, owed, acked>>
    BY <1>1, <1>6, <2>1, <2>2, <2>3 DEF Open, past
  <2>5. Same(q, r) /\ r.got = q.got /\ r.on = s /\ r.pc \in {"read", "write"}
    BY <1>2, <2>3 DEF Threadings, Same
  <2>6. QED BY <1>1, <2>2, <2>4, <2>5, TellsSame
<1>7. CASE OpenFails(t)
  <2>1. Goes(t, Idle) /\ UNCHANGED <<kept, came, owed, acked>> /\ q.pc = "open"
    BY <1>1, <1>7 DEF OpenFails, Ends, past
  <2>2. q.got = {} /\ q.op # "ack"
    BY <1>2, <2>1 DEF Well
  <2>3. QED BY <1>1, <2>1, <2>2, TellsEnds
<1>8. QED BY <1>3, <1>4, <1>5, <1>6, <1>7 DEF Take

LEMMA TellsExchanges ==
  ASSUME PoolInv, Orderly, Tells, NEW t \in Threads, Exchange(t)
  PROVE  Tells'
<1>1. PICK q : q = th[t]
  OBVIOUS
<1>2. q \in Threadings /\ Well(q, opened, key, requests, came)
  BY <1>1, Stand
<1>3. ASSUME q.pc \in {"write", "read"} PROVE q.on \in Sessions /\ q.on # None /\ (q.op = "ack" => q.on = came[q.id])
  BY <1>1, <1>2, <1>3 DEF Well, Threadings, Out, Orderly
<1>4. CASE Write(t)
  <2>1. PICK r : r = [q EXCEPT !.pc = IF q.op = "ack" THEN "keep" ELSE "read"]
    OBVIOUS
  <2>2. q.pc = "write" /\ Goes(t, r) /\ UNCHANGED <<kept, came, owed>>
    BY <1>1, <1>4, <2>1 DEF Write
  <2>3. Same(q, r) /\ r.on = q.on /\ r.got = q.got /\ r.pc = IF q.op = "ack" THEN "keep" ELSE "read"
    BY <1>2, <2>1 DEF Threadings, Same
  <2>4. CASE q.op # "ack"
    <3>1. acked' = acked
      BY <1>1, <1>4, <2>4 DEF Write
    <3>2. QED BY <1>1, <2>2, <2>3, <2>4, <3>1, TellsSame
  <2>5. CASE q.op = "ack"
    <3>1. acked' = acked \cup {<<q.id, q.on>>}
      BY <1>1, <1>4, <2>5 DEF Write
    <3>2. q.id \in Deliveries /\ q.on \in Sessions /\ came[q.id] = q.on /\ q.on # None
      BY <1>2, <1>3, <2>2, <2>5 DEF Well, Does
    <3>3. \A e \in acked' : e \in acked \/ (came[e[1]] = e[2] /\ e[2] # None /\ e[1] \in Deliveries)
      BY <3>1, <3>2
    <3>4. <<r.id, q.on>> \in acked' /\ r.op = "ack" /\ r.id = q.id
      BY <2>3, <2>5, <3>1 DEF Same
    <3>5. \E s \in Sessions : <<r.id, s>> \in acked'
      BY <3>2, <3>4
    <3>6. acked \subseteq acked'
      BY <3>1
    <3>7. Passes(q, r)
      BY <2>2, <2>3, <3>3, <3>4, <3>5, <3>6 DEF Passes
    <3>8. QED BY <1>1, <2>2, <3>7, TellsGoes
  <2>6. QED BY <2>4, <2>5
<1>5. CASE ReadAnswer(t)
  <2>1. PICK r : r = [q EXCEPT !.pc = "keep"]
    OBVIOUS
  <2>2. q.op = "send" /\ Goes(t, r) /\ UNCHANGED <<kept, came, owed, acked>>
    BY <1>1, <1>5, <2>1 DEF ReadAnswer
  <2>3. Same(q, r) /\ r.on = q.on /\ r.got = q.got /\ r.op # "ack"
    BY <1>2, <2>1, <2>2 DEF Threadings, Same
  <2>4. QED BY <1>1, <2>2, <2>3, TellsSame
<1>6. CASE ReadDelivery(t)
  <2>1. PICK s : s = q.on
    OBVIOUS
  <2>2. PICK h : h = Head(inbox[s])
    OBVIOUS
  <2>3. PICK r : r = [q EXCEPT !.got = q.got \cup {h}]
    OBVIOUS
  <2>4. /\ q.pc = "read" /\ q.op = "receive" /\ Goes(t, r) /\ UNCHANGED <<kept, owed, acked>>
        /\ came' = [came EXCEPT ![h] = s] /\ inbox[s] # <<>>
    BY <1>1, <1>6, <2>1, <2>2, <2>3 DEF ReadDelivery
  <2>5. Same(q, r) /\ r.on = q.on /\ r.got = q.got \cup {h} /\ r.op # "ack"
    BY <1>2, <2>3, <2>4 DEF Threadings, Same
  <2>6. s \in Sessions /\ key[s] \in Receives
    BY <1>2, <2>1, <2>4 DEF Well, Out, Does, Threadings
  <2>7. inbox[s] \in Seq(Nat)
    BY <2>6 DEF PoolInv, TypeOK
  <2>8. h \in Range(inbox[s])
    BY <2>2, <2>4, <2>7, ReadIs
  <2>9. came[h] = None
    BY <2>6, <2>8 DEF PoolInv, Wires
  <2>10. /\ \A d \in Deliveries : came[d] # None => came'[d] = came[d]
         /\ \A d \in Deliveries : came[d] = None /\ came'[d] # None => d \in r.got
    BY <2>4, <2>5, <2>9 DEF PoolInv, TypeOK
  <2>11. Passes(q, r)
    BY <2>4, <2>5, <2>10 DEF Passes, Same
  <2>12. QED BY <1>1, <2>4, <2>11, TellsGoes
<1>7. CASE HandOver(t)
  <2>1. PICK r : r = [q EXCEPT !.pc = "keep", !.got = {}]
    OBVIOUS
  <2>2. /\ q.op = "receive" /\ owed' = owed \cup q.got /\ Goes(t, r) /\ UNCHANGED <<kept, came, acked>>
    BY <1>1, <1>7, <2>1 DEF HandOver, past
  <2>3. r.on = q.on /\ r.op # "ack"
    BY <1>2, <2>1, <2>2 DEF Threadings
  <2>4. Passes(q, r)
    BY <2>2, <2>3 DEF Passes
  <2>5. QED BY <1>1, <2>2, <2>4, TellsGoes
<1>8. CASE Fail(t)
  <2>1. PICK r : r = AfterFailure(t)
    OBVIOUS
  <2>2. q.pc \in {"write", "read"} /\ Goes(t, r) /\ UNCHANGED <<kept, came, owed, acked>>
    BY <1>1, <1>8, <2>1 DEF Fail, past
  <2>3. r.on = None /\ (q.op = "ack" => r = Idle) /\ (r.op = "ack" => r.pc \notin {"keep", "push"})
    <3>1. CASE q.fresh \/ q.op = "ack"
      BY <1>1, <2>1, <3>1, IdleIsWell DEF AfterFailure
    <3>2. CASE ~(q.fresh \/ q.op = "ack")
      <4>1. r = [q EXCEPT !.pc = "letgo", !.on = None, !.got = {}]
        BY <1>1, <2>1, <3>2 DEF AfterFailure
      <4>2. QED BY <1>2, <3>2, <4>1 DEF Threadings
    <3>3. QED BY <3>1, <3>2
  <2>4. ~Remains(q.on)
    BY <1>1, <1>3, <2>2, <2>3, LetGo
  <2>5. q.op = "ack" => ~Remains(came[q.id])
    BY <1>3, <2>2, <2>4
  <2>6. Passes(q, r)
    BY <2>2, <2>3, <2>4, <2>5 DEF Passes
  <2>7. QED BY <1>1, <2>2, <2>6, TellsGoes
<1>9. QED BY <1>4, <1>5, <1>6, <1>7, <1>8 DEF Exchange

LEMMA TellsReturns ==
  ASSUME PoolInv, Tells, NEW t \in Threads, Return(t)
  PROVE  Tells'
<1>1. PICK q : q = th[t]
  OBVIOUS
<1>2. q \in Threadings /\ Well(q, opened, key, requests, came) /\ q.pc \in {"keep", "push"}
  BY <1>1, Stand DEF Return, PutBack, Push
<1>3. q.got = {} /\ (q.op = "ack" => \E s \in Sessions : <<q.id, s>> \in acked)
  BY <1>1, <1>2 DEF Well, Tells, AckedThen
<1>4. CASE PutBack(t)
  <2>1. UNCHANGED <<kept, came, owed, acked>>
    BY <1>4 DEF PutBack, past
  <2>2. CASE Usable(q.on)
    <3>1. PICK r : r = [q EXCEPT !.pc = "push"]
      OBVIOUS
    <3>2. Goes(t, r)
      BY <1>1, <1>4, <2>2, <3>1 DEF PutBack
    <3>3. Same(q, r) /\ r.on = q.on /\ r.got = q.got
      BY <1>2, <3>1 DEF Threadings, Same
    <3>4. QED BY <1>1, <1>2, <2>1, <3>2, <3>3, TellsSame
  <2>3. CASE ~Usable(q.on)
    <3>1. Goes(t, Idle)
      BY <1>1, <1>4, <2>3 DEF PutBack, Ends
    <3>2. QED BY <1>1, <1>3, <2>1, <3>1, TellsEnds
  <2>4. QED BY <2>2, <2>3
<1>5. CASE Push(t)
  <2>1. PICK s \in Sessions : s = q.on
    BY <1>2 DEF Well, Threadings, Out
  <2>2. PICK k \in Keys : k = q.key
    BY <1>2 DEF Well, Does, Keys
  <2>3. kept[k] \in Seq(Sessions) /\ IsInjective(kept[k]) /\ s \notin Range(kept[k])
    BY <1>1, <2>1, KeptSeqs DEF PoolInv, Apart
  <2>4. PICK more : more = Append(kept[k], s)
    OBVIOUS
  <2>5. Range(more) = Range(kept[k]) \cup {s}
    BY <2>3, <2>4, PushedIs
  <2>6. Goes(t, Idle) /\ kept' = [kept EXCEPT ![k] = more] /\ UNCHANGED <<came, owed, acked>>
    BY <1>1, <1>5, <2>1, <2>2, <2>4 DEF Push, Ends, past
  <2>7. \A l \in Keys : Range(kept'[l]) \subseteq Range(kept[l]) \cup {q.on}
    BY <2>1, <2>5, <2>6 DEF PoolInv, TypeOK
  <2>8. QED BY <1>1, <1>3, <2>6, <2>7, TellsEnds
<1>6. QED BY <1>4, <1>5 DEF Return

LEMMA TellsStep == PoolInv /\ Orderly /\ Tells /\ [Next]_vars => Tells'
<1> SUFFICES ASSUME PoolInv, Orderly, Tells, [Next]_vars PROVE Tells'
  OBVIOUS
<1>1. ASSUME NEW t \in Threads, th[t].pc = "idle"
      PROVE  th[t].on = None /\ th[t].got = {} /\ th[t].op # "ack"
  BY <1>1, IdleIsWell, Stand DEF Well
<1>2. ASSUME NEW t \in Threads, NEW k \in Sends, Send(t, k) PROVE Tells'
  <2>1. PICK r : r = [Idle EXCEPT !.pc = "take", !.op = "send", !.key = k, !.id = requests + 1]
    OBVIOUS
  <2>2. r.pc = "take" /\ r.on = None
    BY <2>1 DEF Idle
  <2>3. Goes(t, r) /\ UNCHANGED <<kept, came, owed, acked>> /\ th[t].pc = "idle"
    BY <1>2, <2>1 DEF Send, past
  <2>4. Passes(th[t], r)
    BY <1>1, <2>2, <2>3 DEF Passes
  <2>5. QED BY <2>3, <2>4, TellsGoes
<1>3. ASSUME NEW t \in Threads, NEW k \in Receives, Receive(t, k) PROVE Tells'
  <2>1. PICK r : r = [Idle EXCEPT !.pc = "take", !.op = "receive", !.key = k]
    OBVIOUS
  <2>2. r.pc = "take" /\ r.on = None
    BY <2>1 DEF Idle
  <2>3. Goes(t, r) /\ UNCHANGED <<kept, came, owed, acked>> /\ th[t].pc = "idle"
    BY <1>3, <2>1 DEF Receive, past
  <2>4. Passes(th[t], r)
    BY <1>1, <2>2, <2>3 DEF Passes
  <2>5. QED BY <2>3, <2>4, TellsGoes
<1>4. ASSUME NEW t \in Threads, NEW d \in owed, Acknowledge(t, d) PROVE Tells'
  <2>1. PICK r : r = [Idle EXCEPT !.pc = "take", !.op = "ack", !.key = key[came[d]], !.id = d]
    OBVIOUS
  <2>2. r.pc = "take" /\ r.on = None /\ r.op = "ack" /\ r.id = d
    BY <2>1 DEF Idle
  <2>3. Goes(t, r) /\ UNCHANGED <<kept, came, acked>> /\ th[t].pc = "idle" /\ owed' = owed \ {d}
    BY <1>4, <2>1 DEF Acknowledge, past
  <2>4. \A e \in owed : e \in owed' \/ (r.op = "ack" /\ r.id = e)
    BY <2>2, <2>3
  <2>5. Passes(th[t], r)
    BY <1>1, <2>2, <2>3, <2>4 DEF Passes
  <2>6. QED BY <2>3, <2>5, TellsGoes
<1>5. ASSUME NEW t \in Threads, Take(t) \/ Exchange(t) \/ Return(t) PROVE Tells'
  BY <1>5, TellsTakes, TellsExchanges, TellsReturns
<1>6. ASSUME UNCHANGED <<kept, owed, th, came, acked>> PROVE Tells'
  BY <1>6 DEF Tells, AckedOnItsSession, AckedThen, NoDeliveryLost, Stands, IsKept, Users
<1>7. ASSUME NEW s \in Sessions, Answer(s) \/ Deliver(s) \/ Close(s) PROVE Tells'
  BY <1>6, <1>7 DEF Answer, Deliver, Close, past
<1>8. CASE UNCHANGED vars
  BY <1>6, <1>8 DEF vars
<1>9. QED BY <1>2, <1>3, <1>4, <1>5, <1>7, <1>8 DEF Next

LEMMA TellsInit == Init => Tells
  BY IdleIsWell DEF Init, Tells, AckedOnItsSession, AckedThen, NoDeliveryLost

LEMMA TellsHolds == ASSUME Ordered PROVE Spec => [](Orderly /\ Tells)
<1>1. Init => Orderly /\ Tells
  BY OrderlyInit, TellsInit
<1>2. PoolInv /\ Orderly /\ Tells /\ [Next]_vars => Orderly' /\ Tells'
  BY OrderlyStep, TellsStep
<1>3. QED BY <1>1, <1>2, PoolHolds, PTL DEF Spec

\* Where arrivals are told before the next receive, a delivery is
\* acknowledged on the session it came on, or on none.
THEOREM AcknowledgedWhereItCame == ASSUME Ordered PROVE Spec => []AckedOnItsSession
<1>1. Tells => AckedOnItsSession
  BY DEF Tells
<1>2. QED BY <1>1, TellsHolds, PTL

\* Where arrivals are told before the next receive, a delivery read is on its
\* way to its acknowledgement, or has it, or its session is let go.
THEOREM NoneIsLost == ASSUME Ordered PROVE Spec => []NoDeliveryLost
<1>1. Tells => NoDeliveryLost
  BY DEF Tells
<1>2. QED BY <1>1, TellsHolds, PTL

-----------------------------------------------------------------------------
(* An answer is its own request's.                                         *)

\* A session for sends at rest: nothing asked on it, and nothing said but
\* what a far end says as it closes.
RestsAt(a, f, i) == a = <<>> /\ (i = <<>> \/ (~f /\ i = <<Notice>>))

\* One on which the answer of r is waited for.
ReadsAt(a, f, i, r) ==
  \/ a = <<r>> /\ i = <<>>
  \/ a = <<>> /\ (i \in {<<>>, <<r>>} \/ (~f /\ i \in {<<Notice>>, <<r, Notice>>}))

Rests(s)    == RestsAt(asked[s], far[s], inbox[s])
Resting     == {"check", "write", "keep", "push"}
Sending(r)  == r.op = "send"

\* A session that is kept is at rest, and so is one taken, until a request is
\* written on it and once its answer is read.
Clean ==
  /\ \A s \in Sessions : asked[s] = <<>> \/ \E r \in 1..requests : asked[s] = <<r>>
  /\ \A k \in Sends : \A s \in Range(kept[k]) : Rests(s)
  /\ \A t \in Threads : Sending(th[t]) /\ th[t].pc \in Resting => Rests(th[t].on)
  /\ \A t \in Threads : Sending(th[t]) /\ th[t].pc = "read" =>
       ReadsAt(asked[th[t].on], far[th[t].on], inbox[th[t].on], th[t].id)

\* Where r is asked and not yet carried out.
AskedOf(a, r) == {s \in Sessions : a[s] = <<r>>}

\* How often an exchange at r may still write its request.
Left(r) ==
  IF r.pc \in {"take", "check"} \/ (r.pc = "write" /\ ~r.fresh) THEN 2
  ELSE IF r.pc \in {"letgo", "open", "write"} \/ (r.pc = "read" /\ ~r.fresh) THEN 1
  ELSE 0

\* A request is carried out, asked somewhere, or may yet be written, twice at
\* most between the three.
Spent ==
  /\ \A t, u \in Threads : Sending(th[t]) /\ Sending(th[u]) /\ th[t].id = th[u].id => t = u
  /\ \A r \in Requests : carried[r] + Cardinality(AskedOf(asked, r)) <= 2
  /\ \A r \in Requests : r > requests => carried[r] = 0 /\ AskedOf(asked, r) = {}
  /\ \A t \in Threads : Sending(th[t]) =>
       carried[th[t].id] + Cardinality(AskedOf(asked, th[t].id)) + Left(th[t]) <= 2

OwnAnswers == \A e \in answered : e[2] \in {e[1], Notice}

Answers == Clean /\ Spent /\ OwnAnswers

LEMMA LeftIs == \A r : Left(r) \in {0, 1, 2}
  BY DEF Left

LEMMA AskedIs ==
  ASSUME NEW a, NEW r
  PROVE  IsFiniteSet(AskedOf(a, r)) /\ Cardinality(AskedOf(a, r)) \in Nat
<1>1. IsFiniteSet(Sessions)
  BY PoolAssumption, FS_Interval DEF Sessions
<1>2. IsFiniteSet(AskedOf(a, r))
  BY <1>1, FS_Subset DEF AskedOf
<1>3. QED BY <1>2, FS_CardinalityType

\* A thread that sends has begun its request, and has its session out where it
\* stands at rest or reads.
LEMMA SendingIs ==
  ASSUME PoolInv, NEW t \in Threads, Sending(th[t])
  PROVE  /\ th[t].pc # "idle" /\ th[t].key \in Sends
         /\ th[t].id \in 1..requests /\ th[t].id \in Requests
         /\ th[t].pc \in Resting \cup {"read"} =>
              th[t].on \in Sessions /\ th[t].on # None /\ th[t].on <= opened /\ key[th[t].on] = th[t].key
<1>1. PICK q : q = th[t]
  OBVIOUS
<1>2. q \in Threadings /\ Well(q, opened, key, requests, came) /\ q.op = "send"
  BY <1>1, Stand DEF Sending
<1>3. q.pc # "idle"
  BY <1>2, IdleIsWell DEF Well
<1>4. q.key \in Sends /\ q.id \in 1..requests
  BY <1>2, <1>3 DEF Well, Does
<1>5. q.id \in Requests
  <2>1. requests \in 0..MaxRequests /\ MaxRequests \in Nat
    BY PoolAssumption DEF PoolInv, TypeOK
  <2>2. QED BY <1>4, <2>1 DEF Requests
<1>6. ASSUME q.pc \in Resting \cup {"read"}
      PROVE  q.on \in Sessions /\ q.on # None /\ q.on <= opened /\ key[q.on] = q.key
  BY <1>2, <1>6 DEF Well, Out, Threadings, Resting
<1>7. QED BY <1>1, <1>3, <1>4, <1>5, <1>6

\* An exchange at q may go on at r, which leaves other sessions as they are.
Cleans(q, r) ==
  /\ \A s \in Sessions : s # q.on /\ s <= opened =>
       far'[s] = far[s] /\ asked'[s] = asked[s] /\ inbox'[s] = inbox[s]
  /\ \A k \in Sends : \A s \in Range(kept'[k]) :
       s \in Range(kept[k]) \/ (s = q.on /\ RestsAt(asked'[s], far'[s], inbox'[s]))
  /\ Sending(r) /\ r.pc \in Resting => RestsAt(asked'[r.on], far'[r.on], inbox'[r.on])
  /\ Sending(r) /\ r.pc = "read" => ReadsAt(asked'[r.on], far'[r.on], inbox'[r.on], r.id)
  /\ \A s \in Sessions : asked'[s] = <<>> \/ \E x \in 1..requests' : asked'[s] = <<x>>

LEMMA CleanGoes ==
  ASSUME PoolInv, Clean, NEW t \in Threads, NEW r, Goes(t, r), NEW q, q = th[t], Cleans(q, r)
  PROVE  Clean'
<1>1. \A u \in Threads : th'[u] = IF u = t THEN r ELSE th[u]
  BY GoesTo DEF PoolInv
<1>2. \A s \in Sessions : s # q.on /\ s <= opened =>
        far'[s] = far[s] /\ asked'[s] = asked[s] /\ inbox'[s] = inbox[s]
  BY DEF Cleans
<1>3. ASSUME NEW k \in Sends, NEW s \in Range(kept'[k])
      PROVE  RestsAt(asked'[s], far'[s], inbox'[s])
  <2>1. CASE s \in Range(kept[k])
    <3>1. k \in Keys
      BY DEF Keys
    <3>2. s \in Sessions /\ s <= opened /\ s # q.on
      BY <2>1, <3>1, KeptSeqs DEF PoolInv, Apart
    <3>3. RestsAt(asked[s], far[s], inbox[s])
      BY <2>1 DEF Clean, Rests
    <3>4. QED BY <1>2, <3>2, <3>3
  <2>2. CASE s = q.on /\ RestsAt(asked'[s], far'[s], inbox'[s])
    BY <2>2
  <2>3. QED BY <1>3, <2>1, <2>2 DEF Cleans
<1>4. ASSUME NEW u \in Threads, u # t, Sending(th[u]), th[u].pc \in Resting \cup {"read"}
      PROVE  LET s == th[u].on
             IN  far'[s] = far[s] /\ asked'[s] = asked[s] /\ inbox'[s] = inbox[s]
  <2>1. th[u].on \in Sessions /\ th[u].on # None /\ th[u].on <= opened
    BY <1>4, SendingIs
  <2>2. th[u].on # q.on
    BY <1>4, <2>1 DEF PoolInv, Apart
  <2>3. QED BY <1>2, <2>1, <2>2
<1>5. ASSUME NEW u \in Threads, Sending(th'[u]), th'[u].pc \in Resting
      PROVE  RestsAt(asked'[th'[u].on], far'[th'[u].on], inbox'[th'[u].on])
  <2>1. CASE u = t
    BY <1>1, <1>5, <2>1 DEF Cleans
  <2>2. CASE u # t
    <3>1. th'[u] = th[u]
      BY <1>1, <2>2
    <3>2. RestsAt(asked[th[u].on], far[th[u].on], inbox[th[u].on])
      BY <1>5, <3>1 DEF Clean, Rests
    <3>3. QED BY <1>4, <1>5, <2>2, <3>1, <3>2
  <2>3. QED BY <2>1, <2>2
<1>6. ASSUME NEW u \in Threads, Sending(th'[u]), th'[u].pc = "read"
      PROVE  ReadsAt(asked'[th'[u].on], far'[th'[u].on], inbox'[th'[u].on], th'[u].id)
  <2>1. CASE u = t
    BY <1>1, <1>6, <2>1 DEF Cleans
  <2>2. CASE u # t
    <3>1. th'[u] = th[u]
      BY <1>1, <2>2
    <3>2. ReadsAt(asked[th[u].on], far[th[u].on], inbox[th[u].on], th[u].id)
      BY <1>6, <3>1 DEF Clean
    <3>3. QED BY <1>4, <1>6, <2>2, <3>1, <3>2
  <2>3. QED BY <2>1, <2>2
<1>7. \A s \in Sessions : asked'[s] = <<>> \/ \E x \in 1..requests' : asked'[s] = <<x>>
  BY DEF Cleans
<1>8. QED BY <1>3, <1>5, <1>6, <1>7 DEF Clean, Rests

\* A thread goes on, and no request is asked more than it was.
LEMMA SpentGoes ==
  ASSUME PoolInv, Spent, NEW t \in Threads, NEW r, Goes(t, r), NEW q, q = th[t],
         UNCHANGED <<asked, carried, requests>>,
         Sending(r) => Sending(q) /\ r.id = q.id /\ Left(r) <= Left(q)
  PROVE  Spent'
<1>1. \A u \in Threads : th'[u] = IF u = t THEN r ELSE th[u]
  BY GoesTo DEF PoolInv
<1>2. ASSUME NEW u \in Threads, Sending(th'[u])
      PROVE  Sending(th[u]) /\ th'[u].id = th[u].id /\ Left(th'[u]) <= Left(th[u])
  <2>1. CASE u = t
    BY <1>1, <1>2, <2>1
  <2>2. CASE u # t
    <3>1. th'[u] = th[u]
      BY <1>1, <2>2
    <3>2. QED BY <1>2, <3>1, LeftIs
  <2>3. QED BY <2>1, <2>2
<1>3. \A u, v \in Threads : Sending(th'[u]) /\ Sending(th'[v]) /\ th'[u].id = th'[v].id => u = v
  BY <1>2 DEF Spent
<1>4. ASSUME NEW u \in Threads, Sending(th'[u])
      PROVE  carried'[th'[u].id] + Cardinality(AskedOf(asked', th'[u].id)) + Left(th'[u]) <= 2
  <2>1. PICK i : i = th[u].id
    OBVIOUS
  <2>2. carried[i] + Cardinality(AskedOf(asked, i)) + Left(th[u]) <= 2 /\ i \in Requests
    BY <1>2, <1>4, <2>1, SendingIs DEF Spent
  <2>3. carried[i] \in Nat /\ Cardinality(AskedOf(asked, i)) \in Nat
    BY <2>2, AskedIs DEF PoolInv, TypeOK
  <2>4. Left(th'[u]) <= Left(th[u]) /\ th'[u].id = i
    BY <1>2, <1>4, <2>1
  <2>5. carried[i] + Cardinality(AskedOf(asked, i)) + Left(th'[u]) <= 2
    BY <2>2, <2>3, <2>4, LeftIs
  <2>6. QED BY <2>4, <2>5
<1>5. QED BY <1>3, <1>4 DEF Spent

\* What goes on does not touch what was asked or said.
LEMMA AnswersPlain ==
  ASSUME PoolInv, Answers, NEW t \in Threads, NEW r, Goes(t, r), NEW q, q = th[t],
         UNCHANGED <<far, asked, inbox, requests, carried, answered>>,
         \A k \in Sends : \A s \in Range(kept'[k]) : s \in Range(kept[k]) \/ (s = q.on /\ Rests(s)),
         Sending(r) => Sending(q) /\ r.id = q.id /\ Left(r) <= Left(q) /\ r.pc # "read",
         Sending(r) /\ r.pc \in Resting => Rests(r.on)
  PROVE  Answers'
<1>1. Clean /\ Spent /\ OwnAnswers
  BY DEF Answers
<1>2. \A s \in Sessions : asked[s] = <<>> \/ \E x \in 1..requests : asked[s] = <<x>>
  BY <1>1 DEF Clean
<1>3. Cleans(q, r)
  BY <1>2 DEF Cleans, Rests
<1>4. Clean'
  BY <1>1, <1>3, CleanGoes
<1>5. Spent'
  BY <1>1, SpentGoes
<1>6. OwnAnswers'
  BY <1>1 DEF OwnAnswers
<1>7. QED BY <1>4, <1>5, <1>6 DEF Answers

\* An exchange that is over.
LEMMA AnswersEnds ==
  ASSUME PoolInv, Answers, NEW t \in Threads, Goes(t, Idle), NEW q, q = th[t],
         UNCHANGED <<far, asked, inbox, requests, carried, answered>>,
         \A k \in Sends : \A s \in Range(kept'[k]) : s \in Range(kept[k]) \/ (s = q.on /\ Rests(s))
  PROVE  Answers'
<1>1. PICK r : r = Idle
  OBVIOUS
<1>2. ~Sending(r) /\ Goes(t, r)
  BY <1>1, IdleIsWell DEF Sending
<1>3. QED BY <1>2, AnswersPlain

LEMMA AnswersBegins ==
  ASSUME PoolInv, Answers, NEW t \in Threads,
         \/ \E k \in Receives : Receive(t, k)
         \/ \E d \in owed : Acknowledge(t, d)
  PROVE  Answers'
<1>1. CASE \E k \in Receives : Receive(t, k)
  <2>1. PICK k \in Receives : Receive(t, k)
    BY <1>1
  <2>2. PICK r : r = [Idle EXCEPT !.pc = "take", !.op = "receive", !.key = k]
    OBVIOUS
  <2>3. ~Sending(r)
    BY <2>2 DEF Idle, Sending
  <2>4. Goes(t, r) /\ UNCHANGED <<kept, far, asked, inbox, requests, carried, answered>>
    BY <2>1, <2>2 DEF Receive, count, wire, past
  <2>5. QED BY <2>3, <2>4, AnswersPlain
<1>2. CASE \E d \in owed : Acknowledge(t, d)
  <2>1. PICK d \in owed : Acknowledge(t, d)
    BY <1>2
  <2>2. PICK r : r = [Idle EXCEPT !.pc = "take", !.op = "ack", !.key = key[came[d]], !.id = d]
    OBVIOUS
  <2>3. ~Sending(r)
    BY <2>2 DEF Idle, Sending
  <2>4. Goes(t, r) /\ UNCHANGED <<kept, far, asked, inbox, requests, carried, answered>>
    BY <2>1, <2>2 DEF Acknowledge, count, wire, past
  <2>5. QED BY <2>3, <2>4, AnswersPlain
<1>3. QED BY <1>1, <1>2

LEMMA AnswersTakes ==
  ASSUME PoolInv, Answers, NEW t \in Threads,
         Pop(t) \/ Check(t) \/ LetGoUnusable(t) \/ OpenFails(t)
  PROVE  Answers'
<1>1. PICK q : q = th[t]
  OBVIOUS
<1>2. q \in Threadings /\ Well(q, opened, key, requests, came)
  BY <1>1, Stand
<1>3. CASE Pop(t)
  <2>1. q.pc = "take" /\ ~q.fresh /\ UNCHANGED <<far, asked, inbox, requests, carried, answered>>
    BY <1>1, <1>2, <1>3 DEF Pop, Well, past, wire, count
  <2>2. PICK k \in Keys : k = q.key
    BY <1>2, <2>1 DEF Well, Does, Keys
  <2>3. CASE Found(t) # <<>>
    <3>1. kept[k] \in Seq(Sessions) /\ IsInjective(kept[k]) /\ kept[k] # <<>>
      BY <1>1, <2>2, <2>3, KeptSeqs DEF Found
    <3>2. PICK left : left = Front(kept[k])
      OBVIOUS
    <3>3. PICK s : s = Last(kept[k])
      OBVIOUS
    <3>4. Range(left) \subseteq Range(kept[k]) /\ s \in Range(kept[k])
      BY <3>1, <3>2, <3>3, TakenIs
    <3>5. PICK r : r = [q EXCEPT !.pc = "check", !.on = s]
      OBVIOUS
    <3>6. Goes(t, r) /\ kept' = [kept EXCEPT ![k] = left]
      BY <1>1, <1>3, <2>2, <2>3, <3>2, <3>3, <3>5 DEF Pop, Taken, Found
    <3>7. \A l \in Keys : Range(kept'[l]) \subseteq Range(kept[l])
      BY <3>4, <3>6 DEF PoolInv, TypeOK
    <3>8. r.op = q.op /\ r.id = q.id /\ r.on = s /\ r.pc = "check" /\ r.fresh = q.fresh
      BY <1>2, <3>5 DEF Threadings
    <3>9. Left(r) <= Left(q)
      BY <2>1, <3>8 DEF Left
    <3>10. Sending(r) => Sending(q) /\ k \in Sends
      BY <1>2, <2>1, <2>2, <3>8 DEF Sending, Well, Does
    <3>11. Sending(r) => Rests(r.on)
      BY <3>4, <3>8, <3>10 DEF Answers, Clean
    <3>12. \A l \in Sends : \A x \in Range(kept'[l]) : x \in Range(kept[l])
      BY <3>7 DEF Keys
    <3>13. QED BY <1>1, <2>1, <3>6, <3>8, <3>9, <3>10, <3>11, <3>12, AnswersPlain
  <2>4. CASE Found(t) = <<>>
    <3>1. Goes(t, NoneFound(t)) /\ kept' = kept
      BY <1>1, <1>3, <2>4 DEF Pop
    <3>2. CASE q.op = "ack"
      <4>1. Goes(t, Idle)
        BY <1>1, <3>1, <3>2 DEF NoneFound
      <4>2. QED BY <1>1, <2>1, <3>1, <4>1, AnswersEnds
    <3>3. CASE q.op # "ack"
      <4>1. PICK r : r = [q EXCEPT !.pc = "letgo"]
        OBVIOUS
      <4>2. Goes(t, r)
        BY <1>1, <3>1, <3>3, <4>1 DEF NoneFound
      <4>3. r.op = q.op /\ r.id = q.id /\ r.pc = "letgo"
        BY <1>2, <4>1 DEF Threadings
      <4>4. Left(r) <= Left(q) /\ r.pc \notin Resting
        BY <2>1, <4>3 DEF Left, Resting
      <4>5. QED BY <1>1, <2>1, <3>1, <4>2, <4>3, <4>4, AnswersPlain DEF Sending
    <3>4. QED BY <3>2, <3>3
  <2>5. QED BY <2>3, <2>4
<1>4. CASE Check(t)
  <2>1. q.pc = "check" /\ ~q.fresh /\ UNCHANGED <<kept, far, asked, inbox, requests, carried, answered>>
    BY <1>1, <1>2, <1>4 DEF Check, Well, past, wire, count
  <2>2. PICK pc : pc = IF q.op = "receive" THEN "read" ELSE "write"
    OBVIOUS
  <2>3. PICK r : r = IF Usable(q.on) THEN [q EXCEPT !.pc = pc] ELSE [q EXCEPT !.pc = "take", !.on = None]
    OBVIOUS
  <2>4. Goes(t, r)
    BY <1>1, <1>4, <2>2, <2>3 DEF Check, Begins
  <2>5. /\ r.op = q.op /\ r.id = q.id /\ r.fresh = q.fresh
        /\ (r.pc = pc /\ r.on = q.on) \/ r.pc = "take"
    BY <1>2, <2>3 DEF Threadings
  <2>6. Sending(r) => Sending(q) /\ r.pc \in {"write", "take"}
    BY <2>2, <2>5 DEF Sending
  <2>7. Sending(r) => Left(r) <= Left(q)
    BY <2>1, <2>5, <2>6 DEF Left
  <2>8. Sending(r) /\ r.pc \in Resting => Rests(r.on)
    <3>1. Sending(q) => Rests(q.on)
      BY <1>1, <2>1 DEF Answers, Clean, Resting
    <3>2. QED BY <2>5, <2>6, <3>1 DEF Resting
  <2>9. QED BY <1>1, <2>1, <2>4, <2>5, <2>6, <2>7, <2>8, AnswersPlain
<1>5. CASE LetGoUnusable(t)
  <2>1. PICK r : r = [q EXCEPT !.pc = "open"]
    OBVIOUS
  <2>2. /\ q.pc = "letgo" /\ Goes(t, r) /\ kept' = [k \in Keys |-> UsableOf(kept[k])]
        /\ UNCHANGED <<far, asked, inbox, requests, carried, answered>>
    BY <1>1, <1>5, <2>1 DEF LetGoUnusable, past, wire, count
  <2>3. r.op = q.op /\ r.id = q.id /\ r.pc = "open"
    BY <1>2, <2>1 DEF Threadings
  <2>4. Left(r) <= Left(q) /\ r.pc \notin Resting
    BY <2>2, <2>3 DEF Left, Resting
  <2>5. \A k \in Keys : Range(UsableOf(kept[k])) \subseteq Range(kept[k])
    BY KeptSeqs, UsableOfIsSome
  <2>6. \A k \in Sends : \A s \in Range(kept'[k]) : s \in Range(kept[k])
    BY <2>2, <2>5 DEF Keys
  <2>7. QED BY <1>1, <2>2, <2>3, <2>4, <2>6, AnswersPlain DEF Sending
<1>6. CASE OpenFails(t)
  <2>1. Goes(t, Idle) /\ UNCHANGED <<kept, far, asked, inbox, requests, carried, answered>>
    BY <1>6 DEF OpenFails, Ends, past, wire, count
  <2>2. QED BY <1>1, <2>1, AnswersEnds
<1>7. QED BY <1>3, <1>4, <1>5, <1>6

\* An exchange that failed, one that handed over, and one put back.
LEMMA AnswersLeaves ==
  ASSUME PoolInv, Answers, NEW t \in Threads, HandOver(t) \/ Fail(t) \/ Return(t)
  PROVE  Answers'
<1>1. PICK q : q = th[t]
  OBVIOUS
<1>2. q \in Threadings /\ Well(q, opened, key, requests, came)
  BY <1>1, Stand
<1>3. CASE HandOver(t)
  <2>1. PICK r : r = [q EXCEPT !.pc = "keep", !.got = {}]
    OBVIOUS
  <2>2. /\ q.op = "receive" /\ Goes(t, r)
        /\ UNCHANGED <<kept, far, asked, inbox, requests, carried, answered>>
    BY <1>1, <1>3, <2>1 DEF HandOver, past, wire, count
  <2>3. ~Sending(r)
    BY <1>2, <2>1, <2>2 DEF Threadings, Sending
  <2>4. QED BY <1>1, <2>2, <2>3, AnswersPlain
<1>4. CASE Fail(t)
  <2>1. /\ q.pc \in {"write", "read"} /\ Goes(t, AfterFailure(t))
        /\ UNCHANGED <<kept, far, asked, inbox, requests, carried, answered>>
    BY <1>1, <1>4 DEF Fail, past, wire, count
  <2>2. CASE q.fresh \/ q.op = "ack"
    <3>1. Goes(t, Idle)
      BY <1>1, <2>1, <2>2 DEF AfterFailure
    <3>2. QED BY <1>1, <2>1, <3>1, AnswersEnds
  <2>3. CASE ~(q.fresh \/ q.op = "ack")
    <3>1. PICK r : r = [q EXCEPT !.pc = "letgo", !.on = None, !.got = {}]
      OBVIOUS
    <3>2. Goes(t, r)
      BY <1>1, <2>1, <2>3, <3>1 DEF AfterFailure
    <3>3. r.op = q.op /\ r.id = q.id /\ r.pc = "letgo"
      BY <1>2, <3>1 DEF Threadings
    <3>4. Left(r) <= Left(q) /\ r.pc \notin Resting
      BY <2>1, <2>3, <3>3 DEF Left, Resting
    <3>5. QED BY <1>1, <2>1, <3>2, <3>3, <3>4, AnswersPlain DEF Sending
  <2>4. QED BY <2>2, <2>3
<1>5. CASE PutBack(t)
  <2>1. q.pc = "keep" /\ UNCHANGED <<kept, far, asked, inbox, requests, carried, answered>>
    BY <1>1, <1>5 DEF PutBack, past, wire, count
  <2>2. CASE Usable(q.on)
    <3>1. PICK r : r = [q EXCEPT !.pc = "push"]
      OBVIOUS
    <3>2. Goes(t, r)
      BY <1>1, <1>5, <2>2, <3>1 DEF PutBack
    <3>3. r.op = q.op /\ r.id = q.id /\ r.pc = "push" /\ r.on = q.on
      BY <1>2, <3>1 DEF Threadings
    <3>4. Left(r) <= Left(q)
      BY <2>1, <3>3 DEF Left
    <3>5. Sending(q) => Rests(q.on)
      BY <1>1, <2>1 DEF Answers, Clean, Resting
    <3>6. QED BY <1>1, <2>1, <3>2, <3>3, <3>4, <3>5, AnswersPlain DEF Sending
  <2>3. CASE ~Usable(q.on)
    <3>1. Goes(t, Idle)
      BY <1>1, <1>5, <2>3 DEF PutBack, Ends
    <3>2. QED BY <1>1, <2>1, <3>1, AnswersEnds
  <2>4. QED BY <2>2, <2>3
<1>6. CASE Push(t)
  <2>1. q.pc = "push" /\ Goes(t, Idle) /\ UNCHANGED <<far, asked, inbox, requests, carried, answered>>
    BY <1>1, <1>6 DEF Push, Ends, past, wire, count
  <2>2. PICK s \in Sessions : s = q.on
    BY <1>2, <2>1 DEF Well, Threadings, Out
  <2>3. PICK k \in Keys : k = q.key
    BY <1>2, <2>1 DEF Well, Does, Keys
  <2>4. kept[k] \in Seq(Sessions) /\ IsInjective(kept[k]) /\ s \notin Range(kept[k])
    BY <1>1, <2>2, KeptSeqs DEF PoolInv, Apart
  <2>5. PICK more : more = Append(kept[k], s)
    OBVIOUS
  <2>6. Range(more) = Range(kept[k]) \cup {s}
    BY <2>4, <2>5, PushedIs
  <2>7. kept' = [kept EXCEPT ![k] = more]
    BY <1>1, <1>6, <2>2, <2>3, <2>5 DEF Push
  <2>8. k \in Sends => Sending(q)
    BY <1>2, <2>1, <2>3, PoolAssumption DEF Well, Does, Sending
  <2>9. k \in Sends => Rests(s)
    BY <1>1, <2>1, <2>2, <2>8 DEF Answers, Clean, Resting
  <2>10. \A l \in Sends : \A x \in Range(kept'[l]) : x \in Range(kept[l]) \/ (x = q.on /\ Rests(x))
    BY <2>2, <2>6, <2>7, <2>9 DEF Keys, PoolInv, TypeOK
  <2>11. QED BY <1>1, <2>1, <2>10, AnswersEnds
<1>7. QED BY <1>3, <1>4, <1>5, <1>6 DEF Return

\* A new session has nothing asked on it, and nothing said.
LEMMA AnswersOpen ==
  ASSUME PoolInv, Answers, NEW t \in Threads, Open(t)
  PROVE  Answers'
<1>1. PICK q : q = th[t]
  OBVIOUS
<1>2. q \in Threadings /\ Well(q, opened, key, requests, came) /\ q.pc = "open"
  BY <1>1, Stand DEF Open
<1>3. PICK pc : pc = IF q.op = "receive" THEN "read" ELSE "write"
  OBVIOUS
<1>4. PICK n : n = opened + 1
  OBVIOUS
<1>5. n \in Sessions /\ n > opened /\ \A s \in Sessions : s <= opened => s # n
  BY <1>4, Stand, PoolAssumption DEF Open, Sessions
<1>6. PICK r : r = [q EXCEPT !.pc = pc, !.on = n, !.fresh = TRUE]
  OBVIOUS
<1>7. /\ Goes(t, r) /\ far' = [far EXCEPT ![n] = TRUE]
      /\ UNCHANGED <<kept, asked, inbox, requests, carried, answered>>
  BY <1>1, <1>3, <1>4, <1>6 DEF Open, Begins, past
<1>8. r.op = q.op /\ r.id = q.id /\ r.pc = pc /\ r.on = n /\ r.fresh
  BY <1>2, <1>6 DEF Threadings
<1>9. Sending(r) => Sending(q) /\ r.pc = "write"
  BY <1>3, <1>8 DEF Sending
<1>10. Sending(r) => Left(r) <= Left(q)
  BY <1>2, <1>8, <1>9 DEF Left
<1>11. asked[n] = <<>> /\ inbox[n] = <<>>
  BY <1>5 DEF PoolInv, Wires
<1>12. RestsAt(asked'[n], far'[n], inbox'[n])
  BY <1>7, <1>11 DEF RestsAt
<1>13. \A s \in Sessions : s # q.on /\ s <= opened =>
         far'[s] = far[s] /\ asked'[s] = asked[s] /\ inbox'[s] = inbox[s]
  BY <1>5, <1>7 DEF PoolInv, TypeOK
<1>14. \A s \in Sessions : asked'[s] = <<>> \/ \E x \in 1..requests' : asked'[s] = <<x>>
  BY <1>7 DEF Answers, Clean
<1>15. Cleans(q, r)
  BY <1>7, <1>8, <1>9, <1>12, <1>13, <1>14 DEF Cleans
<1>16. Clean'
  BY <1>1, <1>7, <1>15, CleanGoes DEF Answers
<1>17. Spent'
  BY <1>1, <1>7, <1>8, <1>9, <1>10, SpentGoes DEF Answers
<1>18. QED BY <1>7, <1>16, <1>17 DEF Answers, OwnAnswers

LEMMA AskedGrows ==
  ASSUME NEW a, NEW b, NEW r, NEW s \in Sessions, \A u \in Sessions : u # s => b[u] = a[u]
  PROVE  Cardinality(AskedOf(b, r)) <= Cardinality(AskedOf(a, r)) + 1
<1>1. AskedOf(b, r) \subseteq AskedOf(a, r) \cup {s}
  BY DEF AskedOf
<1>2. /\ IsFiniteSet(AskedOf(a, r) \cup {s})
      /\ Cardinality(AskedOf(a, r) \cup {s}) \in {Cardinality(AskedOf(a, r)), Cardinality(AskedOf(a, r)) + 1}
  BY AskedIs, FS_AddElement
<1>3. Cardinality(AskedOf(b, r)) <= Cardinality(AskedOf(a, r) \cup {s})
  BY <1>1, <1>2, FS_Subset
<1>4. Cardinality(AskedOf(a, r)) \in Nat /\ Cardinality(AskedOf(b, r)) \in Nat
  BY AskedIs
<1>5. QED BY <1>2, <1>3, <1>4

\* A request begun is nowhere yet.
LEMMA AnswersSend ==
  ASSUME PoolInv, Answers, NEW t \in Threads, NEW k \in Sends, Send(t, k)
  PROVE  Answers'
<1>1. PICK q : q = th[t]
  OBVIOUS
<1>2. PICK n : n = requests + 1
  OBVIOUS
<1>3. PICK r : r = [Idle EXCEPT !.pc = "take", !.op = "send", !.key = k, !.id = n]
  OBVIOUS
<1>4. /\ Goes(t, r) /\ requests' = n /\ requests < MaxRequests
      /\ UNCHANGED <<kept, far, asked, inbox, carried, answered>>
  BY <1>2, <1>3 DEF Send, wire, past
<1>5. r.pc = "take" /\ r.id = n /\ r.op = "send" /\ Left(r) = 2
  BY <1>3 DEF Idle, Left
<1>6. /\ n \in Requests /\ n > requests /\ requests \in Nat
      /\ \A x \in 1..requests : x \in 1..n /\ x # n
      /\ \A x \in Requests : x > n => x > requests
  BY <1>2, <1>4, Stand, PoolAssumption DEF Requests
<1>7. \A u \in Threads : th'[u] = IF u = t THEN r ELSE th[u]
  BY <1>4, GoesTo DEF PoolInv
<1>8. \A s \in Sessions : asked'[s] = <<>> \/ \E x \in 1..requests' : asked'[s] = <<x>>
  BY <1>4, <1>6 DEF Answers, Clean
<1>9. Cleans(q, r)
  BY <1>4, <1>5, <1>8 DEF Cleans, Resting
<1>10. Clean'
  BY <1>1, <1>4, <1>9, CleanGoes DEF Answers
<1>11. \A u \in Threads : u # t /\ Sending(th[u]) => th[u].id # n
  BY <1>6, SendingIs
<1>12. Spent
  BY DEF Answers
<1>13. \A u, v \in Threads : Sending(th'[u]) /\ Sending(th'[v]) /\ th'[u].id = th'[v].id => u = v
  BY <1>5, <1>7, <1>11, <1>12 DEF Spent
<1>14. carried[n] + Cardinality(AskedOf(asked, n)) + 2 <= 2
  <2>1. carried[n] = 0 /\ AskedOf(asked, n) = {}
    BY <1>6, <1>12 DEF Spent
  <2>2. Cardinality(AskedOf(asked, n)) = 0
    BY <2>1, FS_EmptySet
  <2>3. QED BY <2>1, <2>2
<1>15. ASSUME NEW u \in Threads, Sending(th'[u])
       PROVE  carried'[th'[u].id] + Cardinality(AskedOf(asked', th'[u].id)) + Left(th'[u]) <= 2
  <2>1. CASE u = t
    BY <1>4, <1>5, <1>7, <1>14, <2>1
  <2>2. CASE u # t
    BY <1>4, <1>7, <1>12, <1>15, <2>2 DEF Spent
  <2>3. QED BY <2>1, <2>2
<1>16. \A x \in Requests : x > requests' => carried'[x] = 0 /\ AskedOf(asked', x) = {}
  BY <1>4, <1>6, <1>12 DEF Spent
<1>17. Spent'
  BY <1>4, <1>12, <1>13, <1>15, <1>16 DEF Spent
<1>18. QED BY <1>4, <1>10, <1>17 DEF Answers, OwnAnswers

\* A request written is asked once more, and may be once less.
LEMMA AnswersWrite ==
  ASSUME PoolInv, Answers, NEW t \in Threads, Write(t)
  PROVE  Answers'
<1>1. PICK q : q = th[t]
  OBVIOUS
<1>2. q \in Threadings /\ Well(q, opened, key, requests, came) /\ q.pc = "write"
  BY <1>1, Stand DEF Write
<1>3. CASE q.op = "ack"
  <2>1. PICK r : r = [q EXCEPT !.pc = "keep"]
    OBVIOUS
  <2>2. Goes(t, r) /\ UNCHANGED <<kept, far, asked, inbox, requests, carried, answered>>
    BY <1>1, <1>3, <2>1 DEF Write, count
  <2>3. ~Sending(r)
    BY <1>2, <1>3, <2>1 DEF Threadings, Sending
  <2>4. QED BY <1>1, <2>2, <2>3, AnswersPlain
<1>4. CASE q.op # "ack"
  <2>1. Sending(q)
    BY <1>2, <1>4 DEF Sending, Well, Does
  <2>2. PICK s \in Sessions : s = q.on
    BY <1>2 DEF Well, Threadings, Out
  <2>3. PICK i : i = q.id
    OBVIOUS
  <2>4. i \in 1..requests /\ i \in Requests
    BY <1>1, <2>1, <2>3, SendingIs
  <2>5. PICK r : r = [q EXCEPT !.pc = "read"]
    OBVIOUS
  <2>6. Rests(s)
    BY <1>1, <1>2, <2>1, <2>2 DEF Answers, Clean, Resting
  <2>7. /\ Goes(t, r) /\ UNCHANGED <<kept, far, inbox, requests, carried, answered, opened>>
        /\ asked' = IF far[s] THEN [asked EXCEPT ![s] = Append(asked[s], i)] ELSE asked
    BY <1>1, <1>4, <2>2, <2>3, <2>5 DEF Write, count
  <2>8. /\ \A u \in Sessions : u # s => asked'[u] = asked[u]
        /\ asked'[s] = IF far[s] THEN <<i>> ELSE <<>>
    <3>1. Append(<<>>, i) = <<i>>
      OBVIOUS
    <3>2. QED BY <2>6, <2>7, <3>1 DEF PoolInv, TypeOK, Rests, RestsAt
  <2>9. r.op = q.op /\ r.id = i /\ r.pc = "read" /\ r.on = s /\ r.fresh = q.fresh
    BY <1>2, <2>2, <2>3, <2>5 DEF Threadings
  <2>10. ReadsAt(asked'[s], far'[s], inbox'[s], i)
    BY <2>6, <2>7, <2>8 DEF Rests, RestsAt, ReadsAt
  <2>11. \A u \in Sessions : asked'[u] = <<>> \/ \E x \in 1..requests' : asked'[u] = <<x>>
    <3>1. \A u \in Sessions : asked[u] = <<>> \/ \E x \in 1..requests : asked[u] = <<x>>
      BY DEF Answers, Clean
    <3>2. QED BY <2>4, <2>7, <2>8, <3>1
  <2>12. Cleans(q, r)
    BY <2>2, <2>7, <2>8, <2>9, <2>10, <2>11 DEF Cleans, Resting
  <2>13. Clean'
    BY <1>1, <2>7, <2>12, CleanGoes DEF Answers
  <2>14. Spent
    BY DEF Answers
  <2>15. \A u \in Threads : th'[u] = IF u = t THEN r ELSE th[u]
    BY <2>7, GoesTo DEF PoolInv
  <2>16. \A u \in Threads : Sending(th'[u]) => Sending(th[u]) /\ th'[u].id = th[u].id
    BY <1>1, <2>3, <2>9, <2>15 DEF Sending
  <2>17. \A u, v \in Threads : Sending(th'[u]) /\ Sending(th'[v]) /\ th'[u].id = th'[v].id => u = v
    BY <2>14, <2>16 DEF Spent
  <2>18. \A x \in Requests : x # i => AskedOf(asked', x) = AskedOf(asked, x)
    <3>1. asked[s] = <<>>
      BY <2>6 DEF Rests, RestsAt
    <3>2. \A x \in Requests : x # i => asked'[s] # <<x>> /\ asked[s] # <<x>>
      BY <2>8, <3>1
    <3>3. QED BY <2>8, <3>2 DEF AskedOf
  <2>19. Left(q) = Left(r) + 1
    BY <1>2, <2>9 DEF Left
  <2>20. carried[i] + Cardinality(AskedOf(asked', i)) + Left(r) <= 2
    <3>1. carried[i] + Cardinality(AskedOf(asked, i)) + Left(q) <= 2
      BY <1>1, <2>1, <2>3, <2>14 DEF Spent
    <3>2. Cardinality(AskedOf(asked', i)) <= Cardinality(AskedOf(asked, i)) + 1
      BY <2>8, AskedGrows
    <3>3. /\ carried[i] \in Nat /\ Cardinality(AskedOf(asked', i)) \in Nat
          /\ Cardinality(AskedOf(asked, i)) \in Nat
      BY <2>4, AskedIs DEF PoolInv, TypeOK
    <3>4. QED BY <2>19, <3>1, <3>2, <3>3, LeftIs
  <2>21. ASSUME NEW u \in Threads, Sending(th'[u])
         PROVE  carried'[th'[u].id] + Cardinality(AskedOf(asked', th'[u].id)) + Left(th'[u]) <= 2
    <3>1. CASE u = t
      BY <2>7, <2>9, <2>15, <2>20, <3>1
    <3>2. CASE u # t
      <4>1. th'[u] = th[u] /\ Sending(th[u]) /\ th[u].id # i /\ th[u].id \in Requests
        BY <1>1, <2>1, <2>3, <2>14, <2>15, <2>21, <3>2, SendingIs DEF Spent
      <4>2. QED BY <2>7, <2>14, <2>18, <4>1 DEF Spent
    <3>3. QED BY <3>1, <3>2
  <2>22. \A x \in Requests : x > requests' => carried'[x] = 0 /\ AskedOf(asked', x) = {}
    <3>1. \A x \in Requests : x > requests => x # i
      BY <2>4, Stand DEF Requests
    <3>2. QED BY <2>7, <2>14, <2>18, <3>1 DEF Spent
  <2>23. \A x \in Requests : carried'[x] + Cardinality(AskedOf(asked', x)) <= 2
    <3>1. carried[i] + Cardinality(AskedOf(asked', i)) <= 2
      <4>1. carried[i] \in Nat /\ Cardinality(AskedOf(asked', i)) \in Nat
        BY <2>4, AskedIs DEF PoolInv, TypeOK
      <4>2. QED BY <2>20, <4>1, LeftIs
    <3>2. QED BY <2>7, <2>14, <2>18, <3>1 DEF Spent
  <2>24. Spent'
    BY <2>17, <2>21, <2>22, <2>23 DEF Spent
  <2>25. QED BY <2>7, <2>13, <2>24 DEF Answers, OwnAnswers
<1>5. QED BY <1>3, <1>4

\* What is read on a session for sends is its thread's own answer, or what
\* the far end said as it closed.
LEMMA AnswersReads ==
  ASSUME PoolInv, Answers, NEW t \in Threads, ReadAnswer(t) \/ ReadDelivery(t)
  PROVE  Answers'
<1>1. PICK q : q = th[t]
  OBVIOUS
<1>2. q \in Threadings /\ Well(q, opened, key, requests, came) /\ q.pc = "read"
  BY <1>1, Stand DEF ReadAnswer, ReadDelivery
<1>3. PICK s \in Sessions : s = q.on
  BY <1>2 DEF Well, Threadings, Out
<1>4. UNCHANGED <<kept, far, asked, requests, carried, opened>> /\ inbox' = [inbox EXCEPT ![s] = Tail(inbox[s])]
  BY <1>1, <1>3 DEF ReadAnswer, ReadDelivery, count
<1>5. \A u \in Sessions : u # s => inbox'[u] = inbox[u]
  BY <1>4 DEF PoolInv, TypeOK
<1>6. inbox'[s] = Tail(inbox[s])
  BY <1>4 DEF PoolInv, TypeOK
<1>7. \A u \in Sessions : asked'[u] = <<>> \/ \E x \in 1..requests' : asked'[u] = <<x>>
  BY <1>4 DEF Answers, Clean
<1>8. CASE ReadAnswer(t)
  <2>1. PICK h : h = Head(inbox[s])
    OBVIOUS
  <2>2. PICK r : r = [q EXCEPT !.pc = "keep"]
    OBVIOUS
  <2>3. /\ Sending(q) /\ Goes(t, r) /\ inbox[s] # <<>>
        /\ answered' = answered \cup {<<q.id, h>>}
    BY <1>1, <1>3, <1>8, <2>1, <2>2 DEF ReadAnswer, Sending
  <2>4. r.op = q.op /\ r.id = q.id /\ r.pc = "keep" /\ r.on = s
    BY <1>2, <1>3, <2>2 DEF Threadings
  <2>5. PICK i : i = q.id
    OBVIOUS
  <2>6. ReadsAt(asked[s], far[s], inbox[s], i)
    BY <1>1, <1>2, <1>3, <2>3, <2>5 DEF Answers, Clean
  <2>7. /\ Head(<<i>>) = i /\ Tail(<<i>>) = <<>>
        /\ Head(<<Notice>>) = Notice /\ Tail(<<Notice>>) = <<>>
        /\ Head(<<i, Notice>>) = i /\ Tail(<<i, Notice>>) = <<Notice>>
    OBVIOUS
  <2>8. asked[s] = <<>> /\ (inbox[s] = <<i>> \/ (~far[s] /\ inbox[s] \in {<<Notice>>, <<i, Notice>>}))
    BY <2>3, <2>6 DEF ReadsAt
  <2>9. h \in {i, Notice} /\ RestsAt(asked'[s], far'[s], inbox'[s])
    <3>1. PICK w : w = inbox[s]
      OBVIOUS
    <3>2. h = Head(w) /\ inbox'[s] = Tail(w) /\ asked'[s] = <<>> /\ far'[s] = far[s]
      BY <1>4, <1>6, <2>1, <2>8, <3>1
    <3>3. CASE w = <<i>>
      BY <2>7, <3>2, <3>3 DEF RestsAt
    <3>4. CASE ~far[s] /\ w = <<Notice>>
      BY <2>7, <3>2, <3>4 DEF RestsAt
    <3>5. CASE ~far[s] /\ w = <<i, Notice>>
      BY <2>7, <3>2, <3>5 DEF RestsAt
    <3>6. QED BY <2>8, <3>1, <3>3, <3>4, <3>5
  <2>10. Cleans(q, r)
    BY <1>3, <1>4, <1>5, <1>7, <2>4, <2>9 DEF Cleans
  <2>11. Clean'
    BY <1>1, <2>3, <2>10, CleanGoes DEF Answers
  <2>12. Left(r) <= Left(q)
    BY <1>2, <2>4 DEF Left
  <2>13. Spent'
    BY <1>1, <1>4, <2>3, <2>4, <2>12, SpentGoes DEF Answers
  <2>14. OwnAnswers'
    BY <2>3, <2>5, <2>9 DEF Answers, OwnAnswers
  <2>15. QED BY <2>11, <2>13, <2>14 DEF Answers
<1>9. CASE ReadDelivery(t)
  <2>1. PICK got : got = q.got \cup {Head(inbox[s])}
    OBVIOUS
  <2>2. PICK r : r = [q EXCEPT !.got = got]
    OBVIOUS
  <2>3. q.op = "receive" /\ Goes(t, r) /\ UNCHANGED answered
    BY <1>1, <1>3, <1>9, <2>1, <2>2 DEF ReadDelivery
  <2>4. ~Sending(r)
    BY <1>2, <2>2, <2>3 DEF Threadings, Sending
  <2>5. Cleans(q, r)
    BY <1>3, <1>4, <1>5, <1>7, <2>4 DEF Cleans
  <2>6. Clean'
    BY <1>1, <2>3, <2>5, CleanGoes DEF Answers
  <2>7. Spent'
    BY <1>1, <1>4, <2>3, <2>4, SpentGoes DEF Answers
  <2>8. QED BY <2>3, <2>6, <2>7 DEF Answers, OwnAnswers
<1>10. QED BY <1>8, <1>9

\* What a far end does leaves the sessions for sends at rest, or in reading.
LEMMA CleanFar ==
  ASSUME PoolInv, Clean, UNCHANGED <<kept, th, requests>>,
         \A s \in Sessions : key[s] \in Sends /\ Rests(s) => RestsAt(asked'[s], far'[s], inbox'[s]),
         \A s \in Sessions : key[s] \in Sends => \A x \in Nat : ReadsAt(asked[s], far[s], inbox[s], x) =>
           ReadsAt(asked'[s], far'[s], inbox'[s], x),
         \A s \in Sessions : asked'[s] \in {<<>>, asked[s]}
  PROVE  Clean'
<1>1. ASSUME NEW k \in Sends, NEW s \in Range(kept'[k]) PROVE RestsAt(asked'[s], far'[s], inbox'[s])
  <2>1. k \in Keys /\ s \in Range(kept[k])
    BY <1>1 DEF Keys
  <2>2. s \in Sessions /\ key[s] = k
    BY <2>1, KeptSeqs DEF PoolInv, Apart
  <2>3. QED BY <1>1, <2>1, <2>2 DEF Clean
<1>2. ASSUME NEW t \in Threads, Sending(th[t]), th[t].pc \in Resting \cup {"read"}
      PROVE  th[t].on \in Sessions /\ key[th[t].on] \in Sends
  BY <1>2, SendingIs
<1>3. ASSUME NEW t \in Threads, Sending(th[t]), th[t].pc \in Resting
      PROVE  RestsAt(asked'[th[t].on], far'[th[t].on], inbox'[th[t].on])
  BY <1>2, <1>3 DEF Clean
<1>4. ASSUME NEW t \in Threads, Sending(th[t]), th[t].pc = "read"
      PROVE  ReadsAt(asked'[th[t].on], far'[th[t].on], inbox'[th[t].on], th[t].id)
  <2>1. ReadsAt(asked[th[t].on], far[th[t].on], inbox[th[t].on], th[t].id)
    BY <1>4 DEF Clean
  <2>2. th[t].id \in Nat
    BY Stand DEF Threadings
  <2>3. QED BY <1>2, <1>4, <2>1, <2>2
<1>5. \A s \in Sessions : asked'[s] = <<>> \/ \E r \in 1..requests' : asked'[s] = <<r>>
  BY DEF Clean
<1>6. QED BY <1>1, <1>3, <1>4, <1>5 DEF Clean, Rests

\* A far end carries out what it was asked, or drops it.
LEMMA SpentFar ==
  ASSUME PoolInv, PoolInv', Spent, UNCHANGED <<th, requests>>,
         \A x \in Requests : carried'[x] + Cardinality(AskedOf(asked', x))
                               <= carried[x] + Cardinality(AskedOf(asked, x)),
         \A x \in Requests : x > requests => carried'[x] = 0 /\ AskedOf(asked', x) = {}
  PROVE  Spent'
<1>1. ASSUME NEW x \in Requests
      PROVE  /\ carried[x] \in Nat /\ Cardinality(AskedOf(asked, x)) \in Nat
             /\ carried'[x] \in Nat /\ Cardinality(AskedOf(asked', x)) \in Nat
  BY <1>1, AskedIs DEF PoolInv, TypeOK
<1>2. \A x \in Requests : carried'[x] + Cardinality(AskedOf(asked', x)) <= 2
  BY <1>1 DEF Spent
<1>3. ASSUME NEW t \in Threads, Sending(th[t])
      PROVE  carried'[th[t].id] + Cardinality(AskedOf(asked', th[t].id)) + Left(th[t]) <= 2
  <2>1. PICK x \in Requests : x = th[t].id
    BY <1>3, SendingIs
  <2>2. carried[x] + Cardinality(AskedOf(asked, x)) + Left(th[t]) <= 2
    BY <1>3, <2>1 DEF Spent
  <2>3. carried'[x] + Cardinality(AskedOf(asked', x)) + Left(th[t]) <= 2
    BY <1>1, <2>2, LeftIs
  <2>4. QED BY <2>1, <2>3
<1>4. QED BY <1>2, <1>3 DEF Spent

LEMMA AnswersAnswer ==
  ASSUME PoolInv, PoolInv', Answers, NEW s \in Sessions, Answer(s)
  PROVE  Answers'
<1>1. Clean /\ Spent /\ OwnAnswers
  BY DEF Answers
<1>2. PICK h \in 1..requests : asked[s] = <<h>>
  BY <1>1 DEF Answer, Clean
<1>3. h \in Requests /\ Head(<<h>>) = h /\ Tail(<<h>>) = <<>> /\ h <= requests
  <2>1. requests \in 0..MaxRequests /\ MaxRequests \in Nat
    BY PoolAssumption DEF PoolInv, TypeOK
  <2>2. QED BY <2>1 DEF Requests
<1>4. /\ far[s] /\ UNCHANGED <<kept, requests, far, th, answered>>
      /\ asked' = [asked EXCEPT ![s] = <<>>] /\ carried' = [carried EXCEPT ![h] = carried[h] + 1]
      /\ inbox' = [inbox EXCEPT ![s] = Append(inbox[s], h)]
  BY <1>2, <1>3 DEF Answer, count
<1>5. /\ asked'[s] = <<>> /\ inbox'[s] = Append(inbox[s], h)
      /\ \A u \in Sessions : u # s => asked'[u] = asked[u] /\ inbox'[u] = inbox[u]
      /\ carried'[h] = carried[h] + 1 /\ \A x \in Requests : x # h => carried'[x] = carried[x]
  BY <1>3, <1>4 DEF PoolInv, TypeOK
<1>6. ~Rests(s)
  BY <1>2 DEF Rests, RestsAt
<1>7. \A x : ReadsAt(asked[s], far[s], inbox[s], x) => x = h /\ inbox[s] = <<>>
  BY <1>2 DEF ReadsAt
<1>8. Append(<<>>, h) = <<h>>
  OBVIOUS
<1>9. \A x : ReadsAt(asked[s], far[s], inbox[s], x) => ReadsAt(asked'[s], far'[s], inbox'[s], x)
  BY <1>5, <1>7, <1>8 DEF ReadsAt
<1>10. Clean'
  <2>1. \A u \in Sessions : key[u] \in Sends /\ Rests(u) => RestsAt(asked'[u], far'[u], inbox'[u])
    BY <1>4, <1>5, <1>6 DEF Rests
  <2>2. \A u \in Sessions : key[u] \in Sends => \A x \in Nat : ReadsAt(asked[u], far[u], inbox[u], x) =>
          ReadsAt(asked'[u], far'[u], inbox'[u], x)
    BY <1>4, <1>5, <1>9
  <2>3. \A u \in Sessions : asked'[u] \in {<<>>, asked[u]}
    BY <1>5
  <2>4. QED BY <1>1, <1>4, <2>1, <2>2, <2>3, CleanFar
<1>11. AskedOf(asked', h) = AskedOf(asked, h) \ {s} /\ s \in AskedOf(asked, h)
  BY <1>2, <1>5 DEF AskedOf
<1>12. \A x \in Requests : x # h => AskedOf(asked', x) = AskedOf(asked, x)
  <2>1. \A x \in Requests : x # h => asked[s] # <<x>> /\ asked'[s] # <<x>>
    BY <1>2, <1>5
  <2>2. QED BY <1>5, <2>1 DEF AskedOf
<1>13. carried'[h] + Cardinality(AskedOf(asked', h)) <= carried[h] + Cardinality(AskedOf(asked, h))
  <2>1. /\ IsFiniteSet(AskedOf(asked, h)) /\ Cardinality(AskedOf(asked, h)) \in Nat
        /\ Cardinality(AskedOf(asked', h)) \in Nat /\ carried[h] \in Nat
    BY <1>3, AskedIs DEF PoolInv, TypeOK
  <2>2. Cardinality(AskedOf(asked', h)) = Cardinality(AskedOf(asked, h)) - 1
    BY <1>11, <2>1, FS_RemoveElement
  <2>3. QED BY <1>5, <2>1, <2>2
<1>14. \A x \in Requests : carried'[x] + Cardinality(AskedOf(asked', x))
                             <= carried[x] + Cardinality(AskedOf(asked, x))
  <2>1. ASSUME NEW x \in Requests
        PROVE  carried[x] \in Nat /\ Cardinality(AskedOf(asked, x)) \in Nat
    BY <2>1, AskedIs DEF PoolInv, TypeOK
  <2>2. QED BY <1>5, <1>12, <1>13, <2>1
<1>15. \A x \in Requests : x > requests => carried'[x] = 0 /\ AskedOf(asked', x) = {}
  <2>1. \A x \in Requests : x > requests => x # h
    BY <1>3, Stand DEF Requests
  <2>2. QED BY <1>1, <1>5, <1>12, <2>1 DEF Spent
<1>16. Spent'
  BY <1>1, <1>4, <1>14, <1>15, SpentFar
<1>17. QED BY <1>1, <1>4, <1>10, <1>16 DEF Answers, OwnAnswers

LEMMA AnswersDeliver ==
  ASSUME PoolInv, PoolInv', Answers, NEW s \in Sessions, Deliver(s)
  PROVE  Answers'
<1>1. /\ key[s] \in Receives /\ inbox' = [inbox EXCEPT ![s] = Append(inbox[s], delivered + 1)]
      /\ UNCHANGED <<kept, requests, far, asked, th, carried, answered>>
  BY DEF Deliver, past
<1>2. \A u \in Sessions : key[u] \in Sends => u # s /\ inbox'[u] = inbox[u]
  BY <1>1, PoolAssumption DEF PoolInv, TypeOK
<1>3. Clean'
  BY <1>1, <1>2, CleanFar DEF Answers, Rests
<1>4. Spent'
  <2>1. \A x \in Requests : carried[x] \in Nat /\ Cardinality(AskedOf(asked, x)) \in Nat
    BY AskedIs DEF PoolInv, TypeOK
  <2>2. QED BY <1>1, <2>1 DEF Answers, Spent
<1>5. QED BY <1>1, <1>3, <1>4 DEF Answers, OwnAnswers

\* What a closing far end says after an answer.
LEMMA NoticeAfter == \A x \in Nat : Append(<<x>>, Notice) = <<x, Notice>>
<1>0. Notice \in Nat
  BY DEF Notice
<1> TAKE x \in Nat
<1>1. <<x>> \in Seq(Nat) /\ Len(<<x>>) = 1 /\ <<x>>[1] = x
  OBVIOUS
<1>2. PICK s \in Seq(Nat) : s = <<x>> /\ Len(s) = 1 /\ s[1] = x
  BY <1>1
<1>3. /\ Append(s, Notice) \in Seq(Nat) /\ Len(Append(s, Notice)) = 2 /\ Append(s, Notice)[1] = x /\ Append(s, Notice)[2] = Notice
  BY <1>0, <1>2, AppendProperties
<1>4. <<x, Notice>> \in Seq(Nat) /\ Len(<<x, Notice>>) = 2 /\ <<x, Notice>>[1] = x /\ <<x, Notice>>[2] = Notice
  BY <1>0
<1>5. \A i \in 1..2 : i = 1 \/ i = 2
  OBVIOUS
<1>6. QED BY <1>2, <1>3, <1>4, <1>5, SeqEqual

LEMMA AnswersClose ==
  ASSUME PoolInv, PoolInv', Answers, NEW s \in Sessions, Close(s)
  PROVE  Answers'
<1>1. Clean /\ Spent /\ OwnAnswers
  BY DEF Answers
<1>2. /\ far[s] /\ far' = [far EXCEPT ![s] = FALSE] /\ asked' = [asked EXCEPT ![s] = <<>>]
      /\ UNCHANGED inbox \/ inbox' = [inbox EXCEPT ![s] = Append(inbox[s], Notice)]
      /\ UNCHANGED <<kept, requests, th, carried, answered>>
  BY DEF Close, past, count
<1>3. /\ asked'[s] = <<>> /\ far'[s] = FALSE /\ inbox'[s] \in {inbox[s], Append(inbox[s], Notice)}
      /\ \A u \in Sessions : u # s => asked'[u] = asked[u] /\ far'[u] = far[u] /\ inbox'[u] = inbox[u]
  BY <1>2 DEF PoolInv, TypeOK
<1>4. Append(<<>>, Notice) = <<Notice>> /\ \A x \in Nat : Append(<<x>>, Notice) = <<x, Notice>>
  BY NoticeAfter
<1>5. Rests(s) => RestsAt(asked'[s], far'[s], inbox'[s])
  BY <1>2, <1>3, <1>4 DEF Rests, RestsAt
<1>6. ASSUME NEW x \in Nat, ReadsAt(asked[s], far[s], inbox[s], x)
      PROVE  ReadsAt(asked'[s], far'[s], inbox'[s], x)
  <2>1. inbox[s] \in {<<>>, <<x>>}
    BY <1>2, <1>6 DEF ReadsAt
  <2>2. inbox'[s] \in {<<>>, <<x>>, <<Notice>>, <<x, Notice>>}
    BY <1>3, <1>4, <2>1
  <2>3. QED BY <1>3, <2>2 DEF ReadsAt
<1>7. Clean'
  <2>1. \A u \in Sessions : key[u] \in Sends /\ Rests(u) => RestsAt(asked'[u], far'[u], inbox'[u])
    BY <1>3, <1>5 DEF Rests
  <2>2. \A u \in Sessions : key[u] \in Sends => \A x \in Nat : ReadsAt(asked[u], far[u], inbox[u], x) =>
          ReadsAt(asked'[u], far'[u], inbox'[u], x)
    BY <1>3, <1>6
  <2>3. \A u \in Sessions : asked'[u] \in {<<>>, asked[u]}
    BY <1>3
  <2>4. QED BY <1>1, <1>2, <2>1, <2>2, <2>3, CleanFar
<1>8. \A x \in Requests : AskedOf(asked', x) \subseteq AskedOf(asked, x)
  <2>1. \A x \in Requests : asked'[s] # <<x>>
    BY <1>3
  <2>2. QED BY <1>3, <2>1 DEF AskedOf
<1>9. \A x \in Requests : carried'[x] + Cardinality(AskedOf(asked', x))
                            <= carried[x] + Cardinality(AskedOf(asked, x))
  <2> SUFFICES ASSUME NEW x \in Requests
      PROVE carried[x] + Cardinality(AskedOf(asked', x)) <= carried[x] + Cardinality(AskedOf(asked, x))
    BY <1>2
  <2>1. /\ IsFiniteSet(AskedOf(asked, x)) /\ Cardinality(AskedOf(asked, x)) \in Nat
        /\ Cardinality(AskedOf(asked', x)) \in Nat /\ carried[x] \in Nat
    BY AskedIs DEF PoolInv, TypeOK
  <2>2. Cardinality(AskedOf(asked', x)) <= Cardinality(AskedOf(asked, x))
    BY <1>8, <2>1, FS_Subset
  <2>3. QED BY <2>1, <2>2
<1>10. \A x \in Requests : x > requests => carried'[x] = 0 /\ AskedOf(asked', x) = {}
  BY <1>1, <1>2, <1>8 DEF Spent
<1>11. Spent'
  BY <1>1, <1>2, <1>9, <1>10, SpentFar
<1>12. QED BY <1>1, <1>2, <1>7, <1>11 DEF Answers, OwnAnswers

LEMMA AnswersStep == PoolInv /\ Answers /\ [Next]_vars => Answers'
<1> SUFFICES ASSUME PoolInv, Answers, [Next]_vars PROVE Answers'
  OBVIOUS
<1>1. PoolInv'
  BY PoolStep
<1>2. ASSUME NEW t \in Threads, NEW k \in Sends, Send(t, k) PROVE Answers'
  BY <1>2, AnswersSend
<1>3. ASSUME NEW t \in Threads,
             \/ \E k \in Receives : Receive(t, k)
             \/ \E d \in owed : Acknowledge(t, d)
      PROVE  Answers'
  BY <1>3, AnswersBegins
<1>4. ASSUME NEW t \in Threads, Take(t) PROVE Answers'
  BY <1>4, AnswersTakes, AnswersOpen DEF Take
<1>5. ASSUME NEW t \in Threads, Exchange(t) \/ Return(t) PROVE Answers'
  BY <1>5, AnswersWrite, AnswersReads, AnswersLeaves DEF Exchange
<1>6. ASSUME NEW s \in Sessions, Answer(s) \/ Deliver(s) \/ Close(s) PROVE Answers'
  BY <1>1, <1>6, AnswersAnswer, AnswersDeliver, AnswersClose
<1>7. CASE UNCHANGED vars
  BY <1>7 DEF vars, Answers, Clean, Spent, OwnAnswers, Rests
<1>8. QED BY <1>2, <1>3, <1>4, <1>5, <1>6, <1>7 DEF Next

LEMMA AnswersInit == Init => Answers
<1> SUFFICES ASSUME Init PROVE Answers
  OBVIOUS
<1>1. \A t \in Threads : ~Sending(th[t])
  BY IdleIsWell DEF Init, Sending
<1>2. DOMAIN <<>> = {} /\ Range(<<>>) = {}
  BY DEF Range
<1>3. Clean
  <2>1. \A k \in Sends : kept[k] = <<>>
    BY DEF Init, Keys
  <2>2. QED BY <1>1, <1>2, <2>1 DEF Init, Clean
<1>4. \A r : AskedOf(asked, r) = {}
  BY DEF Init, AskedOf
<1>5. \A r \in Requests : carried[r] = 0 /\ Cardinality(AskedOf(asked, r)) = 0
  BY <1>4, FS_EmptySet DEF Init
<1>6. Spent
  BY <1>1, <1>4, <1>5 DEF Spent
<1>7. QED BY <1>3, <1>6 DEF Init, Answers, OwnAnswers

\* An exchange is answered what its own request was, or what the far end said
\* unasked as it closed; and its request is carried out at most twice.
THEOREM AnswersAreOwn == Spec => []AnsweredItsOwn
<1>1. PoolInv /\ Answers => AnsweredItsOwn
  <2> SUFFICES ASSUME PoolInv, Answers PROVE AnsweredItsOwn
    OBVIOUS
  <2>1. ASSUME NEW r \in Requests PROVE carried[r] <= 2
    <3>1. carried[r] \in Nat /\ Cardinality(AskedOf(asked, r)) \in Nat
      BY AskedIs DEF PoolInv, TypeOK
    <3>2. carried[r] + Cardinality(AskedOf(asked, r)) <= 2
      BY DEF Answers, Spent
    <3>3. QED BY <3>1, <3>2
  <2>2. QED BY <2>1 DEF Answers, OwnAnswers, AnsweredItsOwn
<1>2. QED BY <1>1, AnswersInit, AnswersStep, PoolHolds, PTL DEF Spec

=============================================================================
