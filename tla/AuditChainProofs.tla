-------------------------- MODULE AuditChainProofs --------------------------
(***************************************************************************)
(* Proofs about AuditChain, for any processes, events, clocks and bounds:  *)
(* why appending, altering, redacting and rechaining rows keeps them one   *)
(* chain, what every step does to the processes, that the invariant is     *)
(* inductive, and the safety properties of the trail that follow from it.  *)
(***************************************************************************)
EXTENDS AuditChain, TLAPS

(* Rows have the types of their columns, and ids and stamps are unique: *)
(* the clamp turns the (created_at, id) order into the order of stamps.  *)
RowOK(r) ==
  /\ r.id \in Nat /\ r.at \in Nat /\ r.by \in Actors \cup {"REDACTED"}
  /\ r.body \in {"stored", "altered"}
Distinct(R) == \A r, s \in R : r.id = s.id \/ r.at = s.at => r = s
Table(R)    == (\A r \in R : RowOK(r)) /\ Distinct(R)

Linked(R) == \A r \in R : r.prev \in Preceding(R, r)

(* A hash that matches, or one that is known not to. *)
HashOK(r) == r.id \in altered \/ PreFix(r) \/ r.hash = expectedHashFor(r.prev, r)

(* An altered row still has the hash of what it was, unless an erasure read *)
(* it after it had verified the chain. *)
Shown     == altered \ raced
Content(r) == r.body = IF r.id \in altered THEN "altered" ELSE "stored"
Marked(r) == r.id \in Shown => r.body = "altered" /\ r.hash.body = "stored"
Modern(r) == r.at >= Cutover => r.hash.v = "v2"

Sane(R) ==
  /\ Table(R) /\ Linked(R) /\ altered \subseteq Ids(R)
  /\ \A r \in R : /\ r.id < nextId /\ HashOK(r) /\ Modern(r) /\ Content(r)
                  /\ r.at >= Cutover => Marked(r)
RowsInv == Sane(rows)

Locked   == {"insert", "redact", "rechain"}
Unplaced == {"append", "insert", "erase", "redact", "rebase", "rechain"}

LockInv ==
  /\ \A p \in Procs : p \in lock <=> pc[p] \in Locked
  /\ \A p, q \in lock : p = q
  /\ \A p \in Procs : p \notin lock => draft[p] = {} /\ differs[p] = {} /\ carry[p] = Genesis
  /\ \A p \in Procs : pc[p] # "rechain" => todo[p] = {} /\ stale[p] = {}

(* What a process carries fits where it is; an id not yet inserted is its own. *)
Signing == {"resign", "vouch", "head", "sign"}
JobFits(stage, e) ==
  /\ stage = "idle" => e = NoJob
  /\ stage \in {"append", "insert"} => e.kind \in {"ingest", "denied"}
  /\ stage \in {"ack", "park"} => e.kind = "ingest"
  /\ stage \in Signing => e.kind # "ingest"
  /\ stage \in {"erase", "redact"} => e.kind = "erase"
  /\ stage = "rebase" => e.kind = "rebase"
  /\ stage = "rechain" => e.kind \in {"erase", "rebase"}
  /\ e.kind \in {"erase", "rebase"} => e.by = "other" /\ e.of = "none"
  /\ e.last => e.kind = "ingest"
  /\ e.kind = "ingest" => e.of \in Messages

JobInv == \A p \in Procs : JobFits(pc[p], job[p])

IdInv ==
  \A p \in Procs : pc[p] \in Unplaced =>
    /\ job[p].id < nextId /\ job[p].id \notin Ids(rows) /\ job[p].at >= Cutover
    /\ \A q \in Procs : pc[q] \in Unplaced /\ job[q].id = job[p].id => q = p

InsertInv ==
  \A p \in Procs : pc[p] = "insert" =>
    \E r \in appendInTx(rows, job[p]) : draft[p] = {r}

(* The walk of a rewrite over V, T still to be visited: what is visited is a *)
(* prefix of the chain, linked and hashed, and c is the hash of its last row. *)
SameRow(v, r) ==
  /\ v.id = r.id /\ v.at = r.at /\ v.of = r.of /\ v.body = r.body
  /\ v.by = r.by \/ (r.by = "subject" /\ v.by = "REDACTED")
Last(V, T, c) ==
  IF \A v \in V : v.id \in T THEN c = Genesis
  ELSE \E u \in V : /\ u.id \notin T /\ c = u.hash
                    /\ \A w \in V : w.id \notin T => w = u \/ w.at < u.at
Walk(V, T, c) ==
  /\ Table(V)
  /\ \A u, v \in V : u.id \notin T /\ v.id \in T => u.at < v.at
  /\ Last(V, T, c)
  /\ \A v \in V : Modern(v) /\ (v.id \notin T => v.prev \in Preceding(V, v) /\ HashOK(v))
Mirrors(V, R) ==
  /\ \A v \in V : \E r \in R : SameRow(v, r)
  /\ \A r \in R : \E v \in V : SameRow(v, r)

EraseWalk(V, T, S) ==
  \A v \in V : /\ v.by # "subject"
               /\ v.id \in Shown /\ v.at >= Cutover => Marked(v) /\ (v.id \in T => v.id \in S)
RebaseWalk(V, T, D) ==
  /\ \A v \in V : v.id \in T => v \in rows
  /\ \A v \in V : \E r \in rows : v.id = r.id /\ v.by = r.by
  /\ \A v \in V : v.at >= Cutover => v.id \in D \/ Marked(v)

(* Where a rewrite by p stands; S are the rows changed since it read them. *)
WalkOf(p, V, T, c, D, S) ==
  /\ Walk(V, T, c) /\ Mirrors(V, rows) /\ S \subseteq altered
  /\ job[p].kind = "erase" => EraseWalk(V, T, S)
  /\ job[p].kind = "rebase" => RebaseWalk(V, T, D)

WalkInv ==
  \A p \in Procs : pc[p] = "rechain" =>
    WalkOf(p, View(p), todo[p], carry[p], differs[p], stale[p])

(* Between its two reads an erasure knows the first to have verified: what *)
(* it is going to rehash shows no alteration but of these very moments.    *)
Reached(r) == \E s \in rows : s.by = "subject" /\ ~Before(r, s)
RedactInv ==
  \A p \in Procs : pc[p] = "redact" =>
    \A r \in rows : Reached(r) /\ r.at >= Cutover => r.id \notin Shown

StreamInv ==
  /\ \A m \in acked : Recorded(m)
  /\ \A p \in Procs : pc[p] = "ack" => Recorded(job[p].of)
  /\ \A m \in Messages : num[m] = MaxDeliver =>
       Recorded(m) \/ m \in dropped \/ \E p \in Procs : job[p].of = m /\ job[p].last

IInv ==
  /\ TypeOK /\ LockInv /\ JobInv /\ IdInv /\ RowsInv /\ InsertInv /\ RedactInv /\ WalkInv
  /\ StreamInv

-----------------------------------------------------------------------------
(* Chains of rows *)

LEMMA RowFields ==
  ASSUME NEW e, NEW prev, NEW hash
  PROVE  /\ Row(e, prev, hash).id = e.id /\ Row(e, prev, hash).of = e.of
         /\ Row(e, prev, hash).by = e.by /\ Row(e, prev, hash).body = e.body
         /\ Row(e, prev, hash).at = e.at /\ Row(e, prev, hash).prev = prev
         /\ Row(e, prev, hash).hash = hash
  BY DEF Row

LEMMA EventFields ==
  ASSUME NEW id, NEW of, NEW by, NEW body, NEW at
  PROVE  /\ Event(id, of, by, body, at).id = id /\ Event(id, of, by, body, at).of = of
         /\ Event(id, of, by, body, at).by = by /\ Event(id, of, by, body, at).body = body
         /\ Event(id, of, by, body, at).at = at
  BY DEF Event

LEMMA HashFields ==
  ASSUME NEW prev, NEW e
  PROVE  /\ computeEventHash(prev, e).v = "v2" /\ computeEventHash(prev, e).body = e.body
         /\ computeHash(prev, e).v = "legacy"
  BY DEF computeEventHash, computeHash

(* A hash depends on the content of the row and on nothing else. *)
LEMMA SameHash ==
  ASSUME NEW prev, NEW e, NEW f,
         e.id = f.id, e.of = f.of, e.by = f.by, e.body = f.body, e.at = f.at
  PROVE  /\ computeEventHash(prev, e) = computeEventHash(prev, f)
         /\ computeHash(prev, e) = computeHash(prev, f)
  BY DEF computeEventHash, computeHash

(* Rows with unique ids and stamps are ordered by stamp alone. *)
LEMMA ByStamp ==
  ASSUME NEW R, Table(R), NEW r \in R, NEW s \in R
  PROVE  /\ Before(r, s) <=> r.at < s.at
         /\ r = s \/ Before(r, s) \/ Before(s, r)
  BY DEF Table, RowOK, Distinct, Before

(* The predecessor's hash depends only on the rows before, their place and hash. *)
LEMMA SamePreceding ==
  ASSUME NEW R, NEW S, NEW x, NEW y,
         \A r \in R : Before(r, x) => r \in S /\ Before(r, y),
         \A s \in S : Before(s, y) => s \in R /\ Before(s, x)
  PROVE  Preceding(R, x) = Preceding(S, y)
<1>1. {r \in R : Before(r, x)} = {s \in S : Before(s, y)}
  OBVIOUS
<1> QED BY Zenon, <1>1 DEF Preceding

(* Rows may change in whatever is neither their place nor their hash. *)
SameChain(R, S) ==
  /\ \A r \in R : \E s \in S : s.id = r.id /\ s.at = r.at /\ s.hash = r.hash
  /\ \A s \in S : \E r \in R : s.id = r.id /\ s.at = r.at /\ s.hash = r.hash

LEMMA MappedPreceding ==
  ASSUME NEW R, NEW S, NEW x, NEW y, Table(R), Table(S), SameChain(R, S),
         x.id = y.id, x.at = y.at, NEW h \in Preceding(R, x)
  PROVE  h \in Preceding(S, y)
<1> USE DEF SameChain
<1> DEFINE ER == {r \in R : Before(r, x)}
           ES == {s \in S : Before(s, y)}
<1>1. \A r \in R, s \in S : r.id = s.id /\ r.at = s.at => (Before(r, x) <=> Before(s, y))
  BY DEF Before
<1>2. ER = {} <=> ES = {}
  BY <1>1
<1>3. CASE ER = {}
  BY <1>2, <1>3 DEF Preceding
<1>4. CASE ER # {}
  <2>1. PICK g \in Heads(ER) : h = g.hash
    BY <1>4 DEF Preceding
  <2>2. g \in R /\ Before(g, x) /\ \A r \in ER : r = g \/ Before(r, g)
    BY <2>1 DEF Heads
  <2>3. PICK k \in S : k.id = g.id /\ k.at = g.at /\ k.hash = g.hash
    BY <2>2
  <2>4. k \in ES
    BY <1>1, <2>2, <2>3
  <2>5. ASSUME NEW s \in ES PROVE s = k \/ Before(s, k)
    <3>1. PICK r \in R : s.id = r.id /\ s.at = r.at /\ s.hash = r.hash
      BY <2>5
    <3>2. r \in ER
      BY <1>1, <2>5, <3>1
    <3>3. CASE r = g
      BY <2>3, <2>4, <3>1, <3>3, s \in S, k \in S DEF Table, Distinct
    <3>4. CASE Before(r, g)
      BY <2>3, <3>1, <3>4 DEF Before
    <3> QED BY <2>2, <3>2, <3>3, <3>4
  <2>6. k \in Heads(ES)
    BY <2>4, <2>5 DEF Heads
  <2> QED BY <1>2, <1>4, <2>1, <2>3, <2>6, Zenon DEF Preceding
<1> QED BY <1>3, <1>4

(* What appendInTx inserts is the new head, linked to the old one. *)
LEMMA AppendPlace ==
  ASSUME NEW R, Table(R), NEW e, e.id \in Nat, e.at \in Nat, NEW m \in appendInTx(R, e)
  PROVE  /\ m.id = e.id /\ m.of = e.of /\ m.by = e.by /\ m.body = "stored"
         /\ m.at \in Nat /\ m.at >= e.at /\ \A r \in R : r.at < m.at
         /\ m.hash = computeEventHash(m.prev, m)
         /\ m.prev \in Preceding(R \cup {m}, m)
<1>1. PICK at, prev : /\ m = Chained(e, at, prev)
                      /\ \/ R = {} /\ at = e.at /\ prev = Genesis
                         \/ \E h \in Heads(R) : at = After(e.at, h.at) /\ prev = h.hash
  BY DEF appendInTx
<1>2. /\ m.id = e.id /\ m.of = e.of /\ m.by = e.by /\ m.body = "stored" /\ m.at = at
      /\ m.prev = prev
  BY <1>1, RowFields, EventFields DEF Chained, Canonical
<1>3. m.hash = computeEventHash(prev, Canonical(e, at))
  BY <1>1, RowFields DEF Chained
<1>4. m.hash = computeEventHash(prev, m)
  <2>1. /\ Canonical(e, at).id = m.id /\ Canonical(e, at).of = m.of
        /\ Canonical(e, at).by = m.by /\ Canonical(e, at).body = m.body
        /\ Canonical(e, at).at = m.at
    BY <1>2, EventFields DEF Canonical
  <2> QED BY ONLY <1>3, <2>1, SameHash
<1>5. CASE R = {}
  <2>1. at = e.at /\ prev = Genesis
    BY <1>1, <1>5 DEF Heads
  <2>2. {s \in R \cup {m} : Before(s, m)} = {}
    BY <1>2, <1>5, <2>1 DEF Before
  <2> QED BY <1>2, <1>4, <1>5, <2>1, <2>2 DEF Preceding
<1>6. CASE R # {}
  <2>1. PICK h \in Heads(R) : at = After(e.at, h.at) /\ prev = h.hash
    BY <1>1, <1>6
  <2>2. h \in R /\ h.at \in Nat /\ \A r \in R : r.at <= h.at
    BY <2>1, ByStamp DEF Heads, Table, RowOK
  <2>3. at \in Nat /\ at >= e.at /\ at > h.at
    BY <2>1, <2>2 DEF After
  <2>4. \A r \in R : r.at \in Nat /\ r.at < at
    BY <2>2, <2>3 DEF Table, RowOK
  <2>5. {s \in R \cup {m} : Before(s, m)} = R
    BY <1>2, <2>3, <2>4 DEF Before
  <2>6. prev \in Preceding(R \cup {m}, m)
    BY <1>6, <2>1, <2>5, Zenon DEF Preceding
  <2> QED BY <1>2, <1>4, <2>3, <2>4, <2>6
<1> QED BY <1>5, <1>6

LEMMA AppendLinked ==
  ASSUME NEW R, Table(R), Linked(R), NEW e, e.id \in Nat, e.at \in Nat, e.id \notin Ids(R),
         e.by \in Actors, NEW m \in appendInTx(R, e)
  PROVE  /\ Table(R \cup {m}) /\ Linked(R \cup {m}) /\ m \in Heads(R \cup {m})
<1>1. /\ m.id = e.id /\ m.by = e.by /\ m.body = "stored" /\ m.at \in Nat
      /\ \A r \in R : r.at < m.at
      /\ m.prev \in Preceding(R \cup {m}, m)
  BY AppendPlace, ZenonT(60)
<1>2. Table(R \cup {m})
  BY <1>1 DEF Table, Distinct, RowOK, Ids
<1>3. ASSUME NEW r \in R PROVE Preceding(R \cup {m}, r) = Preceding(R, r)
  <2>1. ~Before(m, r)
    BY <1>1 DEF Before, Table, RowOK
  <2> QED BY <2>1, SamePreceding
<1>4. m \in Heads(R \cup {m})
  BY <1>1 DEF Heads, Before
<1> QED BY <1>1, <1>2, <1>3, <1>4, Zenon DEF Linked

(* A row is replaced by one in the same place. *)
Put(R, n) == Overlay(R, {n})

LEMMA PutRow ==
  ASSUME NEW R, NEW n
  PROVE  Put(R, n) = {r \in R : r.id # n.id} \cup {n}
  BY Zenon DEF Put, Overlay, Ids

LEMMA PutTwice ==
  ASSUME NEW R, NEW D, NEW n
  PROVE  Overlay(R, Put(D, n)) = Put(Overlay(R, D), n)
<1>1. Ids(Put(D, n)) = Ids(D) \cup {n.id}
  BY PutRow DEF Ids
<1> QED BY <1>1, PutRow DEF Overlay

LEMMA OverlayNone ==
  ASSUME NEW R
  PROVE  Overlay(R, {}) = R
  BY DEF Overlay, Ids

LEMMA Replaced ==
  ASSUME NEW R, Table(R), NEW r \in R, NEW n, RowOK(n), n.id = r.id, n.at = r.at
  PROVE  /\ Put(R, n) = (R \ {r}) \cup {n}
         /\ Table(Put(R, n))
         /\ Put(R, r) = R
<1>1. {s \in R : s.id # r.id} = R \ {r}
  BY DEF Table, Distinct
<1>2. Put(R, n) = (R \ {r}) \cup {n} /\ Put(R, r) = R
  <2>1. Put(R, n) = {s \in R : s.id # n.id} \cup {n}
    BY PutRow
  <2>2. Put(R, r) = {s \in R : s.id # r.id} \cup {r}
    BY PutRow
  <2> QED BY <1>1, <2>1, <2>2
<1>3. Table((R \ {r}) \cup {n})
  BY DEF Table, Distinct
<1> QED BY <1>2, <1>3

(* Changing a row in place, link and hash aside, leaves the chain linked. *)
LEMMA AlterLinked ==
  ASSUME NEW R, Table(R), Linked(R), NEW r \in R, NEW n, RowOK(n),
         n.id = r.id, n.at = r.at, n.prev = r.prev, n.hash = r.hash
  PROVE  Table(Put(R, n)) /\ Linked(Put(R, n))
<1>1. Put(R, n) = (R \ {r}) \cup {n} /\ Table(Put(R, n))
  BY ONLY Table(R), r \in R, RowOK(n), n.id = r.id, n.at = r.at, Replaced
<1>2. \A s \in Put(R, n) : \E x \in R : s.id = x.id /\ s.at = x.at /\ s.hash = x.hash /\ s.prev = x.prev
  BY <1>1
<1>3. SameChain(R, Put(R, n))
  BY <1>1, <1>2 DEF SameChain
<1>4. ASSUME NEW s \in Put(R, n) PROVE s.prev \in Preceding(Put(R, n), s)
  <2>1. PICK x \in R : s.id = x.id /\ s.at = x.at /\ s.hash = x.hash /\ s.prev = x.prev
    BY <1>2
  <2>2. s.prev \in Preceding(R, x)
    BY <2>1 DEF Linked
  <2>3. x.id = s.id /\ x.at = s.at
    BY <2>1
  <2> QED BY ONLY Table(R), <1>1, <1>3, <2>2, <2>3, MappedPreceding
<1> QED BY <1>1, <1>4 DEF Linked

-----------------------------------------------------------------------------
(* The walk *)

Pending(V, T) == First({v \in V : v.id \in T})

LEMMA WalkStep ==
  ASSUME NEW V, NEW T, NEW c, Walk(V, T, c), NEW r \in Pending(V, T),
         NEW n, RowOK(n), n.id = r.id, n.at = r.at, n.prev = c, HashOK(n), Modern(n)
  PROVE  Walk(Put(V, n), T \ {r.id}, n.hash)
<1> DEFINE W == Put(V, n)
           U == T \ {r.id}
<1>1. /\ r \in V /\ r.id \in T /\ Table(V)
      /\ \A v \in V : v.id \in T => v = r \/ Before(r, v)
  BY DEF Pending, First, Walk
<1>2. W = (V \ {r}) \cup {n} /\ Table(W)
  BY ONLY <1>1, RowOK(n), n.id = r.id, n.at = r.at, Replaced
<1>3. \A v \in V : v # r => v.id # r.id /\ v.at # r.at
  BY <1>1 DEF Table, Distinct
<1>4. \A v \in W : v.id \notin U <=> v = n \/ (v \in V /\ v.id \notin T)
  BY <1>2, <1>3
<1>5. \A v \in V : v.id \in T => v = r \/ r.at < v.at
  BY <1>1, ByStamp
<1>6. \A v \in V : v.id \notin T => v.at < r.at
  BY <1>1 DEF Walk
<1>7. \A v \in W : v.at \in Nat
  BY <1>2 DEF Table, RowOK
<1>8. \A u, v \in W : u.id \notin U /\ v.id \in U => u.at < v.at
  <2> SUFFICES ASSUME NEW u \in W, NEW v \in W, u.id \notin U, v.id \in U PROVE u.at < v.at
    OBVIOUS
  <2>1. v \in V /\ v # r /\ v.id \in T
    BY <1>2
  <2>2. r.at < v.at
    BY <1>5, <2>1
  <2>3. CASE u = n
    BY <2>2, <2>3
  <2>4. CASE u \in V /\ u.id \notin T
    BY <2>1, <2>4 DEF Walk
  <2> QED BY <1>4, <2>3, <2>4
<1>9. Last(W, U, n.hash)
  <2>1. n \in W /\ n.id \notin U
    BY <1>2
  <2>2. \A w \in W : w.id \notin U => w = n \/ w.at < n.at
    BY <1>4, <1>6
  <2> QED BY <2>1, <2>2 DEF Last
<1>10. n.prev \in Preceding(W, n)
  <2> DEFINE E == {s \in W : Before(s, n)}
  <2>1. E = {v \in V : v.id \notin T}
    <3>1. ASSUME NEW v \in V, v.id \notin T PROVE v \in E
      BY <1>1, <1>2, <1>6, <3>1 DEF Before
    <3>2. ASSUME NEW v \in W, Before(v, n) PROVE v \in V /\ v.id \notin T
      <4>1. v # n
        BY <1>7, <3>2 DEF Before, RowOK
      <4>2. v \in V /\ v # r
        BY <1>2, <4>1
      <4>3. v.at \in Nat /\ r.at \in Nat
        BY <1>1, <4>2 DEF Table, RowOK
      <4>4. v.at <= r.at
        BY ONLY <3>2, <4>3, n.at = r.at DEF Before
      <4> QED BY <1>3, <1>5, <4>2, <4>3, <4>4
    <3> QED BY <3>1, <3>2
  <2>2. CASE \A v \in V : v.id \in T
    BY <2>1, <2>2 DEF Preceding, Last, Walk
  <2>3. CASE ~\A v \in V : v.id \in T
    <3>1. PICK u \in V : /\ u.id \notin T /\ c = u.hash
                         /\ \A w \in V : w.id \notin T => w = u \/ w.at < u.at
      BY <2>3 DEF Walk, Last
    <3>2. u \in Heads(E)
      BY <2>1, <3>1 DEF Heads, Before
    <3> QED BY <2>1, <3>1, <3>2, Zenon DEF Preceding
  <2> QED BY <2>2, <2>3
<1>11. ASSUME NEW v \in V, v.id \notin T PROVE v.prev \in Preceding(W, v)
  <2>1. v.at < r.at /\ v.at \in Nat
    BY <1>1, <1>6, <1>11 DEF Table, RowOK
  <2>2. ~Before(n, v) /\ ~Before(r, v)
    BY <1>1, <2>1 DEF Before, Table, RowOK
  <2>3. Preceding(V, v) = Preceding(W, v)
    BY <1>2, <2>2, SamePreceding
  <2> QED BY <1>11, <2>3 DEF Walk
<1>12. \A v \in W : Modern(v) /\ (v.id \notin U => v.prev \in Preceding(W, v) /\ HashOK(v))
  BY Zenon, <1>2, <1>4, <1>10, <1>11 DEF Walk
<1> HIDE DEF W, U
<1> QED BY Zenon, <1>2, <1>8, <1>9, <1>12 DEF Walk, W, U

(* A finished walk leaves a linked chain. *)
LEMMA WalkDone ==
  ASSUME NEW V, NEW c, Walk(V, {}, c)
  PROVE  Table(V) /\ Linked(V) /\ \A v \in V : HashOK(v) /\ Modern(v)
  BY Zenon DEF Walk, Linked

-----------------------------------------------------------------------------
(* The walks of an erasure and of a re-baseline *)

LEMMA RedactedFields ==
  ASSUME NEW r
  PROVE  /\ Redacted(r).id = r.id /\ Redacted(r).of = r.of /\ Redacted(r).by = "REDACTED"
         /\ Redacted(r).body = r.body /\ Redacted(r).at = r.at
         /\ Redacted(r).prev = r.prev /\ Redacted(r).hash = r.hash
  BY RowFields, EventFields DEF Redacted

(* A row of the redacted trail, and the stored one it stands for. *)
Stands(v, r) ==
  \/ r.by # "subject" /\ v = r
  \/ r.by = "subject" /\ v = Redacted(r)

LEMMA RedactedView ==
  ASSUME Table(rows), NEW V, V = Overlay(rows, {Redacted(r) : r \in Subjects})
  PROVE  /\ \A v \in V : \E r \in rows : Stands(v, r)
         /\ \A r \in rows : \E v \in V : Stands(v, r)
<1>1. Ids({Redacted(r) : r \in Subjects}) = {r.id : r \in Subjects}
  BY RedactedFields DEF Ids
<1>2. \A r \in rows : r.id \in {s.id : s \in Subjects} <=> r.by = "subject"
  BY DEF Subjects, Table, Distinct
<1>3. V = {r \in rows : r.by # "subject"} \cup {Redacted(r) : r \in Subjects}
  BY <1>1, <1>2 DEF Overlay
<1> QED BY <1>3, Zenon DEF Stands, Subjects

LEMMA StandsFields ==
  ASSUME NEW v, NEW r, Stands(v, r)
  PROVE  /\ v.id = r.id /\ v.at = r.at /\ v.of = r.of /\ v.body = r.body
         /\ v.prev = r.prev /\ v.hash = r.hash /\ v.by # "subject"
         /\ v.by = r.by \/ (r.by = "subject" /\ v.by = "REDACTED")
  BY RedactedFields DEF Stands

LEMMA EraseStarts ==
  ASSUME RowsInv, NEW V, V = Overlay(rows, {Redacted(r) : r \in Subjects}),
         NEW f \in First(Subjects), NEW c \in Preceding(rows, f), NEW S,
         \A r \in rows : Reached(r) /\ r.at >= Cutover => r.id \notin Shown
  PROVE  /\ Walk(V, Ids(From(f)), c) /\ Mirrors(V, rows) /\ EraseWalk(V, Ids(From(f)), S)
<1> DEFINE T == Ids(From(f))
<1>1. Table(rows) /\ Linked(rows) /\ \A r \in rows : r.at \in Nat /\ HashOK(r) /\ Modern(r)
  BY DEF RowsInv, Sane, Table, RowOK
<1>2. /\ \A v \in V : \E r \in rows : Stands(v, r)
      /\ \A r \in rows : \E v \in V : Stands(v, r)
  BY <1>1, RedactedView, Zenon
<1>3. Mirrors(V, rows)
  BY <1>2, StandsFields DEF Mirrors, SameRow
<1>4. Table(V)
  <2>1. \A v \in V : RowOK(v)
    BY <1>1, <1>2, StandsFields DEF Table, RowOK, Stands
  <2>2. ASSUME NEW u \in V, NEW v \in V, u.id = v.id \/ u.at = v.at PROVE u = v
    <3>1. PICK r \in rows : Stands(u, r)
      BY <1>2
    <3>2. PICK s \in rows : Stands(v, s)
      BY Zenon, <1>2
    <3>3. r = s
      BY <1>1, <2>2, <3>1, <3>2, StandsFields DEF Table, Distinct
    <3> QED BY Zenon, <3>1, <3>2, <3>3 DEF Stands
  <2> QED BY <2>1, <2>2 DEF Table, Distinct
<1>5. f \in rows /\ f.by = "subject" /\ \A r \in rows : r.by = "subject" => r = f \/ Before(f, r)
  BY DEF First, Subjects
<1>6. \A r \in rows : /\ r.id \in T <=> r \in From(f)
                      /\ r.id \in T <=> f.at <= r.at
                      /\ r.id \notin T <=> Before(r, f)
  <2>1. \A r \in rows : r.id \in T <=> ~Before(r, f)
    BY Zenon, <1>1 DEF From, Ids, Table, Distinct
  <2> QED BY <1>1, <1>5, <2>1, ByStamp DEF From
<1>7. \A r \in rows : r.id \notin T => r.by # "subject"
  BY <1>1, <1>5, <1>6, ByStamp
<1> HIDE DEF T
<1>8. \A v \in V : v.id \notin T => v \in rows
  BY <1>2, <1>7, StandsFields DEF Stands
<1>9. \A r \in rows : r.id \notin T => r \in V
  BY ZenonT(60), <1>2, <1>7, StandsFields DEF Stands
<1>10. \A u, v \in V : u.id \notin T /\ v.id \in T => u.at < v.at
  <2> SUFFICES ASSUME NEW u \in V, NEW v \in V, u.id \notin T, v.id \in T PROVE u.at < v.at
    OBVIOUS
  <2>1. u \in rows
    BY Zenon, <1>8
  <2>2. PICK s \in rows : v.id = s.id /\ v.at = s.at
    BY <1>2, StandsFields
  <2>3. Before(u, f) /\ f.at <= s.at
    BY Zenon, <1>6, <2>1, <2>2
  <2>4. u.at < f.at
    BY Zenon, <1>1, <1>5, <2>1, <2>3, ByStamp
  <2> QED BY <1>1, <1>5, <2>1, <2>2, <2>3, <2>4
<1>11. Last(V, T, c)
  <2> DEFINE E == {s \in rows : Before(s, f)}
  <2>1. CASE E = {}
    <3>1. c = Genesis
      BY <2>1 DEF Preceding
    <3>2. \A v \in V : v.id \in T
      BY <1>6, <1>8, <2>1
    <3> QED BY <3>1, <3>2 DEF Last
  <2>2. CASE E # {}
    <3>1. PICK h \in Heads(E) : c = h.hash
      BY <2>2 DEF Preceding
    <3>2. h \in rows /\ Before(h, f) /\ \A r \in E : r = h \/ Before(r, h)
      BY <3>1 DEF Heads
    <3>3. h \in V /\ h.id \notin T
      BY <1>6, <1>9, <3>2
    <3>4. ASSUME NEW w \in V, w.id \notin T PROVE w = h \/ w.at < h.at
      <4>1. w \in E
        BY <1>6, <1>8, <3>4
      <4> QED BY <1>1, <3>2, <4>1, ByStamp
    <3> QED BY <3>1, <3>3, <3>4, Zenon DEF Last
  <2> QED BY <2>1, <2>2
<1>12. ASSUME NEW v \in V, v.id \notin T PROVE v.prev \in Preceding(V, v) /\ HashOK(v)
  <2>1. v \in rows /\ Before(v, f) /\ v.at < f.at
    BY Zenon, <1>1, <1>5, <1>6, <1>8, <1>12, ByStamp
  <2>2. \A r \in rows : Before(r, v) => r \in V
    <3> SUFFICES ASSUME NEW r \in rows, Before(r, v) PROVE r \in V
      OBVIOUS
    <3>1. r.at < v.at
      BY <1>1, <2>1, ByStamp
    <3>2. r.at < f.at
      BY <1>1, <1>5, <2>1, <3>1
    <3> QED BY <1>1, <1>5, <1>6, <1>9, <3>2
  <2>3. \A s \in V : Before(s, v) => s \in rows
    <3> SUFFICES ASSUME NEW s \in V, Before(s, v) PROVE s \in rows
      OBVIOUS
    <3>1. s.at < v.at
      BY <1>4, <2>1, ByStamp
    <3> QED BY <1>4, <1>8, <1>10, <1>12, <3>1 DEF Table, RowOK
  <2>4. Preceding(rows, v) = Preceding(V, v)
    BY <2>2, <2>3, SamePreceding
  <2> QED BY Zenon, <1>1, <2>1, <2>4 DEF Linked
<1>13. \A v \in V : Modern(v)
  BY <1>1, <1>2, StandsFields DEF Modern
<1>14. Walk(V, T, c)
  BY ZenonT(60), <1>4, <1>10, <1>11, <1>12, <1>13 DEF Walk
<1>15. ASSUME NEW v \in V, v.id \in Shown, v.at >= Cutover PROVE v.id \notin T /\ Marked(v)
  <2>1. PICK r \in rows : Stands(v, r)
    BY Zenon, <1>2
  <2>2. v.id = r.id /\ v.at = r.at /\ v.body = r.body /\ v.hash = r.hash
    BY Zenon, <2>1, StandsFields
  <2>3. Marked(r)
    BY Zenon, <1>15, <2>2 DEF RowsInv, Sane
  <2>4. ~Reached(r)
    BY Zenon, <1>15, <2>2
  <2>5. r.id \notin T
    BY Zenon, <1>5, <1>6, <2>4 DEF Reached
  <2> QED BY Zenon, <2>2, <2>3, <2>5 DEF Marked
<1>16. \A v \in V : v.by # "subject"
  BY <1>2, StandsFields
<1>17. EraseWalk(V, T, S)
  BY <1>15, <1>16 DEF EraseWalk
<1> QED BY <1>3, <1>14, <1>17 DEF T

(* What the first read of an erasure establishes. *)
LEMMA FirstRead ==
  ASSUME RowsInv, NEW f \in First(Subjects), Verified(f), NEW r \in rows, Reached(r), r.at >= Cutover
  PROVE  r.id \notin Shown
<1>1. Table(rows) /\ f \in rows
  BY Zenon DEF RowsInv, Sane, First, Subjects
<1>2. PICK s \in rows : s.by = "subject" /\ ~Before(r, s)
  BY Zenon DEF Reached
<1>3. s = f \/ Before(f, s)
  BY Zenon, <1>2 DEF First, Subjects
<1>4. ~Before(r, f)
  <2>1. r.at \in Nat /\ s.at \in Nat /\ f.at \in Nat
    BY Zenon, <1>1, <1>2 DEF Table, RowOK
  <2>2. CASE Before(f, s)
    <3>1. f.at < s.at /\ ~(r.at < s.at)
      BY Zenon, <1>1, <1>2, <2>2, ByStamp
    <3>2. ~(r.at < f.at)
      BY ONLY <2>1, <3>1
    <3> QED BY Zenon, <1>1, <3>2, ByStamp
  <2> QED BY Zenon, <1>2, <1>3, <2>2
<1>5. Sound(rows, r)
  BY Zenon, <1>4 DEF Verified, From
<1>6. ASSUME r.id \in Shown PROVE FALSE
  <2>1. r.body = "altered" /\ r.hash.body = "stored" /\ r.hash.v = "v2"
    BY Zenon, <1>6 DEF RowsInv, Sane, Marked, Modern
  <2> QED BY ONLY <1>5, <2>1, HashFields DEF Sound, expectedHashFor
<1> QED BY Zenon, <1>6

LEMMA RebaseStarts ==
  ASSUME RowsInv
  PROVE  /\ Walk(rows, Ids(rows), Genesis) /\ Mirrors(rows, rows)
         /\ RebaseWalk(rows, Ids(rows), {})
<1>1. \A r \in rows : r.id \in Ids(rows)
  BY DEF Ids
<1>2. Last(rows, Ids(rows), Genesis)
  BY <1>1 DEF Last
<1>3. Walk(rows, Ids(rows), Genesis)
  BY <1>1, <1>2 DEF Walk, RowsInv, Sane
<1>4. Mirrors(rows, rows)
  BY DEF Mirrors, SameRow
<1>5. RebaseWalk(rows, Ids(rows), {})
  BY DEF RebaseWalk, RowsInv, Sane
<1> QED BY <1>3, <1>4, <1>5

(* A row as the rewrite read it: only its content may be older. *)
LEMMA LoadedFields ==
  ASSUME NEW p, NEW r
  PROVE  /\ Loaded(p, r).id = r.id /\ Loaded(p, r).hash = r.hash
         /\ r.id \in stale[p] => Loaded(p, r).body = "stored"
         /\ r.id \notin stale[p] => Loaded(p, r) = r
<1>1. CASE r.id \in stale[p]
  BY ONLY <1>1, RowFields, EventFields DEF Loaded
<1>2. CASE r.id \notin stale[p]
  BY ONLY <1>2, Zenon DEF Loaded
<1> QED BY ONLY <1>1, <1>2, Zenon

(* The hash a walk gives a row is the one it is expected to have, or that of *)
(* what the row was before it was changed. l is the row as it was read.      *)
LEMMA WantFits ==
  ASSUME NEW r, Modern(r), NEW l, l.hash = r.hash, l = r \/ r.id \in altered, NEW c, NEW want,
         want = computeEventHash(c, l) \/ want = expectedHashFor(c, l),
         NEW n, n.id = r.id, n.of = r.of, n.by = r.by, n.body = r.body, n.at = r.at,
         n.prev = c, n.hash = want
  PROVE  HashOK(n) /\ Modern(n)
<1>1. want.v = "v2" \/ (want = computeHash(c, l) /\ r.hash.v # "v2")
  BY HashFields DEF expectedHashFor
<1>2. Modern(n)
  BY Zenon, <1>1 DEF Modern
<1>3. CASE l = r
  <2>1. /\ computeEventHash(c, r) = computeEventHash(c, n)
        /\ computeHash(c, r) = computeHash(c, n)
    BY ZenonT(60), SameHash
  <2>2. CASE want = computeEventHash(c, r)
    BY <1>2, <2>1, <2>2, HashFields DEF HashOK, expectedHashFor
  <2>3. CASE want = computeHash(c, r) /\ r.hash.v # "v2"
    BY <1>2, <2>1, <2>3, HashFields DEF HashOK, expectedHashFor
  <2> QED BY <1>3, <2>2, <2>3 DEF expectedHashFor
<1>4. CASE r.id \in altered
  BY Zenon, <1>2, <1>4 DEF HashOK
<1> QED BY Zenon, <1>2, <1>3, <1>4

(* One step of a walk, whatever row n it leaves in the place of r. *)
LEMMA WalkedOn ==
  ASSUME RowsInv, NEW V, NEW T, NEW c, Walk(V, T, c), Mirrors(V, rows), NEW r \in Pending(V, T),
         NEW S, S \subseteq altered, NEW l, l.hash = r.hash, r.id \notin S => l = r,
         r.id \in S => l.body = "stored",
         NEW n, n.id = r.id, n.of = r.of, n.by = r.by, n.body = r.body, n.at = r.at, n.prev = c,
         n.hash = computeEventHash(c, l) \/ n.hash = expectedHashFor(c, l)
  PROVE  /\ Walk(Put(V, n), T \ {r.id}, n.hash) /\ Mirrors(Put(V, n), rows)
         /\ EraseWalk(V, T, S) /\ n.hash = computeEventHash(c, l)
              => EraseWalk(Put(V, n), T \ {r.id}, S)
         /\ \A D, E : /\ RebaseWalk(V, T, D) /\ D \subseteq E /\ (r.id \in E \/ n = r)
                      => RebaseWalk(Put(V, n), T \ {r.id}, E)
<1> DEFINE U == T \ {r.id}
<1>1. r \in V /\ r.id \in T /\ Table(V) /\ Modern(r) /\ RowOK(r)
  BY Zenon DEF Pending, First, Walk, Table
<1>2. RowOK(n)
  BY <1>1 DEF RowOK
<1>3. HashOK(n) /\ Modern(n)
  <2>1. l = r \/ r.id \in altered
    BY Zenon
  <2> QED BY Zenon, <1>1, <2>1, WantFits
<1>4. Walk(Put(V, n), U, n.hash)
  BY Zenon, <1>2, <1>3, WalkStep
<1>5. Put(V, n) = (V \ {r}) \cup {n}
  BY <1>1, <1>2, Replaced
<1>6. Mirrors(Put(V, n), rows)
  <2>1. \A s : SameRow(r, s) => SameRow(n, s)
    BY DEF SameRow
  <2> QED BY Zenon, <1>1, <1>5, <2>1 DEF Mirrors
<1>7. ASSUME EraseWalk(V, T, S), n.hash = computeEventHash(c, l) PROVE EraseWalk(Put(V, n), U, S)
  <2>1. n.by # "subject" /\ n.id \notin U
    BY Zenon, <1>1, <1>7 DEF EraseWalk
  <2>2. ASSUME n.id \in Shown, n.at >= Cutover PROVE Marked(n)
    <3>1. r.id \in S /\ Marked(r)
      BY Zenon, <1>1, <1>7, <2>2 DEF EraseWalk
    <3>2. r.body = "altered"
      BY Zenon, <2>2, <3>1 DEF Marked
    <3>3. n.hash.body = "stored"
      BY <1>7, <3>1, HashFields
    <3> QED BY Zenon, <3>2, <3>3 DEF Marked
  <2>3. \A v \in V : v.id \in U => v.id \in T
    BY Zenon
  <2> QED BY Zenon, <1>5, <1>7, <2>1, <2>2, <2>3 DEF EraseWalk
<1>8. ASSUME NEW D, NEW E, RebaseWalk(V, T, D), D \subseteq E, r.id \in E \/ n = r
      PROVE  RebaseWalk(Put(V, n), U, E)
  <2>1. \A v \in Put(V, n) : v.id \in U => v \in rows
    BY <1>5, <1>8 DEF RebaseWalk
  <2>2. \A v \in Put(V, n) : \E s \in rows : v.id = s.id /\ v.by = s.by
    BY Zenon, <1>1, <1>5, <1>8 DEF RebaseWalk
  <2>3. \A v \in Put(V, n) : v.at >= Cutover => v.id \in E \/ Marked(v)
    BY Zenon, <1>1, <1>5, <1>8 DEF RebaseWalk
  <2> QED BY Zenon, <2>1, <2>2, <2>3 DEF RebaseWalk
<1> QED BY Zenon, <1>4, <1>6, <1>7, <1>8

LEMMA RechainStep ==
  ASSUME TypeOK, RowsInv, WalkInv, NEW p \in Procs, Rechain(p)
  PROVE  WalkOf(p, Overlay(rows, draft'[p]), todo'[p], carry'[p], differs'[p], stale'[p])
<1>1. /\ pc[p] = "rechain" /\ WalkOf(p, View(p), todo[p], carry[p], differs[p], stale[p])
      /\ stale' = stale
  BY Zenon DEF Rechain, WalkInv
<1>2. PICK r \in Pending(View(p), todo[p]) :
        LET want == IF job[p].kind = "erase" THEN computeEventHash(carry[p], Loaded(p, r))
                                             ELSE expectedHashFor(carry[p], Loaded(p, r))
            same == want = r.hash /\ carry[p] = r.prev
        IN  /\ draft' = [draft EXCEPT ![p] =
                           IF same THEN @ ELSE Overlay(@, {Row(r, carry[p], want)})]
            /\ differs' = [differs EXCEPT ![p] = IF same THEN @ ELSE @ \cup {r.id}]
            /\ todo' = [todo EXCEPT ![p] = @ \ {r.id}]
            /\ carry' = [carry EXCEPT ![p] = want]
  BY Zenon DEF Rechain, Pending
<1> DEFINE l    == Loaded(p, r)
           want == IF job[p].kind = "erase" THEN computeEventHash(carry[p], l)
                                            ELSE expectedHashFor(carry[p], l)
           n    == Row(r, carry[p], want)
<1>3. /\ want = computeEventHash(carry[p], l) \/ want = expectedHashFor(carry[p], l)
      /\ job[p].kind = "erase" => want = computeEventHash(carry[p], l)
  BY Zenon
<1>4. todo'[p] = todo[p] \ {r.id} /\ carry'[p] = want
  BY Zenon, <1>2 DEF TypeOK
<1>5. IF want = r.hash /\ carry[p] = r.prev
      THEN draft'[p] = draft[p] /\ differs'[p] = differs[p]
      ELSE draft'[p] = Put(draft[p], n) /\ differs'[p] = differs[p] \cup {r.id}
  BY Zenon, <1>2 DEF TypeOK, Put
<1> HIDE DEF want
<1>6. /\ n.id = r.id /\ n.of = r.of /\ n.by = r.by /\ n.body = r.body /\ n.at = r.at
      /\ n.prev = carry[p] /\ n.hash = want
  BY ONLY RowFields
<1> HIDE DEF n
<1>7. r \in View(p) /\ Table(View(p)) /\ RowOK(r)
  BY <1>1 DEF Pending, First, WalkOf, Walk, Table
<1>10. /\ l.hash = r.hash /\ (r.id \notin stale[p] => l = r)
       /\ r.id \in stale[p] => l.body = "stored"
  BY ONLY LoadedFields
<1> HIDE DEF l
<1>11. /\ Walk(View(p), todo[p], carry[p]) /\ Mirrors(View(p), rows) /\ stale[p] \subseteq altered
       /\ job[p].kind = "erase" => EraseWalk(View(p), todo[p], stale[p])
       /\ job[p].kind = "rebase" => RebaseWalk(View(p), todo[p], differs[p])
  BY ONLY <1>1, Zenon DEF WalkOf
<1>8. CASE want = r.hash /\ carry[p] = r.prev
  <2>1. Put(View(p), r) = View(p)
    BY Zenon, <1>7, Replaced
  <2>2. Overlay(rows, draft'[p]) = Put(View(p), r) /\ differs'[p] = differs[p]
    BY ZenonT(60), <1>5, <1>8, <2>1 DEF View
  <2>3. r.prev = carry[p] /\ r.hash = want
    BY Zenon, <1>8
  <2>4. /\ Walk(Put(View(p), r), todo[p] \ {r.id}, r.hash) /\ Mirrors(Put(View(p), r), rows)
        /\ EraseWalk(View(p), todo[p], stale[p]) /\ r.hash = computeEventHash(carry[p], l)
             => EraseWalk(Put(View(p), r), todo[p] \ {r.id}, stale[p])
        /\ \A D, E : /\ RebaseWalk(View(p), todo[p], D) /\ D \subseteq E /\ (r.id \in E \/ r = r)
                     => RebaseWalk(Put(View(p), r), todo[p] \ {r.id}, E)
    <3>1. r.hash = computeEventHash(carry[p], l) \/ r.hash = expectedHashFor(carry[p], l)
      BY ONLY <1>3, <2>3, Zenon
    <3> QED BY ONLY RowsInv, <1>10, <1>11, <2>3, <3>1, r \in Pending(View(p), todo[p]), WalkedOn, ZenonT(60)
  <2>5. RebaseWalk(View(p), todo[p], differs[p]) => RebaseWalk(Put(View(p), r), todo'[p], differs'[p])
    BY ONLY <1>4, <2>2, <2>4, Zenon
  <2> QED BY ONLY <1>1, <1>3, <1>4, <1>11, <2>2, <2>3, <2>4, <2>5, Zenon DEF WalkOf
<1>9. CASE ~(want = r.hash /\ carry[p] = r.prev)
  <2>1. draft'[p] = Put(draft[p], n) /\ differs'[p] = differs[p] \cup {r.id}
    BY ZenonT(60), <1>5, <1>9
  <2>2. Overlay(rows, draft'[p]) = Put(View(p), n)
    BY <2>1, PutTwice DEF View
  <2>4. /\ Walk(Put(View(p), n), todo[p] \ {r.id}, n.hash) /\ Mirrors(Put(View(p), n), rows)
        /\ EraseWalk(View(p), todo[p], stale[p]) /\ n.hash = computeEventHash(carry[p], l)
             => EraseWalk(Put(View(p), n), todo[p] \ {r.id}, stale[p])
        /\ \A D, E : /\ RebaseWalk(View(p), todo[p], D) /\ D \subseteq E /\ (r.id \in E \/ n = r)
                     => RebaseWalk(Put(View(p), n), todo[p] \ {r.id}, E)
    <3>1. n.hash = computeEventHash(carry[p], l) \/ n.hash = expectedHashFor(carry[p], l)
      BY ONLY <1>3, <1>6, Zenon
    <3> QED BY ONLY RowsInv, <1>6, <1>10, <1>11, <3>1, r \in Pending(View(p), todo[p]), WalkedOn, ZenonT(60)
  <2>5. RebaseWalk(View(p), todo[p], differs[p]) => RebaseWalk(Put(View(p), n), todo'[p], differs'[p])
    BY ONLY <1>4, <2>1, <2>4, Zenon
  <2> QED BY ONLY Zenon, <1>1, <1>3, <1>4, <1>6, <1>11, <2>2, <2>4, <2>5 DEF WalkOf
<1> QED BY Zenon, <1>8, <1>9

-----------------------------------------------------------------------------
(* What is committed, and what is altered *)

LEMMA AppendSane ==
  ASSUME TypeOK, NEW V, Sane(V), NEW e \in Jobs, e.id \notin Ids(V), e.id < nextId,
         NEW m \in appendInTx(V, e)
  PROVE  Sane(V \cup {m}) /\ m \in Heads(V \cup {m})
<1>1. e.id \in Nat /\ e.at \in Nat /\ e.by \in Actors
  BY DEF Jobs
<1>2. Table(V) /\ Linked(V) /\ altered \subseteq Ids(V)
  BY DEF Sane
<1>3. Table(V \cup {m}) /\ Linked(V \cup {m}) /\ m \in Heads(V \cup {m})
  BY <1>1, <1>2, AppendLinked
<1>4. m.id = e.id /\ m.body = "stored" /\ m.hash = computeEventHash(m.prev, m)
  <2>1. Table(V) /\ e.id \in Nat /\ e.at \in Nat /\ m \in appendInTx(V, e)
    BY Zenon, <1>1, <1>2
  <2> QED BY ONLY <2>1, AppendPlace, ZenonT(60)
<1>5. HashOK(m) /\ Modern(m)
  BY <1>4, HashFields DEF HashOK, Modern, expectedHashFor
<1>6. Content(m) /\ Marked(m)
  <2>1. m.id \notin altered
    BY Zenon, <1>2, <1>4
  <2> QED BY Zenon, <1>4, <2>1 DEF Content, Marked, Shown
<1>7. altered \subseteq Ids(V \cup {m})
  BY <1>2 DEF Ids
<1>8. ASSUME NEW r \in V \cup {m}
      PROVE  /\ r.id < nextId /\ HashOK(r) /\ Modern(r) /\ Content(r)
             /\ r.at >= Cutover => Marked(r)
  BY Zenon, <1>4, <1>5, <1>6, <1>8 DEF Sane
<1> QED BY <1>3, <1>7, <1>8, Zenon DEF Sane

LEMMA WalkSane ==
  ASSUME RowsInv, NEW V, NEW c, Walk(V, {}, c), Mirrors(V, rows),
         \A v \in V : v.at >= Cutover => Marked(v)
  PROVE  Sane(V) /\ Ids(V) = Ids(rows)
<1>1. Table(V) /\ Linked(V) /\ \A v \in V : HashOK(v) /\ Modern(v)
  BY Zenon, WalkDone
<1>2. Ids(V) = Ids(rows)
  BY DEF Mirrors, SameRow, Ids
<1>3. \A v \in V : v.id < nextId /\ Content(v)
  BY DEF Mirrors, SameRow, RowsInv, Sane, Content
<1>4. altered \subseteq Ids(V)
  BY Zenon, <1>2 DEF RowsInv, Sane
<1> QED BY <1>1, <1>2, <1>3, <1>4 DEF Sane

LEMMA SaneNext ==
  ASSUME TypeOK, altered' = altered, raced' = raced, nextId' = nextId \/ nextId' = nextId + 1,
         Sane(rows')
  PROVE  RowsInv'
<1>1. \A r \in rows' : r.id \in Nat /\ r.id < nextId
  BY Zenon DEF Sane, Table, RowOK
<1>2. \A r \in rows' : r.id < nextId'
  <2>1. nextId \in Nat
    BY Zenon DEF TypeOK
  <2> QED BY ONLY <1>1, <2>1, nextId' = nextId \/ nextId' = nextId + 1
<1>3. Table(rows)' /\ Linked(rows)' /\ (altered \subseteq Ids(rows))'
  BY Zenon DEF Sane, Table, Distinct, RowOK, Linked, Ids, Preceding, Heads, Before
<1>4. \A r \in rows' : HashOK(r)' /\ Modern(r) /\ Content(r)'
  BY Zenon DEF Sane, HashOK, PreFix, expectedHashFor, Content
<1>5. \A r \in rows' : r.at >= Cutover => Marked(r)'
  BY Zenon DEF Sane, Marked, Shown
<1> QED BY Zenon, <1>2, <1>3, <1>4, <1>5 DEF RowsInv, Sane, Modern, Content, Marked, Shown

(* Row r is changed behind the service's back, to n. *)
Altering(r, n) ==
  /\ r \in rows /\ n.id = r.id /\ n.at = r.at /\ n.of = r.of /\ n.by = r.by
  /\ n.prev = r.prev /\ n.hash = r.hash /\ n.body = "altered" /\ RowOK(n)
  /\ rows' = Put(rows, n) /\ rows' = (rows \ {r}) \cup {n}
  /\ altered' = altered \cup {r.id} /\ raced \subseteq raced'
  /\ (\E p \in Procs : pc[p] = "redact") => r.id \in raced'
  /\ \A p \in Procs : /\ r.id \notin Ids(draft[p]) /\ stale[p] \subseteq stale'[p]
                      /\ stale'[p] \subseteq stale[p] \cup {r.id}
                      /\ r.body = "stored" /\ r.id \in todo[p] => r.id \in stale'[p]
                      /\ r.id \notin todo[p] => stale'[p] = stale[p]
  /\ UNCHANGED <<epoch, lock, pc, job, draft, todo, carry, differs, seen, overtaken, broker,
                 nextId, requests>>
  /\ DOMAIN stale' = Procs /\ raced' \subseteq raced \cup {r.id}

LEMMA AlterRow ==
  ASSUME TypeOK, RowsInv, Alter
  PROVE  \E r, n : Altering(r, n)
<1>1. PICK r \in rows :
        /\ \A p \in Procs : r.id \notin Ids(draft[p])
        /\ altered' = altered \cup {r.id}
        /\ raced' = IF \E p \in Procs : pc[p] = "redact" THEN raced \cup {r.id} ELSE raced
        /\ stale' = [p \in Procs |-> IF r.body = "stored" /\ r.id \in todo[p]
                                      THEN stale[p] \cup {r.id} ELSE stale[p]]
        /\ rows' = Overlay(rows, {Row(Event(r.id, r.of, r.by, "altered", r.at), r.prev, r.hash)})
  BY Zenon DEF Alter
<1> DEFINE n == Row(Event(r.id, r.of, r.by, "altered", r.at), r.prev, r.hash)
<1>2. /\ n.id = r.id /\ n.at = r.at /\ n.of = r.of /\ n.by = r.by /\ n.body = "altered"
      /\ n.prev = r.prev /\ n.hash = r.hash
  <2> DEFINE e == Event(r.id, r.of, r.by, "altered", r.at)
  <2>1. /\ e.id = r.id /\ e.of = r.of /\ e.by = r.by /\ e.body = "altered" /\ e.at = r.at
    BY ONLY EventFields
  <2> HIDE DEF e
  <2>2. /\ Row(e, r.prev, r.hash).id = e.id /\ Row(e, r.prev, r.hash).of = e.of
        /\ Row(e, r.prev, r.hash).by = e.by /\ Row(e, r.prev, r.hash).body = e.body
        /\ Row(e, r.prev, r.hash).at = e.at /\ Row(e, r.prev, r.hash).prev = r.prev
        /\ Row(e, r.prev, r.hash).hash = r.hash
    BY ONLY RowFields
  <2> QED BY ONLY <2>1, <2>2, ZenonT(60) DEF e
<1>3. rows' = Put(rows, n)
  BY Zenon, <1>1 DEF Put
<1> HIDE DEF n
<1>4. Table(rows) /\ RowOK(n)
  BY Zenon, <1>2 DEF RowsInv, Sane, Table, RowOK
<1>5. rows' = (rows \ {r}) \cup {n}
  BY <1>2, <1>3, <1>4, Replaced
<1>6. /\ raced \subseteq raced' /\ raced' \subseteq raced \cup {r.id}
      /\ (\E p \in Procs : pc[p] = "redact") => r.id \in raced'
  BY Zenon, <1>1
<1>7. /\ DOMAIN stale' = Procs
      /\ \A p \in Procs : stale'[p] = IF r.body = "stored" /\ r.id \in todo[p]
                                       THEN stale[p] \cup {r.id} ELSE stale[p]
  BY Zenon, <1>1
<1>8. \A p \in Procs : /\ stale[p] \subseteq stale'[p] /\ stale'[p] \subseteq stale[p] \cup {r.id}
                       /\ r.body = "stored" /\ r.id \in todo[p] => r.id \in stale'[p]
                       /\ r.id \notin todo[p] => stale'[p] = stale[p]
  BY Zenon, <1>7
<1>9. UNCHANGED <<epoch, lock, pc, job, draft, todo, carry, differs, seen, overtaken, broker,
                  nextId, requests>>
  BY Zenon DEF Alter
<1>10. Altering(r, n)
  BY ONLY r \in rows, <1>1, <1>2, <1>3, <1>4, <1>5, <1>6, <1>7, <1>8, <1>9, Zenon DEF Altering
<1> QED BY Zenon, <1>10

LEMMA AlterSane ==
  ASSUME TypeOK, RowsInv, NEW r, NEW n, Altering(r, n)
  PROVE  RowsInv' /\ Ids(rows') = Ids(rows)
<1>1. /\ r \in rows /\ n.id = r.id /\ n.at = r.at /\ n.of = r.of /\ n.by = r.by /\ n.body = "altered"
      /\ n.prev = r.prev /\ n.hash = r.hash /\ altered' = altered \cup {r.id}
      /\ raced \subseteq raced' /\ nextId' = nextId
  BY Zenon DEF Altering
<1>2. rows' = Put(rows, n) /\ rows' = (rows \ {r}) \cup {n}
  BY Zenon DEF Altering
<1>4. Table(rows) /\ Linked(rows) /\ RowOK(r) /\ RowOK(n)
  BY Zenon, <1>1 DEF RowsInv, Sane, Table, Altering
<1>6. Table(rows') /\ Linked(rows')
  BY Zenon, <1>1, <1>2, <1>4, AlterLinked
<1>7. Ids(rows') = Ids(rows) /\ altered' \subseteq Ids(rows')
  <2>1. Ids(rows') = Ids(rows)
    BY <1>1, <1>2 DEF Ids
  <2> QED BY <1>1, <2>1, Zenon DEF RowsInv, Sane, Ids
<1>8. n.at >= Cutover /\ n.id \notin raced' => n.hash.body = "stored"
  <2> SUFFICES ASSUME n.at >= Cutover, n.id \notin raced' PROVE n.hash.body = "stored"
    BY Zenon
  <2>1. CASE r.id \in altered
    BY Zenon, <1>1, <2>1 DEF RowsInv, Sane, Marked, Shown
  <2>2. CASE r.id \notin altered
    <3>1. r.body = "stored" /\ HashOK(r) /\ ~PreFix(r) /\ r.hash.v = "v2"
      BY <1>1, <1>4, <2>2, AuditAssumption DEF RowsInv, Sane, PreFix, RowOK, Modern, Content
    <3>2. r.hash = computeEventHash(r.prev, r)
      BY Zenon, <2>2, <3>1 DEF HashOK, expectedHashFor
    <3> QED BY <1>1, <3>1, <3>2, HashFields
  <2> QED BY <2>1, <2>2
<1>9. \A s \in rows' : s.id < nextId' /\ Modern(s)
  BY Zenon, <1>1, <1>2 DEF RowsInv, Sane, Modern
<1>10. \A s \in rows' : s.id \in altered' \/ PreFix(s) \/ s.hash = expectedHashFor(s.prev, s)
  BY Zenon, <1>1, <1>2 DEF RowsInv, Sane, HashOK
<1>11. \A s \in rows' : s.body = IF s.id \in altered' THEN "altered" ELSE "stored"
  <2> SUFFICES ASSUME NEW s \in rows' PROVE s.body = IF s.id \in altered' THEN "altered" ELSE "stored"
    BY Zenon
  <2>1. CASE s = n
    BY Zenon, <1>1, <2>1
  <2>2. CASE s \in rows /\ s # r
    <3>1. s.id # r.id /\ Content(s)
      BY Zenon, <1>1, <1>4, <2>2 DEF Table, Distinct, RowsInv, Sane
    <3> QED BY Zenon, <1>1, <3>1 DEF Content
  <2> QED BY Zenon, <1>2, <2>1, <2>2
<1>12. \A s \in rows' : s.at >= Cutover /\ s.id \in altered' \ raced' =>
         s.body = "altered" /\ s.hash.body = "stored"
  <2> SUFFICES ASSUME NEW s \in rows', s.at >= Cutover, s.id \in altered' \ raced'
               PROVE  s.body = "altered" /\ s.hash.body = "stored"
    BY Zenon
  <2>1. CASE s = n
    BY Zenon, <1>1, <1>8, <2>1
  <2>2. CASE s \in rows /\ s # r
    <3>1. s.id # r.id
      BY Zenon, <1>1, <1>4, <2>2 DEF Table, Distinct
    <3>2. s.id \in Shown
      BY Zenon, <1>1, <3>1 DEF Shown
    <3> QED BY Zenon, <2>2, <3>2 DEF RowsInv, Sane, Marked
  <2> QED BY Zenon, <1>2, <2>1, <2>2
<1>13. RowsInv'
  BY <1>6, <1>7, <1>9, <1>10, <1>11, <1>12, ZenonT(60)
     DEF RowsInv, Sane, Table, Distinct, RowOK, Linked, Ids, Preceding, Heads, Before, HashOK,
         PreFix, expectedHashFor, Modern, Content, Marked, Shown
<1> QED BY Zenon, <1>7, <1>13

(* A transaction under way sees the change, and what it will insert, or what *)
(* it has walked, stands. *)
LEMMA AlterView ==
  ASSUME NEW R, NEW D, NEW n, n.id \notin Ids(D)
  PROVE  Overlay(Put(R, n), D) = Put(Overlay(R, D), n)
<1>1. \A d \in D : d.id # n.id
  BY Zenon DEF Ids
<1>2. Put(R, n) = {s \in R : s.id # n.id} \cup {n}
  BY ONLY PutRow, Zenon
<1>3. Put(Overlay(R, D), n) = {s \in Overlay(R, D) : s.id # n.id} \cup {n}
  BY ONLY PutRow, Zenon
<1>4. Overlay(Put(R, n), D) = {s \in Put(R, n) : s.id \notin Ids(D)} \cup D
  BY Zenon DEF Overlay
<1>5. Overlay(R, D) = {s \in R : s.id \notin Ids(D)} \cup D
  BY Zenon DEF Overlay
<1> QED BY ONLY <1>1, <1>2, <1>3, <1>4, <1>5, n.id \notin Ids(D)

LEMMA AlterInsert ==
  ASSUME NEW r, NEW n, Altering(r, n), NEW e, NEW m \in appendInTx(rows, e)
  PROVE  m \in appendInTx(rows', e)
<1>1. /\ r \in rows /\ n.id = r.id /\ n.at = r.at /\ n.hash = r.hash
      /\ rows' = (rows \ {r}) \cup {n}
  BY Zenon DEF Altering
<1>2. PICK h \in Heads(rows) : m = Chained(e, After(e.at, h.at), h.hash)
  BY Zenon, <1>1 DEF appendInTx
<1>3. h \in rows /\ \A x \in rows : x = h \/ Before(x, h)
  BY Zenon, <1>2 DEF Heads
<1>4. /\ \A x : Before(x, n) <=> Before(x, r)
      /\ \A x : Before(n, x) <=> Before(r, x)
  BY <1>1 DEF Before
<1>5. PICK k \in rows' : /\ k.at = h.at /\ k.hash = h.hash
                         /\ \A x \in rows' : x = k \/ Before(x, k)
  <2>1. CASE h = r
    <3>1. \A x \in rows' : x = n \/ Before(x, n)
      BY Zenon, <1>1, <1>3, <1>4, <2>1
    <3> QED BY Zenon, <1>1, <2>1, <3>1
  <2>2. CASE h # r
    <3>1. Before(n, h)
      BY Zenon, <1>1, <1>3, <1>4, <2>2
    <3>2. \A x \in rows' : x = h \/ Before(x, h)
      BY Zenon, <1>1, <1>3, <3>1
    <3> QED BY Zenon, <1>1, <1>3, <2>2, <3>2
  <2> QED BY Zenon, <2>1, <2>2
<1>6. k \in Heads(rows') /\ rows' # {}
  BY Zenon, <1>5 DEF Heads
<1>7. m = Chained(e, After(e.at, k.at), k.hash)
  BY Zenon, <1>2, <1>5
<1> QED BY Zenon, <1>6, <1>7 DEF appendInTx

LEMMA AlterWalk ==
  ASSUME NEW V, NEW T, NEW c, Walk(V, T, c), NEW r \in V, NEW n, RowOK(n),
         n.id = r.id, n.at = r.at, n.prev = r.prev, n.hash = r.hash,
         altered' = altered \cup {r.id}
  PROVE  /\ Put(V, n) = (V \ {r}) \cup {n}
         /\ Table(Put(V, n)) /\ Last(Put(V, n), T, c)
         /\ \A u, v \in Put(V, n) : u.id \notin T /\ v.id \in T => u.at < v.at
         /\ \A v \in Put(V, n) : /\ Modern(v)
                                 /\ v.id \notin T => v.prev \in Preceding(Put(V, n), v) /\ HashOK(v)'
<1> DEFINE W == Put(V, n)
<1>0. Table(V)
  BY Zenon DEF Walk
<1>1. W = (V \ {r}) \cup {n} /\ Table(W)
  BY ONLY <1>0, r \in V, RowOK(n), n.id = r.id, n.at = r.at, Replaced
<1>2. \A w \in W : \E v \in V :
        /\ w.id = v.id /\ w.at = v.at /\ w.hash = v.hash /\ w.prev = v.prev
        /\ w = v \/ (w = n /\ v = r)
  BY Zenon, <1>1
<1>3. \A v \in V : \E w \in W : w.id = v.id /\ w.at = v.at /\ w.hash = v.hash
  BY Zenon, <1>1
<1> HIDE DEF W
<1>4. SameChain(V, W)
  BY Zenon, <1>2, <1>3 DEF SameChain
<1>5. \A u, v \in W : u.id \notin T /\ v.id \in T => u.at < v.at
  <2> SUFFICES ASSUME NEW u \in W, NEW v \in W, u.id \notin T, v.id \in T PROVE u.at < v.at
    BY Zenon
  <2>1. PICK x \in V : u.id = x.id /\ u.at = x.at
    BY Zenon, <1>2
  <2>2. PICK y \in V : v.id = y.id /\ v.at = y.at
    BY Zenon, <1>2
  <2> QED BY Zenon, <2>1, <2>2 DEF Walk
<1>6. Last(W, T, c)
  <2>1. CASE \A v \in V : v.id \in T
    <3>1. \A w \in W : w.id \in T
      BY Zenon, <1>2, <2>1
    <3> QED BY Zenon, <2>1, <3>1 DEF Walk, Last
  <2>2. CASE ~\A v \in V : v.id \in T
    <3>1. PICK u \in V : /\ u.id \notin T /\ c = u.hash
                         /\ \A w \in V : w.id \notin T => w = u \/ w.at < u.at
      BY Zenon, <2>2 DEF Walk, Last
    <3>2. PICK k \in W : k.id = u.id /\ k.at = u.at /\ k.hash = u.hash
      BY Zenon, <1>3
    <3>3. ASSUME NEW w \in W, w.id \notin T PROVE w = k \/ w.at < k.at
      <4>1. PICK v \in V : w.id = v.id /\ w.at = v.at
        BY Zenon, <1>2
      <4>2. CASE v = u
        <5>1. w.id = k.id
          BY Zenon, <3>2, <4>1, <4>2
        <5> QED BY Zenon, <1>1, <5>1 DEF Table, Distinct
      <4>3. CASE v.at < u.at
        BY Zenon, <3>2, <4>1, <4>3
      <4> QED BY Zenon, <3>1, <3>3, <4>1, <4>2, <4>3
    <3>4. k.id \notin T /\ c = k.hash
      BY Zenon, <3>1, <3>2
    <3> QED BY Zenon, <3>3, <3>4 DEF Last
  <2> QED BY Zenon, <2>1, <2>2
<1>7. ASSUME NEW w \in W
      PROVE  Modern(w) /\ (w.id \notin T => w.prev \in Preceding(W, w) /\ HashOK(w)')
  <2>1. PICK v \in V : /\ w.id = v.id /\ w.at = v.at /\ w.hash = v.hash /\ w.prev = v.prev
                       /\ w = v \/ (w = n /\ v = r)
    BY Zenon, <1>2
  <2>2. Modern(w)
    BY Zenon, <2>1 DEF Walk, Modern
  <2>3. ASSUME w.id \notin T PROVE w.prev \in Preceding(W, w)
    <3>1. w.prev \in Preceding(V, v) /\ v.id = w.id /\ v.at = w.at
      BY Zenon, <2>1, <2>3 DEF Walk
    <3> QED BY ONLY <1>0, <1>1, <1>4, <3>1, MappedPreceding
  <2>4. ASSUME w.id \notin T PROVE HashOK(w)'
    <3>1. CASE w = v
      <4>1. HashOK(w)
        BY Zenon, <2>1, <2>4, <3>1 DEF Walk
      <4> QED BY Zenon, <4>1 DEF HashOK, PreFix, expectedHashFor
    <3>2. CASE w = n
      BY Zenon, <3>2 DEF HashOK
    <3> QED BY Zenon, <2>1, <3>1, <3>2
  <2> QED BY Zenon, <2>2, <2>3, <2>4
<1> QED BY Zenon, <1>1, <1>5, <1>6, <1>7 DEF W

LEMMA AlterWalkOf ==
  ASSUME TypeOK, RowsInv, RowsInv', NEW r, NEW n, Altering(r, n), NEW q \in Procs,
         WalkOf(q, View(q), todo[q], carry[q], differs[q], stale[q])
  PROVE  WalkOf(q, View(q), todo[q], carry[q], differs[q], stale[q])'
<1>1. /\ r \in rows /\ n.id = r.id /\ n.at = r.at /\ n.of = r.of /\ n.by = r.by /\ n.body = "altered"
      /\ n.prev = r.prev /\ n.hash = r.hash /\ RowOK(n) /\ altered' = altered \cup {r.id}
      /\ raced \subseteq raced'
  BY Zenon DEF Altering
<1>2. rows' = Put(rows, n) /\ rows' = (rows \ {r}) \cup {n} /\ r.id \notin Ids(draft[q])
  BY Zenon DEF Altering
<1>3. /\ stale[q] \subseteq stale'[q] /\ stale'[q] \subseteq stale[q] \cup {r.id}
      /\ r.body = "stored" /\ r.id \in todo[q] => r.id \in stale'[q]
  BY Zenon DEF Altering
<1>4. UNCHANGED <<job, draft, todo, carry, differs>>
  BY Zenon DEF Altering
<1> DEFINE V == View(q)
           W == Put(V, n)
<1>5. /\ Walk(V, todo[q], carry[q]) /\ Mirrors(V, rows) /\ stale[q] \subseteq altered
      /\ job[q].kind = "erase" => EraseWalk(V, todo[q], stale[q])
      /\ job[q].kind = "rebase" => RebaseWalk(V, todo[q], differs[q])
  BY Zenon DEF WalkOf
<1>6. r \in V /\ View(q)' = W
  <2>1. r \in Overlay(rows, draft[q])
    BY Zenon, <1>1, <1>2 DEF Overlay
  <2>3. n.id \notin Ids(draft[q])
    BY Zenon, <1>1, <1>2
  <2>4. Overlay(Put(rows, n), draft[q]) = Put(Overlay(rows, draft[q]), n)
    BY ONLY <2>3, AlterView
  <2>2. View(q)' = Overlay(rows', draft'[q])
    BY Zenon DEF View, Overlay, Ids
  <2> QED BY Zenon, <1>2, <1>4, <2>1, <2>2, <2>4 DEF View
<1> HIDE DEF V
<1>7. /\ W = (V \ {r}) \cup {n}
      /\ Table(W) /\ Last(W, todo[q], carry[q])
      /\ \A u, v \in W : u.id \notin todo[q] /\ v.id \in todo[q] => u.at < v.at
      /\ \A v \in W : /\ Modern(v)
                      /\ v.id \notin todo[q] => v.prev \in Preceding(W, v) /\ HashOK(v)'
  BY ONLY <1>1, <1>5, <1>6, AlterWalk
<1> HIDE DEF W
<1>8. Walk(View(q), todo[q], carry[q])'
  <2>1. Table(View(q))'
    BY Zenon, <1>6, <1>7 DEF Table, Distinct, RowOK
  <2>2. Last(View(q), todo[q], carry[q])'
    BY Zenon, <1>4, <1>6, <1>7 DEF Last
  <2>3. \A v \in View(q)' : Modern(v)' /\ (v.id \notin todo'[q] => HashOK(v)')
    BY Zenon, <1>4, <1>6, <1>7 DEF Modern
  <2>4. \A v \in View(q)' : v.id \notin todo'[q] => v.prev \in Preceding(View(q)', v)
    BY Zenon, <1>4, <1>6, <1>7
  <2>5. \A u, v \in View(q)' : u.id \notin todo'[q] /\ v.id \in todo'[q] => u.at < v.at
    BY Zenon, <1>4, <1>6, <1>7
  <2> QED BY <2>1, <2>2, <2>3, <2>4, <2>5, Zenon DEF Walk, Preceding, Heads, Before
<1>9. \A v \in W : v = n \/ (v \in V /\ v # r /\ v.id # r.id)
  BY Zenon, <1>5, <1>6, <1>7 DEF Walk, Table, Distinct
<1>10. n \in rows' /\ n \in W /\ \A s \in rows : s.id # r.id => s \in rows'
  BY Zenon, <1>2, <1>7
<1>11. Mirrors(View(q), rows)'
  <2>1. ASSUME NEW v \in W PROVE \E s \in rows' : SameRow(v, s)
    <3>1. CASE v = n
      BY Zenon, <1>10, <3>1 DEF SameRow
    <3>2. CASE v \in V /\ v.id # r.id
      <4>1. PICK s \in rows : SameRow(v, s)
        BY Zenon, <1>5, <3>2 DEF Mirrors
      <4>2. s.id # r.id
        BY Zenon, <3>2, <4>1 DEF SameRow
      <4> QED BY Zenon, <1>10, <4>1, <4>2
    <3> QED BY Zenon, <1>9, <3>1, <3>2
  <2>2. ASSUME NEW s \in rows' PROVE \E v \in W : SameRow(v, s)
    <3>1. CASE s = n
      BY Zenon, <1>10, <3>1 DEF SameRow
    <3>2. CASE s \in rows /\ s # r
      <4>1. PICK v \in V : SameRow(v, s)
        BY Zenon, <1>5, <3>2 DEF Mirrors
      <4>2. v.id # r.id
        BY Zenon, <1>1, <3>2, <4>1 DEF SameRow, RowsInv, Sane, Table, Distinct
      <4> QED BY Zenon, <1>7, <4>1, <4>2
    <3> QED BY Zenon, <1>2, <3>1, <3>2
  <2>3. \A v, s : SameRow(v, s) => SameRow(v, s)'
    BY ONLY Zenon DEF SameRow
  <2> QED BY Zenon, <1>6, <2>1, <2>2, <2>3 DEF Mirrors
<1>12. ASSUME NEW v \in W, v.at >= Cutover, v = n \/ Marked(v) PROVE Marked(v)'
  <2>1. CASE v = n
    <3>1. \A s \in rows' : s.at >= Cutover => Marked(s)'
      BY Zenon DEF RowsInv, Sane
    <3> QED BY Zenon, <1>10, <1>12, <2>1, <3>1
  <2>2. CASE v # n
    <3>1. v.id # r.id /\ Marked(v)
      BY Zenon, <1>9, <1>12, <2>2
    <3> QED BY Zenon, <1>1, <3>1 DEF Marked, Shown
  <2> QED BY Zenon, <2>1, <2>2
<1>13. ASSUME EraseWalk(V, todo[q], stale[q]) PROVE EraseWalk(View(q), todo[q], stale[q])'
  <2>1. ASSUME NEW v \in W, v.id \in altered' \ raced', v.at >= Cutover
        PROVE  Marked(v)' /\ (v.id \in todo[q] => v.id \in stale'[q])
    <3>1. CASE v = n
      <4>1. CASE r.body = "stored"
        BY Zenon, <1>1, <1>3, <1>12, <2>1, <3>1, <4>1
      <4>2. CASE r.body # "stored"
        <5>1. r.id \in altered
          BY Zenon, <1>1, <4>2 DEF RowsInv, Sane, Content
        <5>2. r.id \in Shown
          BY Zenon, <1>1, <2>1, <3>1, <5>1 DEF Shown
        <5>3. r.id \in todo[q] => r.id \in stale[q]
          BY Zenon, <1>1, <1>6, <1>13, <2>1, <3>1, <5>2 DEF EraseWalk
        <5> QED BY Zenon, <1>1, <1>3, <1>12, <2>1, <3>1, <5>3
      <4> QED BY Zenon, <4>1, <4>2
    <3>2. CASE v \in V /\ v.id # r.id
      <4>1. v.id \in Shown
        BY Zenon, <1>1, <2>1, <3>2 DEF Shown
      <4>2. Marked(v) /\ (v.id \in todo[q] => v.id \in stale[q])
        BY Zenon, <1>13, <2>1, <3>2, <4>1 DEF EraseWalk
      <4> QED BY Zenon, <1>3, <1>12, <2>1, <4>2
    <3> QED BY Zenon, <1>9, <3>1, <3>2
  <2>2. \A v \in W : v.by # "subject"
    BY Zenon, <1>1, <1>6, <1>9, <1>13 DEF EraseWalk
  <2> QED BY Zenon, <1>4, <1>6, <2>1, <2>2 DEF EraseWalk, Shown
<1>14. ASSUME RebaseWalk(V, todo[q], differs[q]) PROVE RebaseWalk(View(q), todo[q], differs[q])'
  <2>1. \A v \in W : v.id \in todo[q] => v \in rows'
    BY Zenon, <1>9, <1>10, <1>14 DEF RebaseWalk
  <2>2. ASSUME NEW v \in W PROVE \E s \in rows' : v.id = s.id /\ v.by = s.by
    <3>1. CASE v = n
      BY Zenon, <1>10, <3>1
    <3>2. CASE v \in V /\ v.id # r.id
      <4>1. PICK s \in rows : v.id = s.id /\ v.by = s.by
        BY Zenon, <1>14, <3>2 DEF RebaseWalk
      <4> QED BY Zenon, <1>10, <3>2, <4>1
    <3> QED BY Zenon, <1>9, <3>1, <3>2
  <2>3. \A v \in W : v.at >= Cutover => v.id \in differs[q] \/ Marked(v)'
    BY Zenon, <1>9, <1>12, <1>14 DEF RebaseWalk
  <2> QED BY Zenon, <1>4, <1>6, <2>1, <2>2, <2>3 DEF RebaseWalk, Marked, Shown
<1>15. stale'[q] \subseteq altered'
  BY Zenon, <1>1, <1>3, <1>5
<1> QED BY Zenon, <1>4, <1>5, <1>8, <1>11, <1>13, <1>14, <1>15 DEF WalkOf, V

TrailStep ==
  \A r \in rows : \E s \in rows' :
    /\ s.id = r.id /\ s.at = r.at /\ s.of = r.of
    /\ s.by # r.by => s.by = "REDACTED" /\ \A t \in rows' : t.by # "subject"
    /\ <<s.prev, s.hash>> # <<r.prev, r.hash>> =>
         \E m \in rows' : m.id \notin Ids(rows) /\ m.of = "none" /\ m \in Heads(rows')

LEMMA JobRow ==
  ASSUME NEW R, Table(R), NEW e \in Jobs, NEW m \in appendInTx(R, e)
  PROVE  m.id = e.id /\ m.of = e.of /\ m.by = e.by
<1>1. e.id \in Nat /\ e.at \in Nat
  BY DEF Jobs
<1> QED BY <1>1, AppendPlace, ZenonT(60)

LEMMA AppendCommits ==
  ASSUME TypeOK, IdInv, RowsInv, InsertInv, NEW p \in Procs, AppendCommit(p)
  PROVE  /\ RowsInv' /\ Ids(rows') = Ids(rows) \cup {job[p].id}
         /\ rows \subseteq rows' /\ \E r \in rows' : r.of = job[p].of
         /\ \E m \in appendInTx(rows, job[p]) : rows' = rows \cup {m}
<1>1. pc[p] = "insert" /\ rows' = View(p) /\ UNCHANGED <<altered, raced, nextId>>
  BY Zenon DEF AppendCommit
<1>2. PICK m \in appendInTx(rows, job[p]) : draft[p] = {m}
  BY ZenonT(60), <1>1 DEF InsertInv
<1>3. job[p].id \notin Ids(rows) /\ job[p].id < nextId /\ job[p] \in Jobs
  BY <1>1 DEF IdInv, Unplaced, TypeOK
<1>4. Sane(rows) /\ Table(rows)
  BY Zenon DEF RowsInv, Sane
<1>5. m.id = job[p].id /\ m.of = job[p].of
  BY ONLY Zenon, <1>3, <1>4, m \in appendInTx(rows, job[p]), JobRow
<1>6. rows' = rows \cup {m}
  <2>1. rows' = {r \in rows : r.id # m.id} \cup {m}
    BY Zenon, <1>1, <1>2, PutRow DEF View, Put
  <2> QED BY Zenon, <1>3, <1>5, <2>1 DEF Ids
<1>7. Sane(rows')
  BY Zenon, <1>3, <1>4, <1>6, AppendSane
<1>8. RowsInv'
  BY Zenon, <1>1, <1>7, SaneNext
<1>9. Ids(rows') = Ids(rows) \cup {job[p].id}
  BY <1>5, <1>6 DEF Ids
<1> QED BY <1>5, <1>6, <1>8, <1>9

(* The two rewrites, once their walk is done: V is what they commit. *)
LEMMA MarkerCommits ==
  ASSUME TypeOK, JobInv, IdInv, RowsInv, NEW p \in Procs, pc[p] = "rechain",
         NEW V, Sane(V), Ids(V) = Ids(rows), Mirrors(V, rows),
         NEW m \in appendInTx(V, job[p]), rows' = V \cup {m}, UNCHANGED <<altered, raced, nextId>>
  PROVE  /\ RowsInv' /\ Ids(rows') = Ids(rows) \cup {job[p].id} /\ m.by = "other"
         /\ \E x \in rows' : x.id \notin Ids(rows) /\ x.of = "none" /\ x \in Heads(rows')
<1>1. job[p].id \notin Ids(rows) /\ job[p].id < nextId /\ job[p] \in Jobs
  BY Zenon DEF IdInv, Unplaced, TypeOK
<1>2. job[p].by = "other" /\ job[p].of = "none"
  BY Zenon DEF JobInv, JobFits
<1>3. Table(V)
  BY Zenon DEF Sane
<1>4. m.id = job[p].id /\ m.of = "none" /\ m.by = "other"
  BY Zenon, <1>1, <1>2, <1>3, JobRow
<1>5. Sane(rows') /\ m \in Heads(rows')
  BY Zenon, <1>1, AppendSane
<1>6. RowsInv'
  BY Zenon, <1>5, SaneNext
<1>7. Ids(rows') = Ids(rows) \cup {job[p].id}
  BY Zenon, <1>4 DEF Ids
<1> QED BY <1>1, <1>4, <1>5, <1>6, <1>7, Zenon

LEMMA EraseSane ==
  ASSUME TypeOK, RowsInv, WalkInv, NEW p \in Procs, EraseCommit(p)
  PROVE  /\ pc[p] = "rechain" /\ UNCHANGED <<altered, raced, nextId>>
         /\ Mirrors(View(p), rows) /\ EraseWalk(View(p), {}, stale[p])
         /\ Sane(View(p)) /\ Ids(View(p)) = Ids(rows)
<1>1. /\ pc[p] = "rechain" /\ todo[p] = {} /\ job[p].kind = "erase" /\ UNCHANGED <<altered, raced, nextId>>
  BY Zenon DEF EraseCommit, Walked
<1>2. Walk(View(p), {}, carry[p]) /\ Mirrors(View(p), rows) /\ EraseWalk(View(p), {}, stale[p])
  BY <1>1, Zenon DEF WalkInv, WalkOf
<1>3. \A v \in View(p) : v.at >= Cutover => Marked(v)
  BY Zenon, <1>2 DEF EraseWalk, Marked
<1>4. Sane(View(p)) /\ Ids(View(p)) = Ids(rows)
  BY Zenon, <1>2, <1>3, WalkSane
<1> QED BY Zenon, <1>1, <1>2, <1>4

LEMMA EraseCommits ==
  ASSUME TypeOK, JobInv, IdInv, RowsInv, WalkInv, NEW p \in Procs, EraseCommit(p)
  PROVE  RowsInv' /\ Ids(rows') = Ids(rows) \cup {job[p].id} /\ TrailStep
<1>1. pc[p] = "rechain" /\ UNCHANGED <<altered, raced, nextId>>
  BY Zenon, EraseSane
<1>2. Mirrors(View(p), rows) /\ EraseWalk(View(p), {}, stale[p])
  BY Zenon, EraseSane
<1>4. Sane(View(p)) /\ Ids(View(p)) = Ids(rows)
  BY Zenon, EraseSane
<1>5. PICK m \in appendInTx(View(p), job[p]) : rows' = View(p) \cup {m}
  BY DEF EraseCommit
<1>6. /\ RowsInv' /\ Ids(rows') = Ids(rows) \cup {job[p].id} /\ m.by = "other"
      /\ \E x \in rows' : x.id \notin Ids(rows) /\ x.of = "none" /\ x \in Heads(rows')
  BY <1>1, <1>2, <1>4, <1>5, MarkerCommits, Zenon
<1>7. \A t \in rows' : t.by # "subject"
  BY <1>2, <1>5, <1>6, Zenon DEF EraseWalk
<1>8. \A r \in rows : \E s \in rows' : SameRow(s, r)
  BY Zenon, <1>2, <1>5 DEF Mirrors
<1>9. TrailStep
  <2> SUFFICES ASSUME NEW r \in rows
               PROVE  \E s \in rows' :
                        /\ s.id = r.id /\ s.at = r.at /\ s.of = r.of
                        /\ s.by # r.by => s.by = "REDACTED" /\ \A t \in rows' : t.by # "subject"
                        /\ \E x \in rows' : x.id \notin Ids(rows) /\ x.of = "none" /\ x \in Heads(rows')
    BY Zenon DEF TrailStep
  <2>1. PICK s \in rows' : SameRow(s, r)
    BY Zenon, <1>8
  <2>2. s.id = r.id /\ s.at = r.at /\ s.of = r.of /\ (s.by # r.by => s.by = "REDACTED")
    BY ONLY <2>1, Zenon DEF SameRow
  <2> QED BY ONLY <1>6, <1>7, <2>2, Zenon
<1> QED BY Zenon, <1>6, <1>9

LEMMA RebaseSane ==
  ASSUME TypeOK, RowsInv, WalkInv, NEW p \in Procs, RebaseCommit(p)
  PROVE  /\ pc[p] = "rechain" /\ UNCHANGED <<altered, raced, nextId>>
         /\ Mirrors(View(p), rows) /\ RebaseWalk(View(p), {}, differs[p])
         /\ Sane(View(p)) /\ Ids(View(p)) = Ids(rows)
<1>1. /\ pc[p] = "rechain" /\ todo[p] = {} /\ job[p].kind = "rebase" /\ UNCHANGED <<altered, raced, nextId>>
      /\ AtOrAfterCutover(p) = {}
  BY ZenonT(60) DEF RebaseCommit, Walked
<1>2. Walk(View(p), {}, carry[p]) /\ Mirrors(View(p), rows) /\ RebaseWalk(View(p), {}, differs[p])
  BY <1>1, ZenonT(60) DEF WalkInv, WalkOf
<1>3. ASSUME NEW v \in View(p), v.at >= Cutover PROVE Marked(v)
  <2>1. PICK r \in rows : v.id = r.id /\ v.at = r.at
    BY <1>2, ZenonT(60) DEF Mirrors, SameRow
  <2>2. v.id \notin differs[p]
    BY <1>1, <1>3, <2>1 DEF AtOrAfterCutover
  <2> QED BY <1>2, <1>3, <2>2 DEF RebaseWalk
<1>4. Sane(View(p)) /\ Ids(View(p)) = Ids(rows)
  BY <1>2, <1>3, WalkSane, Zenon
<1> QED BY ZenonT(60), <1>1, <1>2, <1>4

LEMMA RebaseCommits ==
  ASSUME TypeOK, JobInv, IdInv, RowsInv, WalkInv, NEW p \in Procs, RebaseCommit(p)
  PROVE  RowsInv' /\ Ids(rows') = Ids(rows) \cup {job[p].id} /\ TrailStep
<1>1. pc[p] = "rechain" /\ UNCHANGED <<altered, raced, nextId>>
  BY Zenon, RebaseSane
<1>2. Mirrors(View(p), rows) /\ RebaseWalk(View(p), {}, differs[p])
  BY Zenon, RebaseSane
<1>4. Sane(View(p)) /\ Ids(View(p)) = Ids(rows)
  BY ZenonT(60), RebaseSane
<1>5. PICK m \in appendInTx(View(p), job[p]) : rows' = View(p) \cup {m}
  BY DEF RebaseCommit
<1>6. /\ RowsInv' /\ Ids(rows') = Ids(rows) \cup {job[p].id}
      /\ \E x \in rows' : x.id \notin Ids(rows) /\ x.of = "none" /\ x \in Heads(rows')
  BY <1>1, <1>2, <1>4, <1>5, MarkerCommits, ZenonT(60)
<1>7. ASSUME NEW r \in rows
      PROVE  \E s \in rows' : s.id = r.id /\ s.at = r.at /\ s.of = r.of /\ s.by = r.by
  <2>1. PICK s \in View(p) : SameRow(s, r)
    BY <1>2, ZenonT(60) DEF Mirrors
  <2>2. PICK x \in rows : s.id = x.id /\ s.by = x.by
    BY <1>2 DEF RebaseWalk
  <2>3. x = r
    BY <2>1, <2>2, Zenon DEF SameRow, RowsInv, Sane, Table, Distinct
  <2> QED BY <1>5, <2>1, <2>2, <2>3 DEF SameRow
<1>8. TrailStep
  BY Zenon, <1>6, <1>7 DEF TrailStep
<1> QED BY Zenon, <1>6, <1>8

(* The steps that commit. *)
Commits(p) == AppendCommit(p) \/ EraseCommit(p) \/ RebaseCommit(p)

LEMMA CommitRows ==
  ASSUME TypeOK, JobInv, IdInv, RowsInv, InsertInv, WalkInv, NEW p \in Procs, Commits(p)
  PROVE  RowsInv' /\ Ids(rows') = Ids(rows) \cup {job[p].id} /\ TrailStep
<1>1. CASE AppendCommit(p)
  <2>1. RowsInv' /\ Ids(rows') = Ids(rows) \cup {job[p].id} /\ rows \subseteq rows'
    BY Zenon, <1>1, AppendCommits
  <2> QED BY Zenon, <2>1 DEF TrailStep
<1> QED BY Zenon, <1>1, EraseCommits, RebaseCommits DEF Commits

-----------------------------------------------------------------------------
(* What the steps of one process do to its place, its job and the lock *)

Settled == {"idle", "ack", "park"} \cup Signing

PlaceFrame(p) ==
  /\ pc' \in [Procs -> Stages] /\ job' \in [Procs -> Jobs] /\ DOMAIN seen' = Procs
  /\ \A q \in Procs : q # p => pc'[q] = pc[q] /\ job'[q] = job[q]
WalkFrame(p) ==
  /\ DOMAIN draft' = Procs /\ DOMAIN todo' = Procs /\ DOMAIN carry' = Procs
  /\ DOMAIN differs' = Procs /\ DOMAIN stale' = Procs
  /\ \A q \in Procs : q # p => /\ draft'[q] = draft[q] /\ todo'[q] = todo[q]
                               /\ carry'[q] = carry[q] /\ differs'[q] = differs[q]
                               /\ stale'[q] = stale[q]

(* It is at rest or goes on to an ack or a checkpoint, with no transaction. *)
AtRest(p) ==
  \/ pc'[p] = "idle" /\ job'[p] = NoJob
  \/ /\ pc'[p] \in Settled \ {"idle"} /\ job'[p] = job[p]
     /\ pc'[p] \in {"ack", "park"} <=> job[p].kind = "ingest"
Leaves(p) ==
  /\ PlaceFrame(p) /\ WalkFrame(p) /\ AtRest(p) /\ nextId' = nextId
  /\ lock' = lock \ {p} /\ draft'[p] = {} /\ differs'[p] = {} /\ carry'[p] = Genesis
  /\ todo'[p] = {} /\ stale'[p] = {}

LEMMA Outsiders ==
  ASSUME TypeOK, LockInv, NEW p \in Procs, pc[p] \notin Locked, UNCHANGED <<lock, walk, nextId>>,
         PlaceFrame(p), AtRest(p)
  PROVE  Leaves(p)
<1>1. /\ p \notin lock /\ draft[p] = {} /\ differs[p] = {} /\ carry[p] = Genesis
      /\ todo[p] = {} /\ stale[p] = {}
  BY Zenon DEF LockInv, Locked
<1>2. lock' = lock \ {p}
  BY Zenon, <1>1 DEF walk
<1> QED BY Zenon, <1>1, <1>2 DEF Leaves, WalkFrame, TypeOK, walk

LEMMA FinishRests ==
  ASSUME TypeOK, NEW p \in Procs, Finish(p)
  PROVE  PlaceFrame(p) /\ AtRest(p) /\ pc'[p] = "idle" /\ job'[p] = NoJob
<1>1. NoJob \in Jobs
  BY DEF NoJob, Jobs, Actors
<1>2. /\ pc' = [pc EXCEPT ![p] = "idle"] /\ job' = [job EXCEPT ![p] = NoJob]
      /\ seen' = [seen EXCEPT ![p] = {}]
  BY Zenon DEF Finish, Move
<1>3. pc \in [Procs -> Stages] /\ job \in [Procs -> Jobs] /\ DOMAIN seen = Procs /\ "idle" \in Stages
  BY DEF TypeOK, Stages
<1> QED BY ONLY Zenon, p \in Procs, <1>1, <1>2, <1>3 DEF PlaceFrame, AtRest

LEMMA KeepPlaces ==
  ASSUME TypeOK, NEW p \in Procs, NEW stage \in Stages, Keep(p, stage)
  PROVE  PlaceFrame(p) /\ pc'[p] = stage /\ job' = job
<1>1. pc' = [pc EXCEPT ![p] = stage] /\ job' = job /\ seen' = seen
  BY Zenon DEF Keep, Move
<1>2. pc \in [Procs -> Stages] /\ job \in [Procs -> Jobs] /\ DOMAIN seen = Procs
  BY Zenon DEF TypeOK
<1> QED BY ONLY Zenon, p \in Procs, stage \in Stages, <1>1, <1>2 DEF PlaceFrame

LEMMA KeepRests ==
  ASSUME TypeOK, NEW p \in Procs, NEW stage \in Settled \ {"idle"}, Keep(p, stage),
         stage \in {"ack", "park"} <=> job[p].kind = "ingest"
  PROVE  PlaceFrame(p) /\ AtRest(p)
<1>1. stage \in Stages
  BY DEF Settled, Signing, Stages
<1>2. PlaceFrame(p) /\ pc'[p] = stage /\ job' = job
  BY ONLY Zenon, TypeOK, p \in Procs, Keep(p, stage), <1>1, KeepPlaces
<1> QED BY <1>2 DEF AtRest

LEMMA ReportRests ==
  ASSUME TypeOK, NEW p \in Procs, Report(p)
  PROVE  PlaceFrame(p) /\ AtRest(p)
<1>1. CASE Finish(p)
  BY Zenon, <1>1, FinishRests
<1>2. CASE job[p].kind = "ingest" /\ Keep(p, "park")
  BY Zenon, <1>2, KeepRests DEF Settled, Signing
<1> QED BY Zenon, <1>1, <1>2 DEF Report

LEMMA EndTxWalks ==
  ASSUME TypeOK, NEW p \in Procs, EndTx(p)
  PROVE  /\ WalkFrame(p) /\ lock' = lock \ {p} /\ draft'[p] = {}
         /\ differs'[p] = {} /\ carry'[p] = Genesis /\ todo'[p] = {} /\ stale'[p] = {}
<1>1. /\ WalkFrame(p) /\ lock' = lock \ {p} /\ draft'[p] = {} /\ differs'[p] = {}
  BY Zenon DEF EndTx, TypeOK, WalkFrame
<1>2. carry'[p] = Genesis /\ todo'[p] = {} /\ stale'[p] = {}
  BY Zenon DEF EndTx, TypeOK
<1> QED BY ONLY Zenon, <1>1, <1>2

LEMMA LeavesTx ==
  ASSUME TypeOK, NEW p \in Procs, EndTx(p), nextId' = nextId, PlaceFrame(p), AtRest(p)
  PROVE  Leaves(p)
  BY Zenon, EndTxWalks DEF Leaves

(* The steps that leave the table alone and end outside a transaction. *)
Quiet(p) ==
  \/ Ack(p) \/ Park(p) \/ Fail(p) \/ Crash(p) \/ EraseNothing(p) \/ RebaseRefuse(p)
  \/ RebaseNothing(p) \/ ListAll(p) \/ LatestCheckpoint(p) \/ HeadAndCount(p)
  \/ InsertCheckpoint(p)

LEMMA QuietLeaves ==
  ASSUME TypeOK, LockInv, JobInv, NEW p \in Procs, Quiet(p)
  PROVE  Leaves(p) /\ UNCHANGED <<rows, altered, raced>>
<1>1. CASE Ack(p)
  <2>1. pc[p] \notin Locked /\ UNCHANGED <<lock, walk, nextId, rows, altered, raced>> /\ Finish(p)
    BY Zenon, <1>1 DEF Ack, Locked, chain
  <2> QED BY ONLY Zenon, TypeOK, LockInv, p \in Procs, <2>1, FinishRests, Outsiders
<1>2. CASE Park(p)
  <2>1. /\ pc[p] = "park" /\ UNCHANGED <<lock, walk, nextId, rows, altered, raced>>
        /\ Finish(p) \/ Keep(p, "ack")
    BY Zenon, <1>2 DEF Park, chain
  <2>2. PlaceFrame(p) /\ AtRest(p)
    BY Zenon, <2>1, FinishRests, KeepRests DEF JobInv, JobFits, Settled, Signing
  <2> QED BY Zenon, <2>1, <2>2, Outsiders DEF Locked
<1>3. CASE Fail(p)
  <2>1. EndTx(p) /\ Report(p) /\ UNCHANGED <<nextId, rows, altered, raced>>
    BY Zenon, <1>3 DEF Fail, chain
  <2> QED BY ONLY Zenon, TypeOK, p \in Procs, <2>1, ReportRests, LeavesTx
<1>4. CASE Crash(p)
  <2>1. EndTx(p) /\ Finish(p) /\ UNCHANGED <<nextId, rows, altered, raced>>
    BY Zenon, <1>4 DEF Crash, chain
  <2> QED BY ONLY Zenon, TypeOK, p \in Procs, <2>1, FinishRests, LeavesTx
<1>5. CASE EraseNothing(p)
  <2>1. pc[p] \notin Locked /\ UNCHANGED <<lock, walk, nextId, rows, altered, raced>> /\ Finish(p)
    BY Zenon, <1>5 DEF EraseNothing, Locked, chain
  <2> QED BY ONLY Zenon, TypeOK, LockInv, p \in Procs, <2>1, FinishRests, Outsiders
<1>6. CASE RebaseRefuse(p)
  <2>1. EndTx(p) /\ Finish(p) /\ UNCHANGED <<nextId, rows, altered, raced>>
    BY Zenon, <1>6 DEF RebaseRefuse, chain
  <2> QED BY ONLY TypeOK, p \in Procs, <2>1, FinishRests, LeavesTx
<1>7. CASE RebaseNothing(p)
  <2>1. EndTx(p) /\ Keep(p, "resign") /\ UNCHANGED <<nextId, rows, altered, raced>> /\ job[p].kind = "rebase"
    BY Zenon, <1>7 DEF RebaseNothing, Walked, chain
  <2>2. PlaceFrame(p) /\ AtRest(p)
    BY ONLY Zenon, TypeOK, p \in Procs, <2>1, KeepRests DEF Settled, Signing
  <2> QED BY ONLY Zenon, TypeOK, p \in Procs, <2>1, <2>2, LeavesTx
<1>8. CASE ListAll(p)
  <2>1. /\ pc[p] \notin Locked /\ UNCHANGED <<lock, walk, nextId, rows, altered, raced>>
        /\ job[p].kind # "ingest"
    BY Zenon, <1>8 DEF ListAll, Locked, chain, JobInv, JobFits, Signing
  <2>2. CASE Finish(p)
    BY ONLY Zenon, TypeOK, LockInv, p \in Procs, <2>1, <2>2, FinishRests, Outsiders
  <2>3. CASE Move(p, "vouch") /\ seen' = [seen EXCEPT ![p] = rows] /\ job' = job
    <3>1. PlaceFrame(p) /\ pc'[p] = "vouch"
      BY Zenon, <2>3 DEF TypeOK, PlaceFrame, Move, Stages
    <3>2. AtRest(p)
      BY Zenon, <2>1, <2>3, <3>1 DEF AtRest, Settled, Signing
    <3> QED BY ONLY Zenon, TypeOK, LockInv, p \in Procs, <2>1, <3>1, <3>2, Outsiders
  <2> QED BY Zenon, <1>8, <2>2, <2>3 DEF ListAll
<1>9. CASE LatestCheckpoint(p)
  <2>1. /\ pc[p] \notin Locked /\ UNCHANGED <<lock, walk, nextId, rows, altered, raced>>
        /\ Finish(p) \/ Keep(p, "head")
        /\ job[p].kind # "ingest"
    BY Zenon, <1>9 DEF LatestCheckpoint, Locked, chain, JobInv, JobFits, Signing
  <2>2. PlaceFrame(p) /\ AtRest(p)
    BY ONLY Zenon, TypeOK, p \in Procs, <2>1, FinishRests, KeepRests DEF Settled, Signing
  <2> QED BY ONLY Zenon, TypeOK, LockInv, p \in Procs, <2>1, <2>2, Outsiders
<1>10. CASE HeadAndCount(p)
  <2>1. /\ pc[p] \notin Locked /\ UNCHANGED <<lock, walk, nextId, rows, altered, raced>>
        /\ job[p].kind # "ingest"
    BY ZenonT(60), <1>10 DEF HeadAndCount, Locked, chain, JobInv, JobFits, Signing
  <2>2. CASE Finish(p)
    BY ONLY TypeOK, LockInv, p \in Procs, <2>1, <2>2, FinishRests, Outsiders
  <2>3. CASE /\ Move(p, "sign") /\ job' = job
             /\ \E s : seen' = [seen EXCEPT ![p] = s]
    <3>1. PlaceFrame(p) /\ pc'[p] = "sign"
      BY Zenon, <2>3 DEF TypeOK, PlaceFrame, Move, Stages
    <3>2. AtRest(p)
      BY Zenon, <2>1, <2>3, <3>1 DEF AtRest, Settled, Signing
    <3> QED BY ONLY ZenonT(60), TypeOK, LockInv, p \in Procs, <2>1, <3>1, <3>2, Outsiders
  <2> QED BY Zenon, <1>10, <2>2, <2>3 DEF HeadAndCount
<1>11. CASE InsertCheckpoint(p)
  <2>1. pc[p] \notin Locked /\ UNCHANGED <<lock, walk, nextId, rows, altered, raced>> /\ Finish(p)
    BY <1>11 DEF InsertCheckpoint, Locked
  <2> QED BY ONLY TypeOK, LockInv, p \in Procs, <2>1, FinishRests, Outsiders
<1> QED BY ZenonT(60), <1>1, <1>2, <1>3, <1>4, <1>5, <1>6, <1>7, <1>8, <1>9, <1>10, <1>11 DEF Quiet

LEMMA CommitLeaves ==
  ASSUME TypeOK, NEW p \in Procs, Commits(p)
  PROVE  Leaves(p) /\ altered' = altered /\ raced' = raced /\ pc[p] \in Locked
<1>1. CASE AppendCommit(p)
  <2>1. /\ EndTx(p) /\ UNCHANGED <<nextId, altered, raced>> /\ pc[p] \in Locked
        /\ Finish(p) \/ Report(p) \/ (job[p].kind = "ingest" /\ Keep(p, "ack"))
    BY Zenon, <1>1 DEF AppendCommit, Locked
  <2>2. PlaceFrame(p) /\ AtRest(p)
    BY ONLY Zenon, TypeOK, p \in Procs, <2>1, FinishRests, ReportRests, KeepRests DEF Settled, Signing
  <2> QED BY ONLY Zenon, TypeOK, p \in Procs, <2>1, <2>2, LeavesTx
<1>2. CASE EraseCommit(p)
  <2>1. /\ EndTx(p) /\ UNCHANGED <<nextId, altered, raced>> /\ pc[p] \in Locked
        /\ Finish(p) \/ Keep(p, "head")
        /\ job[p].kind = "erase"
    BY Zenon, <1>2 DEF EraseCommit, Walked, Locked
  <2>2. PlaceFrame(p) /\ AtRest(p)
    BY ONLY Zenon, TypeOK, p \in Procs, <2>1, FinishRests, KeepRests DEF Settled, Signing
  <2> QED BY ONLY Zenon, TypeOK, p \in Procs, <2>1, <2>2, LeavesTx
<1>3. CASE RebaseCommit(p)
  <2>1. EndTx(p) /\ UNCHANGED <<nextId, altered, raced>> /\ pc[p] \in Locked /\ Finish(p)
    BY Zenon, <1>3 DEF RebaseCommit, Walked, Locked
  <2> QED BY ONLY Zenon, TypeOK, p \in Procs, <2>1, FinishRests, LeavesTx
<1> QED BY Zenon, <1>1, <1>2, <1>3 DEF Commits


-----------------------------------------------------------------------------
(* How requests begin, and how transactions take the lock *)

(* A request or a delivery begins, with an id of its own. *)
Begins(p) ==
  /\ PlaceFrame(p) /\ pc[p] = "idle" /\ UNCHANGED <<rows, altered, raced, lock, walk>>
  /\ nextId' = nextId + 1
  /\ \/ pc'[p] = "append" /\ job'[p].kind \in {"ingest", "denied"}
     \/ pc'[p] = "erase" /\ job'[p].kind = "erase"
     \/ pc'[p] = "rebase" /\ job'[p].kind = "rebase"
     \/ pc'[p] = "head" /\ job'[p].kind = "checkpoint"
  /\ job'[p].id = nextId /\ (pc'[p] # "head" => job'[p].at >= Cutover)
  /\ job'[p].kind \in {"erase", "rebase"} => job'[p].by = "other" /\ job'[p].of = "none"
  /\ job'[p].last => job'[p].kind = "ingest"
  /\ job'[p].kind = "ingest" => job'[p].of \in Messages

Asks(p) ==
  \/ RecordAccessDenied(p) \/ AnonymizeSubject(p) \/ Rebaseline(p) \/ CreateCheckpoint(p)
  \/ \E m \in Messages : Deliver(p, m)

LEMMA StartPlaces ==
  ASSUME TypeOK, NEW p \in Procs, NEW stage \in Stages, NEW e \in Jobs, Start(p, stage, e)
  PROVE  /\ PlaceFrame(p) /\ pc[p] = "idle" /\ UNCHANGED <<rows, altered, raced, lock, walk>>
         /\ nextId' = nextId + 1 /\ pc'[p] = stage /\ job'[p] = e
<1>1. /\ pc' = [pc EXCEPT ![p] = stage] /\ job' = [job EXCEPT ![p] = e] /\ seen' = seen
      /\ pc[p] = "idle" /\ nextId' = nextId + 1 /\ UNCHANGED <<rows, altered, raced, lock, walk>>
  BY Zenon DEF Start, Move, chain
<1>2. pc \in [Procs -> Stages] /\ job \in [Procs -> Jobs] /\ DOMAIN seen = Procs
  BY Zenon DEF TypeOK
<1>3. PlaceFrame(p)
  BY ONLY Zenon, p \in Procs, stage \in Stages, e \in Jobs, <1>1, <1>2 DEF PlaceFrame
<1> QED BY ONLY Zenon, p \in Procs, <1>1, <1>2, <1>3

LEMMA AsksBegin ==
  ASSUME TypeOK, NEW p \in Procs, Asks(p)
  PROVE  Begins(p)
<1>0. /\ By \in [Messages -> Actors] /\ Denied \subseteq Actors /\ "other" \in Actors
      /\ \A at \in Clock : at \in Nat /\ at >= Cutover
      /\ nextId \in Nat
  BY Zenon, AuditAssumption DEF Actors, TypeOK
<1>1. CASE RecordAccessDenied(p)
  <2>1. PICK by \in Denied, at \in Clock : Start(p, "append", Job("denied", FALSE, "none", by, at))
    BY <1>1, Zenon DEF RecordAccessDenied, Ask
  <2> DEFINE e == Job("denied", FALSE, "none", by, at)
  <2>2. /\ e \in Jobs /\ e.kind = "denied" /\ e.last = FALSE /\ e.at = at /\ e.id = nextId
    BY <1>0 DEF Job, Jobs
  <2> HIDE DEF e
  <2>3. /\ PlaceFrame(p) /\ pc[p] = "idle" /\ UNCHANGED <<rows, altered, raced, lock, walk>>
        /\ nextId' = nextId + 1 /\ pc'[p] = "append" /\ job'[p] = e
    BY <2>1, <2>2, StartPlaces, Zenon DEF e, Stages
  <2> QED BY ONLY Zenon, <1>0, <2>2, <2>3, at \in Clock DEF Begins
<1>2. CASE AnonymizeSubject(p)
  <2>1. PICK at \in Clock : Start(p, "erase", Job("erase", FALSE, "none", "other", at))
    BY <1>2, Zenon DEF AnonymizeSubject, Ask
  <2> DEFINE e == Job("erase", FALSE, "none", "other", at)
  <2>2. /\ e \in Jobs /\ e.kind = "erase" /\ e.last = FALSE /\ e.at = at /\ e.id = nextId
        /\ e.by = "other" /\ e.of = "none"
    BY <1>0 DEF Job, Jobs
  <2> HIDE DEF e
  <2>3. /\ PlaceFrame(p) /\ pc[p] = "idle" /\ UNCHANGED <<rows, altered, raced, lock, walk>>
        /\ nextId' = nextId + 1 /\ pc'[p] = "erase" /\ job'[p] = e
    BY <2>1, <2>2, StartPlaces, ZenonT(60) DEF e, Stages
  <2> QED BY ONLY Zenon, <1>0, <2>2, <2>3, at \in Clock DEF Begins
<1>3. CASE Rebaseline(p)
  <2>1. PICK at \in Clock : Start(p, "rebase", Job("rebase", FALSE, "none", "other", at))
    BY <1>3, Zenon DEF Rebaseline, Ask
  <2> DEFINE e == Job("rebase", FALSE, "none", "other", at)
  <2>2. /\ e \in Jobs /\ e.kind = "rebase" /\ e.last = FALSE /\ e.at = at /\ e.id = nextId
        /\ e.by = "other" /\ e.of = "none"
    BY <1>0 DEF Job, Jobs
  <2> HIDE DEF e
  <2>3. /\ PlaceFrame(p) /\ pc[p] = "idle" /\ UNCHANGED <<rows, altered, raced, lock, walk>>
        /\ nextId' = nextId + 1 /\ pc'[p] = "rebase" /\ job'[p] = e
    BY <2>1, <2>2, StartPlaces, ZenonT(60) DEF e, Stages
  <2> QED BY ONLY <1>0, <2>2, <2>3, at \in Clock DEF Begins
<1>4. CASE CreateCheckpoint(p)
  <2> DEFINE e == Job("checkpoint", FALSE, "none", "other", 0)
  <2>1. Start(p, "head", e)
    BY <1>4, Zenon DEF CreateCheckpoint, Ask
  <2>2. e \in Jobs /\ e.kind = "checkpoint" /\ e.last = FALSE /\ e.id = nextId
    BY Zenon, <1>0 DEF Job, Jobs
  <2> HIDE DEF e
  <2>3. /\ PlaceFrame(p) /\ pc[p] = "idle" /\ UNCHANGED <<rows, altered, raced, lock, walk>>
        /\ nextId' = nextId + 1 /\ pc'[p] = "head" /\ job'[p] = e
    BY Zenon, <2>1, <2>2, StartPlaces DEF Stages
  <2> QED BY ONLY <2>2, <2>3 DEF Begins
<1>5. CASE \E m \in Messages : Deliver(p, m)
  <2>1. PICK m \in Messages, at \in Clock :
          Start(p, "append", Job("ingest", num[m] + 1 >= MaxDeliver, m, By[m], at))
    BY Zenon, <1>5 DEF Deliver
  <2> DEFINE e == Job("ingest", num[m] + 1 >= MaxDeliver, m, By[m], at)
  <2>2. e \in Jobs /\ e.kind = "ingest" /\ e.at = at /\ e.id = nextId /\ e.of = m
    <3>1. (num[m] + 1 >= MaxDeliver) \in BOOLEAN /\ By[m] \in Actors
      BY <1>0
    <3> QED BY Zenon, <1>0, <3>1 DEF Job, Jobs
  <2> HIDE DEF e
  <2>3. /\ PlaceFrame(p) /\ pc[p] = "idle" /\ UNCHANGED <<rows, altered, raced, lock, walk>>
        /\ nextId' = nextId + 1 /\ pc'[p] = "append" /\ job'[p] = e
    BY Zenon, <2>1, <2>2, StartPlaces DEF e, Stages
  <2> QED BY ONLY Zenon, <1>0, <2>2, <2>3, at \in Clock DEF Begins
<1> QED BY ZenonT(60), <1>1, <1>2, <1>3, <1>4, <1>5 DEF Asks

(* A process takes the lock, or takes one more event of its walk. *)
Takes(p) ==
  /\ PlaceFrame(p) /\ WalkFrame(p) /\ UNCHANGED <<rows, altered, raced, nextId, job>>
  /\ lock = {} /\ lock' = {p}
  /\ stale' = stale /\ (pc'[p] # "rechain" => todo' = todo)
  /\ \/ pc[p] = "append" /\ pc'[p] = "insert"
     \/ pc[p] = "erase" /\ pc'[p] = "redact"
     \/ pc[p] = "rebase" /\ pc'[p] = "rechain"

LEMMA LockTaken ==
  ASSUME TypeOK, NEW p \in Procs,
         AppendChained(p) \/ AnonymizeAndRechain(p) \/ RebaselineChain(p)
  PROVE  Takes(p)
<1>1. CASE AppendChained(p)
  <2>1. /\ pc[p] = "append" /\ LockChain(p) /\ Keep(p, "insert")
        /\ UNCHANGED <<rows, altered, raced, nextId, stale, todo>>
    BY Zenon, <1>1 DEF AppendChained, chain
  <2>2. WalkFrame(p)
    BY Zenon, <1>1 DEF AppendChained, TypeOK, WalkFrame
  <2>3. PlaceFrame(p) /\ pc'[p] = "insert" /\ job' = job
    BY ONLY Zenon, TypeOK, p \in Procs, <2>1, KeepPlaces DEF Stages
  <2> QED BY Zenon, <2>1, <2>2, <2>3 DEF Takes, LockChain
<1>2. CASE AnonymizeAndRechain(p)
  <2>1. /\ pc[p] = "erase" /\ LockChain(p) /\ Keep(p, "redact")
        /\ UNCHANGED <<rows, altered, raced, nextId, stale, todo>>
    BY Zenon, <1>2 DEF AnonymizeAndRechain, chain, walk
  <2>2. WalkFrame(p)
    BY Zenon, <1>2 DEF AnonymizeAndRechain, TypeOK, WalkFrame, walk
  <2>3. PlaceFrame(p) /\ pc'[p] = "redact" /\ job' = job
    BY ONLY Zenon, TypeOK, p \in Procs, <2>1, KeepPlaces DEF Stages
  <2> QED BY Zenon, <2>1, <2>2, <2>3 DEF Takes, LockChain
<1>3. CASE RebaselineChain(p)
  <2>1. /\ pc[p] = "rebase" /\ LockChain(p) /\ Keep(p, "rechain")
        /\ UNCHANGED <<rows, altered, raced, nextId, stale>>
    BY Zenon, <1>3 DEF RebaselineChain, chain
  <2>2. WalkFrame(p)
    BY Zenon, <1>3 DEF RebaselineChain, TypeOK, WalkFrame
  <2>3. PlaceFrame(p) /\ pc'[p] = "rechain" /\ job' = job
    BY ONLY Zenon, TypeOK, p \in Procs, <2>1, KeepPlaces DEF Stages
  <2> QED BY Zenon, <2>1, <2>2, <2>3 DEF Takes, LockChain
<1> QED BY Zenon, <1>1, <1>2, <1>3

Walks(p) ==
  /\ PlaceFrame(p) /\ WalkFrame(p) /\ UNCHANGED <<rows, altered, raced, nextId, job, lock>>
  /\ stale' = stale /\ pc[p] \in {"redact", "rechain"} /\ pc'[p] = "rechain"

(* The steps of a rewrite between its lock and its commit. *)
Walkers(p) == RedactSubject(p) \/ Rechain(p)

LEMMA WalkersWalk ==
  ASSUME TypeOK, NEW p \in Procs, Walkers(p)
  PROVE  Walks(p)
<1>1. /\ pc[p] \in {"redact", "rechain"} /\ Keep(p, "rechain")
      /\ UNCHANGED <<rows, altered, raced, nextId, lock, stale>>
  BY Zenon DEF Walkers, RedactSubject, Rechain, chain
<1>2. PlaceFrame(p) /\ pc'[p] = "rechain" /\ job' = job
  BY ONLY Zenon, TypeOK, p \in Procs, <1>1, KeepPlaces DEF Stages
<1>3. WalkFrame(p)
  BY Zenon DEF Walkers, RedactSubject, Rechain, TypeOK, WalkFrame
<1> QED BY Zenon, <1>1, <1>2, <1>3 DEF Walks

-----------------------------------------------------------------------------
(* The lock, the jobs and the ids *)

Moves(p) == Leaves(p) \/ Begins(p) \/ Takes(p) \/ Walks(p)

LEMMA LockKept ==
  ASSUME TypeOK, LockInv, NEW p \in Procs, Moves(p)
  PROVE  LockInv'
<1> USE DEF LockInv, PlaceFrame, WalkFrame
<1>0. lock \subseteq Procs
  BY Zenon DEF TypeOK
<1>1. CASE Leaves(p)
  <2>1. pc'[p] \notin Locked
    BY Zenon, <1>1 DEF Leaves, AtRest, Settled, Signing, Locked
  <2> QED BY Zenon, <1>0, <1>1, <2>1 DEF Leaves
<1>2. CASE Begins(p)
  <2>1. pc'[p] \notin Locked /\ pc[p] \notin Locked
    BY Zenon, <1>2 DEF Begins, Locked
  <2> QED BY Zenon, <1>0, <1>2, <2>1 DEF Begins, walk
<1>3. CASE Takes(p)
  <2>1. pc'[p] \in Locked
    BY Zenon, <1>3 DEF Takes, Locked
  <2> QED BY Zenon, <1>0, <1>3, <2>1 DEF Takes
<1>4. CASE Walks(p)
  <2>1. pc'[p] \in Locked /\ pc[p] \in Locked
    BY Zenon, <1>4 DEF Walks, Locked
  <2> QED BY Zenon, <1>0, <1>4, <2>1 DEF Walks
<1> QED BY Zenon, <1>1, <1>2, <1>3, <1>4 DEF Moves

LEMMA JobKept ==
  ASSUME JobInv, NEW p \in Procs, Moves(p)
  PROVE  JobInv'
<1>1. \A q \in Procs : JobFits(pc[q], job[q])
  BY Zenon DEF JobInv
<1>2. \A q \in Procs : q # p => pc'[q] = pc[q] /\ job'[q] = job[q]
  BY Zenon DEF Moves, Leaves, Begins, Takes, Walks, PlaceFrame
<1>3. JobFits(pc'[p], job'[p])
  <2>1. CASE Leaves(p)
    <3>1. CASE pc'[p] = "idle" /\ job'[p] = NoJob
      BY <3>1 DEF JobFits, NoJob
    <3>2. CASE /\ pc'[p] \in Settled \ {"idle"} /\ job'[p] = job[p]
               /\ pc'[p] \in {"ack", "park"} <=> job[p].kind = "ingest"
      <4>1. /\ job[p].kind \in {"erase", "rebase"} => job[p].by = "other" /\ job[p].of = "none"
            /\ job[p].last => job[p].kind = "ingest"
            /\ job[p].kind = "ingest" => job[p].of \in Messages
        BY Zenon, <1>1 DEF JobFits
      <4> QED BY ONLY Zenon, <3>2, <4>1 DEF JobFits, Settled, Signing
    <3> QED BY ZenonT(60), <2>1, <3>1, <3>2 DEF Leaves, AtRest
  <2>2. CASE Begins(p)
    BY ONLY Zenon, <2>2 DEF Begins, JobFits, Signing
  <2>3. CASE Takes(p)
    <3>1. JobFits(pc[p], job[p]) /\ job'[p] = job[p]
      BY Zenon, <1>1, <2>3 DEF Takes
    <3> QED BY ONLY Zenon, <2>3, <3>1 DEF Takes, JobFits, Signing
  <2>4. CASE Walks(p)
    <3>1. JobFits(pc[p], job[p]) /\ job'[p] = job[p]
      BY Zenon, <1>1, <2>4 DEF Walks
    <3> QED BY ONLY Zenon, <2>4, <3>1 DEF Walks, JobFits, Signing
  <2> QED BY Zenon, <2>1, <2>2, <2>3, <2>4 DEF Moves
<1>4. \A q \in Procs : JobFits(pc'[q], job'[q])
  BY Zenon, <1>1, <1>2, <1>3
<1> QED BY ONLY Zenon, <1>4 DEF JobInv

(* Only a commit adds a row, under the id its process was given. *)
LEMMA IdKept ==
  ASSUME TypeOK, RowsInv, IdInv, NEW p \in Procs, Moves(p),
         \A i \in Ids(rows') : i \in Ids(rows) \/ (Leaves(p) /\ pc[p] \in Unplaced /\ i = job[p].id)
  PROVE  IdInv'
<1> DEFINE Fresh(q) == /\ job[q].id < nextId /\ job[q].id \notin Ids(rows) /\ job[q].at >= Cutover
                       /\ \A u \in Procs : pc[u] \in Unplaced /\ job[u].id = job[q].id => u = q
<1>1. \A q \in Procs : pc[q] \in Unplaced => Fresh(q)
  BY Zenon DEF IdInv
<1>2. \A q \in Procs : q # p => pc'[q] = pc[q] /\ job'[q] = job[q]
  BY Zenon DEF Moves, Leaves, Begins, Takes, Walks, PlaceFrame
<1>3. nextId \in Nat /\ (\A q \in Procs : job[q].id \in Nat)
  BY Zenon DEF TypeOK, Jobs
<1>4. \A i \in Ids(rows) : i < nextId /\ i \in Nat
  BY Zenon DEF RowsInv, Sane, Table, RowOK, Ids
<1>5. CASE Leaves(p)
  <2>1. pc'[p] \notin Unplaced /\ nextId' = nextId
    BY Zenon, <1>5 DEF Leaves, AtRest, Settled, Signing, Unplaced
  <2>2. ASSUME NEW q \in Procs, pc'[q] \in Unplaced
        PROVE  q # p /\ job'[q] = job[q] /\ pc[q] \in Unplaced /\ Fresh(q)
    BY Zenon, <1>1, <1>2, <2>1, <2>2
  <2>3. ASSUME NEW q \in Procs, pc'[q] \in Unplaced
        PROVE  job[q].id \notin Ids(rows')
    <3>1. pc[p] \in Unplaced => job[q].id # job[p].id
      BY Zenon, <2>2, <2>3
    <3> QED BY Zenon, <2>2, <2>3, <3>1
  <2> QED BY Zenon, <2>1, <2>2, <2>3 DEF IdInv
<1>6. CASE Begins(p)
  <2>1. /\ nextId' = nextId + 1 /\ rows' = rows /\ job'[p].id = nextId
        /\ pc'[p] \in Unplaced => job'[p].at >= Cutover
    BY Zenon, <1>6 DEF Begins, Unplaced
  <2>2. \A q \in Procs : q # p /\ pc'[q] \in Unplaced => job'[q].id < nextId /\ job'[q].id \in Nat
    BY Zenon, <1>1, <1>2, <1>3
  <2>3. ASSUME NEW q \in Procs, pc'[q] \in Unplaced
        PROVE  /\ job'[q].id < nextId' /\ job'[q].id \notin Ids(rows') /\ job'[q].at >= Cutover
               /\ \A u \in Procs : pc'[u] \in Unplaced /\ job'[u].id = job'[q].id => u = q
    <3>0. nextId \in Nat
      BY Zenon, <1>3
    <3>1. CASE q = p
      <4>1. job'[q].id < nextId' /\ \A i \in Ids(rows) : i # job'[q].id
        BY ONLY <1>4, <2>1, <3>0, <3>1
      <4>2. ASSUME NEW u \in Procs, pc'[u] \in Unplaced, job'[u].id = job'[q].id PROVE u = q
        <5>1. CASE u # p
          <6>1. job'[u].id < nextId /\ job'[u].id \in Nat /\ job'[u].id = nextId
            BY Zenon, <2>1, <2>2, <3>1, <4>2, <5>1
          <6> QED BY ONLY <3>0, <6>1
        <5> QED BY Zenon, <3>1, <5>1
      <4> QED BY ZenonT(60), <2>1, <2>3, <3>1, <4>1, <4>2
    <3>2. CASE q # p
      <4>1. job'[q] = job[q] /\ pc[q] \in Unplaced /\ Fresh(q)
        BY Zenon, <1>1, <1>2, <2>3, <3>2
      <4>2. job'[q].id < nextId'
        <5>1. job'[q].id < nextId /\ job'[q].id \in Nat /\ nextId' = nextId + 1
          BY Zenon, <2>1, <2>2, <2>3, <3>2
        <5> QED BY ONLY <3>0, <5>1
      <4>3. ASSUME NEW u \in Procs, pc'[u] \in Unplaced, job'[u].id = job'[q].id PROVE u = q
        <5>1. CASE u = p
          <6>1. job'[q].id < nextId /\ job'[q].id \in Nat /\ job'[q].id = nextId
            BY Zenon, <2>1, <2>2, <2>3, <3>2, <4>3, <5>1
          <6> QED BY ONLY <3>0, <6>1
        <5>2. CASE u # p
          BY Zenon, <1>2, <4>1, <4>3, <5>2
        <5> QED BY Zenon, <5>1, <5>2
      <4> QED BY Zenon, <2>1, <4>1, <4>2, <4>3
    <3> QED BY Zenon, <3>1, <3>2
  <2> QED BY ONLY Zenon, <2>3 DEF IdInv
<1>7. CASE Takes(p) \/ Walks(p)
  <2>1. /\ nextId' = nextId /\ rows' = rows /\ job' = job
        /\ pc'[p] \in Unplaced => pc[p] \in Unplaced
    BY Zenon, <1>7 DEF Takes, Walks, Unplaced
  <2> QED BY Zenon, <1>1, <1>2, <2>1 DEF IdInv
<1> QED BY Zenon, <1>5, <1>6, <1>7 DEF Moves

-----------------------------------------------------------------------------
(* Transactions under way are not disturbed by others *)

LEMMA Alone ==
  ASSUME LockInv, NEW p \in Procs, NEW q \in Procs, pc[p] \in Locked, pc[q] \in Locked
  PROVE  p = q
  BY Zenon DEF LockInv

LEMMA InsertNext ==
  ASSUME TypeOK, LockInv, InsertInv, NEW p \in Procs, Moves(p), rows' = rows \/ Commits(p),
         Takes(p) /\ pc'[p] = "insert" => AppendChained(p)
  PROVE  InsertInv'
<1> SUFFICES ASSUME NEW q \in Procs, pc'[q] = "insert"
             PROVE  \E r \in appendInTx(rows', job'[q]) : draft'[q] = {r}
  BY Zenon DEF InsertInv, appendInTx, Heads, Before, Chained
<1>1. CASE q # p
  <2>1. pc[q] = "insert" /\ job'[q] = job[q] /\ draft'[q] = draft[q]
    BY Zenon, <1>1 DEF Moves, Leaves, Begins, Takes, Walks, PlaceFrame, WalkFrame, walk
  <2>2. rows' = rows
    <3>1. CASE Commits(p)
      <4>1. pc[p] \in Locked /\ pc[q] \in Locked
        BY Zenon, <2>1, <3>1, CommitLeaves DEF Locked
      <4> QED BY Zenon, <1>1, <4>1, Alone
    <3> QED BY Zenon, <3>1
  <2> QED BY Zenon, <2>1, <2>2 DEF InsertInv
<1>2. CASE q = p
  <2>1. Takes(p)
    BY Zenon, <1>2 DEF Moves, Leaves, Begins, Walks, AtRest, Settled, Signing
  <2>2. AppendChained(p) /\ rows' = rows /\ job' = job
    BY Zenon, <1>2, <2>1 DEF Takes
  <2>3. PICK r \in appendInTx(rows, job[p]) : draft' = [draft EXCEPT ![p] = {r}]
    BY <2>2, Zenon DEF AppendChained
  <2>4. draft'[p] = {r}
    BY Zenon, <2>3 DEF TypeOK
  <2> QED BY Zenon, <1>2, <2>2, <2>3, <2>4
<1> QED BY Zenon, <1>1, <1>2

LEMMA WalkOfNext ==
  ASSUME NEW q \in Procs, rows' = rows, altered' = altered, raced' = raced, job'[q] = job[q],
         WalkOf(q, Overlay(rows, draft'[q]), todo'[q], carry'[q], differs'[q], stale'[q])
  PROVE  WalkOf(q, View(q), todo[q], carry[q], differs[q], stale[q])'
<1>1. View(q)' = Overlay(rows, draft'[q])
  BY Zenon DEF View, Overlay, Ids
<1>2. Walk(View(q), todo[q], carry[q])'
  <2>0. Walk(Overlay(rows, draft'[q]), todo'[q], carry'[q])
    BY Zenon DEF WalkOf
  <2>1. Table(View(q))'
    BY Zenon, <1>1, <2>0 DEF Walk, Table, Distinct, RowOK
  <2>2. Last(View(q), todo[q], carry[q])'
    BY Zenon, <1>1, <2>0 DEF Walk, Last
  <2>3. \A v \in View(q)' : Modern(v)' /\ (v.id \notin todo'[q] => HashOK(v)')
    BY Zenon, <1>1, <2>0 DEF Walk, Modern, HashOK, PreFix, expectedHashFor
  <2>4. \A v \in View(q)' : v.id \notin todo'[q] => v.prev \in Preceding(View(q)', v)
    BY Zenon, <1>1, <2>0 DEF Walk
  <2>5. \A u, v \in View(q)' : u.id \notin todo'[q] /\ v.id \in todo'[q] => u.at < v.at
    BY Zenon, <1>1, <2>0 DEF Walk
  <2> QED BY <2>1, <2>2, <2>3, <2>4, <2>5, Zenon DEF Walk, Preceding, Heads, Before
<1>3. Mirrors(View(q), rows)'
  <2>1. Mirrors(Overlay(rows, draft'[q]), rows)
    BY Zenon DEF WalkOf
  <2>2. \A v \in View(q)' : \E r \in rows' : SameRow(v, r)'
    BY ONLY <1>1, <2>1, rows' = rows, Zenon DEF Mirrors, SameRow
  <2>3. \A r \in rows' : \E v \in View(q)' : SameRow(v, r)'
    <3>1. \A r \in rows : \E v \in Overlay(rows, draft'[q]) : SameRow(v, r)
      BY ONLY <2>1, Zenon DEF Mirrors
    <3>2. \A r, v : SameRow(v, r) => SameRow(v, r)'
      BY ONLY Zenon DEF SameRow
    <3> QED BY ONLY <1>1, <3>1, <3>2, rows' = rows, Zenon
  <2> QED BY ONLY <2>2, <2>3, Zenon DEF Mirrors
<1>4. job[q].kind = "erase" => EraseWalk(View(q), todo[q], stale[q])'
  BY Zenon, <1>1 DEF WalkOf, EraseWalk, Marked, Shown
<1>5. job[q].kind = "rebase" => RebaseWalk(View(q), todo[q], differs[q])'
  BY Zenon, <1>1 DEF WalkOf, RebaseWalk, Marked, Shown
<1>6. (stale[q] \subseteq altered)'
  BY Zenon DEF WalkOf
<1> QED BY Zenon, <1>2, <1>3, <1>4, <1>5, <1>6 DEF WalkOf

LEMMA WalkNext ==
  ASSUME TypeOK, LockInv, RowsInv, JobInv, RedactInv, WalkInv, NEW p \in Procs, Moves(p),
         (rows' = rows /\ altered' = altered /\ raced' = raced) \/ Commits(p),
         Takes(p) /\ pc'[p] = "rechain" => RebaselineChain(p),
         Walks(p) => Walkers(p)
  PROVE  WalkInv'
<1> SUFFICES ASSUME NEW q \in Procs, pc'[q] = "rechain"
             PROVE  WalkOf(q, View(q), todo[q], carry[q], differs[q], stale[q])'
  BY Zenon DEF WalkInv
<1>1. CASE q # p
  <2>1. /\ pc[q] = "rechain" /\ job'[q] = job[q] /\ draft'[q] = draft[q] /\ todo'[q] = todo[q]
        /\ carry'[q] = carry[q] /\ differs'[q] = differs[q] /\ stale'[q] = stale[q]
    BY Zenon, <1>1 DEF Moves, Leaves, Begins, Takes, Walks, PlaceFrame, WalkFrame, walk
  <2>2. rows' = rows /\ altered' = altered /\ raced' = raced
    <3>1. CASE Commits(p)
      <4>1. pc[p] \in Locked /\ pc[q] \in Locked
        BY Zenon, <2>1, <3>1, CommitLeaves DEF Locked
      <4> QED BY Zenon, <1>1, <4>1, Alone
    <3> QED BY Zenon, <3>1
  <2>3. WalkOf(q, Overlay(rows, draft'[q]), todo'[q], carry'[q], differs'[q], stale'[q])
    BY Zenon, <2>1 DEF WalkInv, View
  <2> QED BY Zenon, <2>1, <2>2, <2>3, WalkOfNext
<1>2. CASE q = p /\ Takes(p)
  <2>1. rows' = rows /\ altered' = altered /\ raced' = raced /\ job' = job /\ stale' = stale
    BY Zenon, <1>2 DEF Takes
  <2>2. RebaselineChain(p)
    BY Zenon, <1>2
  <2>3. /\ todo' = [todo EXCEPT ![p] = Ids(rows)] /\ UNCHANGED <<draft, carry, differs>>
        /\ pc[p] = "rebase"
    BY Zenon, <2>2 DEF RebaselineChain
  <2>4. p \notin lock /\ stale[p] = {}
    BY Zenon, <2>3 DEF LockInv, Locked
  <2>5. /\ todo'[p] = Ids(rows) /\ draft'[p] = {} /\ carry'[p] = Genesis /\ differs'[p] = {}
        /\ stale'[p] \subseteq altered
    BY Zenon, <2>1, <2>3, <2>4 DEF TypeOK, LockInv
  <2>6. Overlay(rows, draft'[p]) = rows
    BY Zenon, <2>5, OverlayNone
  <2>7. job[p].kind = "rebase"
    BY Zenon, <2>3 DEF JobInv, JobFits
  <2>8. WalkOf(p, Overlay(rows, draft'[p]), todo'[p], carry'[p], differs'[p], stale'[p])
    BY Zenon, <2>5, <2>6, <2>7, RebaseStarts DEF WalkOf
  <2> QED BY Zenon, <1>2, <2>1, <2>8, WalkOfNext
<1>3. CASE q = p /\ RedactSubject(p)
  <2>1. /\ pc[p] = "redact" /\ stale' = stale /\ job' = job
        /\ rows' = rows /\ altered' = altered /\ raced' = raced
    BY Zenon, <1>3 DEF RedactSubject, chain, Keep
  <2>2. PICK f \in First(Subjects) :
          /\ draft' = [draft EXCEPT ![p] = {Redacted(r) : r \in Subjects}]
          /\ todo' = [todo EXCEPT ![p] = Ids(From(f))]
          /\ \E h \in Preceding(rows, f) : carry' = [carry EXCEPT ![p] = h]
    BY <1>3, Zenon DEF RedactSubject
  <2> PICK h \in Preceding(rows, f) : carry' = [carry EXCEPT ![p] = h]
    BY <2>2, Zenon
  <2>3. /\ draft'[p] = {Redacted(r) : r \in Subjects} /\ todo'[p] = Ids(From(f)) /\ carry'[p] = h
    BY Zenon, <2>2 DEF TypeOK
  <2>4. job[p].kind = "erase" /\ stale'[p] = {}
    BY Zenon, <2>1 DEF JobInv, JobFits, LockInv
  <2>5. \A r \in rows : Reached(r) /\ r.at >= Cutover => r.id \notin Shown
    BY Zenon, <2>1 DEF RedactInv
  <2> DEFINE V == Overlay(rows, draft'[p])
  <2>6. V = Overlay(rows, {Redacted(r) : r \in Subjects})
    BY Zenon, <2>3
  <2> HIDE DEF V
  <2>7. Walk(V, Ids(From(f)), h) /\ Mirrors(V, rows) /\ EraseWalk(V, Ids(From(f)), stale'[p])
    BY Zenon, <2>5, <2>6, EraseStarts
  <2>8. WalkOf(p, V, todo'[p], carry'[p], differs'[p], stale'[p])
    BY Zenon, <2>3, <2>4, <2>7 DEF WalkOf
  <2> QED BY Zenon, <1>3, <2>1, <2>8, WalkOfNext DEF V
<1>4. CASE q = p /\ Rechain(p)
  <2>1. rows' = rows /\ altered' = altered /\ raced' = raced /\ job' = job
    BY Zenon, <1>4 DEF Rechain, chain, Keep
  <2> QED BY Zenon, <1>4, <2>1, RechainStep, WalkOfNext
<1>5. q = p => Takes(p) \/ RedactSubject(p) \/ Rechain(p)
  BY Zenon DEF Moves, Leaves, Begins, AtRest, Settled, Signing, Walkers
<1> QED BY Zenon, <1>1, <1>2, <1>3, <1>4, <1>5

LEMMA RedactNext ==
  ASSUME LockInv, RowsInv, RedactInv, TypeOK, NEW p \in Procs, Moves(p),
         (rows' = rows /\ altered' = altered /\ raced' = raced) \/ Commits(p),
         Takes(p) /\ pc'[p] = "redact" => AnonymizeAndRechain(p)
  PROVE  RedactInv'
<1> SUFFICES ASSUME NEW q \in Procs, pc'[q] = "redact"
             PROVE  (\A r \in rows : Reached(r) /\ r.at >= Cutover => r.id \notin Shown)'
  BY Zenon DEF RedactInv
<1>1. /\ rows' = rows /\ altered' = altered /\ raced' = raced
      /\ \A r \in rows : Reached(r) /\ r.at >= Cutover => r.id \notin Shown
  <2>1. CASE q # p
    <3>1. pc[q] = "redact"
      BY Zenon, <2>1 DEF Moves, Leaves, Begins, Takes, Walks, PlaceFrame
    <3>2. CASE Commits(p)
      <4>1. pc[p] \in Locked /\ pc[q] \in Locked
        BY Zenon, <3>1, <3>2, CommitLeaves DEF Locked
      <4> QED BY Zenon, <2>1, <4>1, Alone
    <3> QED BY Zenon, <3>1, <3>2 DEF RedactInv
  <2>2. CASE q = p
    <3>1. Takes(p)
      BY Zenon, <2>2 DEF Moves, Leaves, Begins, Walks, AtRest, Settled, Signing
    <3>2. /\ AnonymizeAndRechain(p) /\ rows' = rows /\ altered' = altered /\ raced' = raced
      BY Zenon, <2>2, <3>1 DEF Takes
    <3>3. PICK f \in First(Subjects) : Verified(f)
      BY Zenon, <3>2 DEF AnonymizeAndRechain
    <3> QED BY Zenon, <3>2, <3>3, FirstRead
  <2> QED BY Zenon, <2>1, <2>2
<1> QED BY Zenon, <1>1 DEF Reached, Before, Shown

-----------------------------------------------------------------------------
(* Types, and the stream *)

Counted ==
  /\ overtaken \subseteq Procs
  /\ num \in [Messages -> 0..MaxDeliver]
  /\ acked \subseteq Messages /\ parked \subseteq Messages /\ dropped \subseteq Messages
  /\ epoch \in Nat /\ requests \in 0..MaxRequests /\ faults \in 0..MaxFaults

LEMMA FaultTyped ==
  ASSUME faults \in 0..MaxFaults, faults' = faults \/ Fault
  PROVE  faults' \in 0..MaxFaults
  BY AuditAssumption DEF Fault

LEMMA QuietCounted ==
  ASSUME TypeOK, JobInv, NEW p \in Procs, Quiet(p)
  PROVE  Counted'
<1>0. Counted
  BY Zenon DEF TypeOK, Counted
<1>1. \/ UNCHANGED <<num, acked, parked, dropped>>
      \/ /\ job[p].of \in Messages /\ num' = num
         /\ acked' = acked \/ acked' = acked \cup {job[p].of}
         /\ parked' = parked \/ parked' = parked \cup {job[p].of}
         /\ dropped' = dropped \/ dropped' = dropped \cup {job[p].of}
  <2>1. CASE Ack(p) \/ Park(p)
    BY Zenon, <2>1 DEF Ack, Park, JobInv, JobFits
  <2>2. CASE Crash(p)
    <3>1. CASE job[p].last
      BY Zenon, <2>2, <3>1 DEF Crash, JobInv, JobFits
    <3>2. CASE ~job[p].last
      BY Zenon, <2>2, <3>2 DEF Crash
    <3> QED BY Zenon, <3>1, <3>2
  <2> QED BY Zenon, <2>1, <2>2 DEF Quiet, Fail, EraseNothing, RebaseRefuse, RebaseNothing, ListAll,
             LatestCheckpoint, HeadAndCount, InsertCheckpoint, broker
<1>2. epoch' = epoch /\ requests' = requests /\ overtaken' \subseteq Procs
  BY Zenon, <1>0 DEF Quiet, Ack, Park, Fail, Crash, EraseNothing, RebaseRefuse, RebaseNothing, ListAll,
             LatestCheckpoint, HeadAndCount, InsertCheckpoint, chain, Counted
<1>3. faults' = faults \/ Fault
  BY Zenon DEF Quiet, Ack, Park, Fail, Failure, Crash, EraseNothing, RebaseRefuse, RebaseNothing, ListAll,
         LatestCheckpoint, HeadAndCount, InsertCheckpoint
<1>4. faults' \in 0..MaxFaults
  BY Zenon, <1>0, <1>3, FaultTyped DEF Counted
<1> QED BY Zenon, <1>0, <1>1, <1>2, <1>4 DEF Counted

Takers(p) == AppendChained(p) \/ AnonymizeAndRechain(p) \/ RebaselineChain(p)

LEMMA OthersCounted ==
  ASSUME TypeOK, NEW p \in Procs, Commits(p) \/ Asks(p) \/ Takers(p) \/ Walkers(p)
  PROVE  Counted'
<1>0. Counted /\ MaxDeliver \in Nat \ {0} /\ MaxRequests \in Nat
  BY Zenon, AuditAssumption DEF TypeOK, Counted
<1>1. CASE Commits(p)
  <2>1. /\ UNCHANGED <<num, acked, parked, dropped, requests, overtaken>>
        /\ epoch' = epoch \/ epoch' = epoch + 1
        /\ faults' = faults \/ Fault
    BY Zenon, <1>1 DEF Commits, AppendCommit, EraseCommit, RebaseCommit, broker
  <2>2. faults' \in 0..MaxFaults
    BY ZenonT(60), <1>0, <2>1, FaultTyped DEF Counted
  <2> QED BY <1>0, <2>1, <2>2 DEF Counted
<1>2. CASE \E m \in Messages : Deliver(p, m)
  <2>1. PICK m \in Messages : /\ num[m] < MaxDeliver /\ num' = [num EXCEPT ![m] = @ + 1]
                              /\ UNCHANGED <<overtaken, acked, parked, dropped, requests, faults, epoch>>
    BY <1>2, Zenon DEF Deliver, Start, chain
  <2>2. num' \in [Messages -> 0..MaxDeliver]
    BY <1>0, <2>1 DEF Counted
  <2> QED BY <1>0, <2>1, <2>2 DEF Counted
<1>3. CASE \E stage, e : Ask(p, stage, e)
  <2>1. /\ Budget /\ requests' = requests + 1 /\ overtaken' = overtaken \ {p}
        /\ UNCHANGED <<num, acked, parked, dropped, faults, epoch>>
    BY Zenon, <1>3 DEF Ask, Start, chain, broker
  <2>2. requests' \in 0..MaxRequests
    BY <1>0, <2>1, AuditAssumption DEF Counted, Budget
  <2> QED BY Zenon, <1>0, <2>1, <2>2 DEF Counted
<1>4. CASE Takers(p) \/ Walkers(p)
  <2>1. UNCHANGED <<num, acked, parked, dropped, requests, overtaken, epoch, faults>>
    BY Zenon, <1>4 DEF Takers, Walkers, AppendChained, AnonymizeAndRechain, RebaselineChain,
                       RedactSubject, Rechain, chain, broker
  <2> QED BY Zenon, <1>0, <2>1 DEF Counted
<1>5. Asks(p) => (\E m \in Messages : Deliver(p, m)) \/ \E stage, e : Ask(p, stage, e)
  BY ZenonT(60) DEF Asks, RecordAccessDenied, AnonymizeSubject, Rebaseline, CreateCheckpoint
<1> QED BY ZenonT(60), <1>1, <1>2, <1>3, <1>4, <1>5

LEMMA TypeNext ==
  ASSUME TypeOK, RowsInv', Counted', NEW p \in Procs, Moves(p), altered' = altered
  PROVE  TypeOK'
<1>1. /\ pc' \in [Procs -> Stages] /\ job' \in [Procs -> Jobs] /\ DOMAIN seen' = Procs
  BY Zenon DEF Moves, Leaves, Begins, Takes, Walks, PlaceFrame
<1>2. DOMAIN draft' = Procs /\ DOMAIN todo' = Procs /\ DOMAIN carry' = Procs /\ DOMAIN differs' = Procs
  BY Zenon DEF Moves, Leaves, Begins, Takes, Walks, WalkFrame, walk, TypeOK
<1>7. DOMAIN stale' = Procs
  BY Zenon DEF Moves, Leaves, Begins, Takes, Walks, WalkFrame, walk, TypeOK
<1>3. lock' \subseteq Procs
  BY Zenon DEF Moves, Leaves, Begins, Takes, Walks, TypeOK
<1>4. nextId' \in Nat
  <2>1. nextId \in Nat
    BY Zenon DEF TypeOK
  <2>2. nextId' = nextId \/ nextId' = nextId + 1
    BY Zenon DEF Moves, Leaves, Begins, Takes, Walks
  <2> QED BY ONLY <2>1, <2>2
<1>5. altered' \subseteq Nat
  BY Zenon DEF TypeOK
<1>6. \A r \in rows' : /\ r.id \in Nat /\ r.at \in Nat /\ r.by \in Actors \cup {"REDACTED"}
                       /\ r.body \in {"stored", "altered"}
  BY DEF RowsInv, Sane, Table, RowOK
<1> QED BY <1>1, <1>2, <1>3, <1>4, <1>5, <1>6, <1>7 DEF TypeOK, Counted

Noted(m) == m \in parked' \/ \E r \in rows' : r.of = m

LEMMA RecordedNext ==
  ASSUME NEW m, Recorded(m), parked \subseteq parked', \A r \in rows : \E s \in rows' : s.of = r.of
  PROVE  Noted(m)
  BY DEF Recorded, Noted

(* The job of a last delivery goes only when the event is settled. *)
LEMMA LastKept ==
  ASSUME TypeOK, JobInv, StreamInv, NEW p \in Procs, job[p].last, Quiet(p) \/ Commits(p)
  PROVE  job'[p] = job[p] \/ Recorded(job[p].of) \/ job[p].of \in dropped'
<1>1. job[p].kind = "ingest" /\ pc[p] \notin {"erase", "redact", "rebase", "rechain"} \cup Signing
  BY Zenon DEF JobInv, JobFits
<1>2. Report(p) => job'[p] = job[p]
  BY Zenon, <1>1 DEF Report, Keep
<1>3. CASE Ack(p)
  BY Zenon, <1>3 DEF Ack, StreamInv
<1>4. CASE Park(p)
  BY Zenon, <1>4 DEF Park, Keep
<1>5. CASE Fail(p)
  BY Zenon, <1>2, <1>5 DEF Fail
<1>6. CASE Crash(p)
  <2>1. CASE pc[p] = "ack"
    BY Zenon, <2>1 DEF StreamInv
  <2>2. CASE pc[p] # "ack"
    BY Zenon, <1>6, <2>2 DEF Crash
  <2> QED BY Zenon, <2>1, <2>2
<1>7. CASE AppendCommit(p)
  BY Zenon, <1>1, <1>2, <1>7 DEF AppendCommit, Keep
<1> QED BY ZenonT(60), <1>1, <1>3, <1>4, <1>5, <1>6, <1>7 DEF Quiet, Commits, EraseNothing, RebaseRefuse,
           RebaseNothing, ListAll, LatestCheckpoint, HeadAndCount, InsertCheckpoint, EraseCommit,
           RebaseCommit, Walked, Signing

LEMMA AckRecorded ==
  ASSUME TypeOK, JobInv, IdInv, RowsInv, InsertInv, NEW p \in Procs, pc'[p] = "ack", pc[p] # "ack",
         Quiet(p) \/ Commits(p)
  PROVE  Noted(job[p].of)
<1>1. CASE Park(p)
  BY ZenonT(60), <1>1 DEF Park, Finish, Move, Keep, TypeOK, Noted
<1>2. CASE AppendCommit(p)
  BY Zenon, <1>2, AppendCommits DEF Noted
<1>3. Finish(p) => pc'[p] # "ack"
  BY Zenon, FinishRests
<1>4. \A stage \in Stages : Keep(p, stage) => pc'[p] = stage
  BY Zenon, KeepPlaces
<1>5. Report(p) => pc'[p] # "ack"
  BY Zenon, <1>3, <1>4 DEF Report, Stages
<1>6. \A stage \in Stages : Move(p, stage) => pc'[p] = stage
  BY Zenon DEF Move, TypeOK
<1> QED BY ZenonT(60), <1>1, <1>2, <1>3, <1>4, <1>5, <1>6 DEF Quiet, Commits, Ack, Fail, Crash, EraseNothing,
           RebaseRefuse, RebaseNothing, ListAll, LatestCheckpoint, HeadAndCount, InsertCheckpoint,
           EraseCommit, RebaseCommit, Stages

LEMMA StreamNext ==
  ASSUME TypeOK, JobInv, IdInv, RowsInv, InsertInv, StreamInv, NEW p \in Procs,
         Moves(p), Quiet(p) \/ Commits(p), \A r \in rows : \E s \in rows' : s.of = r.of
  PROVE  StreamInv'
<1>1. num' = num /\ parked \subseteq parked' /\ dropped \subseteq dropped'
  BY Zenon DEF Quiet, Commits, Ack, Park, Fail, Crash, EraseNothing, RebaseRefuse, RebaseNothing, ListAll,
         LatestCheckpoint, HeadAndCount, InsertCheckpoint, AppendCommit, EraseCommit, RebaseCommit, broker
<1>2. \A m : Recorded(m) => Noted(m)
  BY Zenon, <1>1, RecordedNext
<1>3. \A q \in Procs : q # p => pc'[q] = pc[q] /\ job'[q] = job[q]
  BY Zenon DEF Moves, Leaves, Begins, Takes, Walks, PlaceFrame
<1>4. \A m \in acked' : m \in acked \/ (pc[p] = "ack" /\ m = job[p].of)
  BY Zenon DEF Quiet, Commits, Ack, Park, Fail, Crash, EraseNothing, RebaseRefuse, RebaseNothing, ListAll,
         LatestCheckpoint, HeadAndCount, InsertCheckpoint, AppendCommit, EraseCommit, RebaseCommit, broker
<1>5. \A m \in acked' : Noted(m)
  BY Zenon, <1>2, <1>4 DEF StreamInv
<1>6. ASSUME NEW q \in Procs, pc'[q] = "ack" PROVE Noted(job'[q].of)
  <2>1. CASE q # p
    BY Zenon, <1>2, <1>3, <1>6, <2>1 DEF StreamInv
  <2>2. CASE q = p
    <3>1. job'[p] = job[p]
      BY Zenon, <1>6, <2>2, CommitLeaves DEF Moves, Leaves, Begins, Takes, Walks, AtRest
    <3>2. Noted(job[p].of)
      BY Zenon, <1>2, <1>6, <2>2, AckRecorded DEF StreamInv
    <3> QED BY Zenon, <2>2, <3>1, <3>2
  <2> QED BY Zenon, <2>1, <2>2
<1>7. ASSUME NEW m \in Messages, num'[m] = MaxDeliver
      PROVE  Noted(m) \/ m \in dropped' \/ \E q \in Procs : job'[q].of = m /\ job'[q].last
  <2>1. CASE Recorded(m) \/ m \in dropped
    BY Zenon, <1>1, <1>2, <2>1
  <2>2. CASE \E q \in Procs : job[q].of = m /\ job[q].last
    <3>1. PICK q \in Procs : job[q].of = m /\ job[q].last
      BY Zenon, <2>2
    <3>2. CASE q # p
      BY Zenon, <1>3, <3>1, <3>2
    <3>3. CASE q = p
      BY Zenon, <1>2, <3>1, <3>3, LastKept
    <3> QED BY Zenon, <3>2, <3>3
  <2> QED BY Zenon, <1>1, <1>7, <2>1, <2>2 DEF StreamInv
<1> QED BY Zenon, <1>5, <1>6, <1>7 DEF StreamInv, Recorded, Noted

LEMMA DeliverStream ==
  ASSUME TypeOK, JobInv, StreamInv, NEW p \in Procs, NEW m \in Messages, Deliver(p, m)
  PROVE  StreamInv'
<1>1. PICK at \in Clock :
        /\ job' = [job EXCEPT ![p] = Job("ingest", num[m] + 1 >= MaxDeliver, m, By[m], at)]
        /\ pc' = [pc EXCEPT ![p] = "append"] /\ pc[p] = "idle"
        /\ num' = [num EXCEPT ![m] = @ + 1] /\ UNCHANGED <<rows, acked, parked, dropped>>
  BY Zenon DEF Deliver, Start, Move, chain
<1>2. job'[p].of = m /\ (job'[p].last <=> num[m] + 1 >= MaxDeliver) /\ pc'[p] = "append"
  BY <1>1, Zenon DEF TypeOK, Job
<1>3. \A q \in Procs : q # p => pc'[q] = pc[q] /\ job'[q] = job[q]
  BY ZenonT(60), <1>1 DEF TypeOK
<1>4. ~job[p].last
  BY <1>1 DEF JobInv, JobFits, NoJob
<1>5. \A x : Recorded(x) <=> Noted(x)
  BY Zenon, <1>1 DEF Recorded, Noted
<1>6. ASSUME NEW x \in Messages, num'[x] = MaxDeliver
      PROVE  Noted(x) \/ x \in dropped' \/ \E q \in Procs : job'[q].of = x /\ job'[q].last
  <2>1. CASE x = m
    <3>1. num'[m] = num[m] + 1 /\ num[m] \in 0..MaxDeliver
      BY Zenon, <1>1 DEF TypeOK
    <3>2. num[m] + 1 >= MaxDeliver
      <4>1. MaxDeliver \in Nat
        BY Zenon, AuditAssumption
      <4>2. num[m] + 1 = MaxDeliver
        BY Zenon, <1>6, <2>1, <3>1
      <4> QED BY <4>1, <4>2
    <3>3. job'[p].last
      BY Zenon, <1>2, <3>2
    <3> QED BY Zenon, <1>2, <2>1, <3>3
  <2>2. CASE x # m
    <3>1. num[x] = MaxDeliver
      BY ZenonT(60), <1>1, <1>6, <2>2 DEF TypeOK
    <3>2. CASE Recorded(x) \/ x \in dropped
      BY Zenon, <1>1, <1>5, <3>2
    <3>3. CASE \E q \in Procs : job[q].of = x /\ job[q].last
      BY Zenon, <1>3, <1>4, <3>3
    <3> QED BY ZenonT(60), <3>1, <3>2, <3>3 DEF StreamInv
  <2> QED BY Zenon, <2>1, <2>2
<1>7. \A x \in acked' : Noted(x)
  BY Zenon, <1>1, <1>5 DEF StreamInv
<1>8. \A q \in Procs : pc'[q] = "ack" => Noted(job'[q].of)
  BY Zenon, <1>2, <1>3, <1>5 DEF StreamInv
<1> QED BY Zenon, <1>6, <1>7, <1>8 DEF StreamInv, Recorded, Noted

(* A step that settles nothing: broker and jobs under way stay as they are. *)
LEMMA SameStream ==
  ASSUME JobInv, StreamInv, NEW p, UNCHANGED broker, pc'[p] # "ack",
         \A q \in Procs : q # p => pc'[q] = pc[q] /\ job'[q] = job[q],
         job'[p] = job[p] \/ pc[p] = "idle",
         \A r \in rows : \E s \in rows' : s.of = r.of
  PROVE  StreamInv'
<1>1. UNCHANGED <<num, acked, parked, dropped>>
  BY Zenon DEF broker
<1>2. \A x : Recorded(x) => Noted(x)
  BY Zenon, <1>1 DEF Recorded, Noted
<1>3. \A q \in Procs : job[q].last => job'[q] = job[q]
  <2>1. ~NoJob.last
    BY ZenonT(60) DEF NoJob
  <2>2. p \in Procs /\ pc[p] = "idle" => job[p] = NoJob
    BY Zenon DEF JobInv, JobFits
  <2> QED BY ZenonT(60), <2>1, <2>2
<1>4. \A x \in acked' : Noted(x)
  BY Zenon, <1>1, <1>2 DEF StreamInv
<1>5. \A q \in Procs : pc'[q] = "ack" => Noted(job'[q].of)
  BY Zenon, <1>2 DEF StreamInv
<1>6. \A x \in Messages : num'[x] = MaxDeliver =>
        Noted(x) \/ x \in dropped' \/ \E q \in Procs : job'[q].of = x /\ job'[q].last
  <2> SUFFICES ASSUME NEW x \in Messages, num'[x] = MaxDeliver
               PROVE  Noted(x) \/ x \in dropped' \/ \E q \in Procs : job'[q].of = x /\ job'[q].last
    BY Zenon
  <2>1. Recorded(x) \/ x \in dropped \/ \E q \in Procs : job[q].of = x /\ job[q].last
    BY Zenon, <1>1 DEF StreamInv
  <2> QED BY ONLY <1>1, <1>2, <1>3, <2>1, Zenon
<1> QED BY Zenon, <1>4, <1>5, <1>6 DEF StreamInv, Recorded, Noted

-----------------------------------------------------------------------------
(* The invariant *)

LEMMA InitIInv == Init => IInv
<1> SUFFICES ASSUME Init PROVE IInv
  BY Zenon
<1>1. NoJob \in Jobs /\ "idle" \in Stages
  BY ZenonT(60) DEF NoJob, Jobs, Actors, Stages
<1>2. /\ LegacyRow.id = 0 /\ LegacyRow.at = 0 /\ LegacyRow.by = "subject" /\ LegacyRow.body = "stored"
      /\ LegacyRow.prev = Genesis /\ LegacyRow.hash = computeHash(Genesis, Old)
  BY RowFields, EventFields, SMTT(60) DEF LegacyRow, Old
<1>3. /\ RawRow.id = 0 /\ RawRow.at = 0 /\ RawRow.by = "subject" /\ RawRow.body = "stored"
      /\ RawRow.prev = Genesis /\ RawRow.hash = computeEventHash(Genesis, OldRaw)
  BY RowFields, EventFields DEF RawRow, Old
<1>4. \A r \in rows : /\ r.id = 0 /\ r.at = 0 /\ r.by = "subject" /\ r.body = "stored" /\ r.prev = Genesis
                      /\ r = LegacyRow \/ r = RawRow
  BY Zenon, <1>2, <1>3 DEF Init
<1>5. \A r, s \in rows : r = s
  BY ZenonT(60) DEF Init
<1>6. TypeOK
  BY <1>1, <1>4, AuditAssumption DEF Init, TypeOK, Actors
<1>7. LockInv
  BY Zenon DEF Init, LockInv, Locked
<1>8. JobInv
  BY Zenon DEF Init, JobInv, JobFits, NoJob, Signing
<1>9. IdInv /\ InsertInv /\ RedactInv /\ WalkInv
  BY Zenon DEF Init, IdInv, InsertInv, RedactInv, WalkInv, Unplaced
<1>10. StreamInv
  BY Zenon, AuditAssumption DEF Init, StreamInv
<1>11. RowsInv
  <2>1. Table(rows) /\ altered \subseteq Ids(rows)
    BY <1>4, <1>5 DEF Init, Table, Distinct, RowOK, Actors
  <2>2. Linked(rows)
    <3>1. \A r \in rows : {s \in rows : Before(s, r)} = {}
      BY <1>4 DEF Before
    <3> QED BY Zenon, <1>4, <3>1 DEF Linked, Preceding
  <2>3. \A r \in rows : r.at < Cutover /\ ~(r.at >= Cutover) /\ r.id < nextId
    BY <1>4, AuditAssumption DEF Init
  <2>4. ASSUME NEW r \in rows PROVE HashOK(r)
    <3>1. CASE r = LegacyRow
      <4>1. computeHash(Genesis, Old) = computeHash(Genesis, LegacyRow)
        <5>1. Old.by = "subject" /\ Old.at = 0
          BY EventFields DEF Old
        <5> QED BY Zenon, <1>2, <5>1 DEF computeHash
      <4>2. r.hash = computeHash(r.prev, r) /\ r.hash.v = "legacy"
        BY ONLY <1>2, <3>1, <4>1, HashFields
      <4> QED BY Zenon, <4>2 DEF HashOK, expectedHashFor
    <3>2. CASE r = RawRow
      <4>1. OldRaw.body = "raw"
        BY ONLY EventFields DEF OldRaw
      <4>2. r.hash.v = "v2" /\ r.hash.body = "raw"
        BY ONLY <1>3, <3>2, <4>1, HashFields
      <4> QED BY Zenon, <2>3, <4>2 DEF HashOK, PreFix
    <3> QED BY ZenonT(60), <1>4, <3>1, <3>2
  <2> QED BY ZenonT(60), <1>4, <2>1, <2>2, <2>3, <2>4 DEF Init, RowsInv, Sane, Modern, Content
<1> QED BY Zenon, <1>6, <1>7, <1>8, <1>9, <1>10, <1>11 DEF IInv

LEMMA QuietIInv ==
  ASSUME IInv, NEW p \in Procs, Quiet(p)
  PROVE  IInv'
<1>0. /\ TypeOK /\ LockInv /\ JobInv /\ IdInv /\ RowsInv /\ InsertInv /\ RedactInv /\ WalkInv
      /\ StreamInv
  BY Zenon DEF IInv
<1>1. Leaves(p) /\ rows' = rows /\ altered' = altered /\ raced' = raced
  BY Zenon, <1>0, QuietLeaves
<1>2. Moves(p) /\ ~Takes(p) /\ ~Walks(p) /\ nextId' = nextId
  BY Zenon, <1>1 DEF Moves, Leaves, Takes, Walks, AtRest, Settled, Signing
<1>3. RowsInv'
  BY Zenon, <1>0, <1>1, <1>2, SaneNext DEF RowsInv
<1>4. TypeOK'
  BY Zenon, <1>0, <1>1, <1>2, <1>3, QuietCounted, TypeNext
<1>5. LockInv' /\ JobInv' /\ IdInv'
  BY Zenon, <1>0, <1>1, <1>2, LockKept, JobKept, IdKept
<1>6. InsertInv' /\ RedactInv' /\ WalkInv'
  BY Zenon, <1>0, <1>1, <1>2, InsertNext, RedactNext, WalkNext
<1>7. StreamInv'
  BY Zenon, <1>0, <1>1, <1>2, StreamNext
<1> QED BY Zenon, <1>3, <1>4, <1>5, <1>6, <1>7 DEF IInv

LEMMA CommitIInv ==
  ASSUME IInv, NEW p \in Procs, Commits(p)
  PROVE  IInv'
<1>0. /\ TypeOK /\ LockInv /\ JobInv /\ IdInv /\ RowsInv /\ InsertInv /\ RedactInv /\ WalkInv
      /\ StreamInv
  BY DEF IInv
<1>1. Leaves(p) /\ altered' = altered /\ raced' = raced /\ pc[p] \in Unplaced
  BY Zenon, <1>0, CommitLeaves DEF Locked, Unplaced
<1>2. Moves(p) /\ ~Takes(p) /\ ~Walks(p)
  BY Zenon, <1>1 DEF Moves, Leaves, Takes, Walks, AtRest, Settled, Signing
<1>3. RowsInv' /\ Ids(rows') = Ids(rows) \cup {job[p].id} /\ TrailStep
  BY Zenon, <1>0, CommitRows
<1>4. TypeOK'
  BY Zenon, <1>0, <1>1, <1>2, <1>3, OthersCounted, TypeNext
<1>5. \A i \in Ids(rows') : i \in Ids(rows) \/ (Leaves(p) /\ pc[p] \in Unplaced /\ i = job[p].id)
  BY Zenon, <1>1, <1>3
<1>6. LockInv' /\ JobInv' /\ IdInv'
  BY Zenon, <1>0, <1>2, <1>5, LockKept, JobKept, IdKept
<1>7. InsertInv' /\ RedactInv' /\ WalkInv'
  BY Zenon, <1>0, <1>1, <1>2, InsertNext, RedactNext, WalkNext
<1>8. \A r \in rows : \E s \in rows' : s.of = r.of
  BY ZenonT(60), <1>3 DEF TrailStep
<1>9. StreamInv'
  BY <1>0, <1>1, <1>2, <1>8, StreamNext
<1> QED BY Zenon, <1>3, <1>4, <1>6, <1>7, <1>9 DEF IInv

LEMMA AsksIInv ==
  ASSUME IInv, NEW p \in Procs, Asks(p)
  PROVE  IInv'
<1>0. /\ TypeOK /\ LockInv /\ JobInv /\ IdInv /\ RowsInv /\ InsertInv /\ RedactInv /\ WalkInv
      /\ StreamInv
  BY DEF IInv
<1>1. Begins(p) /\ rows' = rows /\ altered' = altered /\ raced' = raced /\ nextId' = nextId + 1
  BY Zenon, <1>0, AsksBegin DEF Begins
<1>2. Moves(p) /\ ~Takes(p) /\ ~Walks(p)
  BY Zenon, <1>1 DEF Moves, Begins, Takes, Walks
<1>3. RowsInv'
  BY Zenon, <1>0, <1>1, SaneNext DEF RowsInv
<1>4. TypeOK'
  BY Zenon, <1>0, <1>1, <1>2, <1>3, OthersCounted, TypeNext
<1>5. LockInv' /\ JobInv' /\ IdInv'
  BY Zenon, <1>0, <1>1, <1>2, LockKept, JobKept, IdKept
<1>6. InsertInv' /\ RedactInv' /\ WalkInv'
  BY Zenon, <1>0, <1>1, <1>2, InsertNext, RedactNext, WalkNext
<1>7. StreamInv'
  <2>1. CASE \E m \in Messages : Deliver(p, m)
    BY Zenon, <1>0, <2>1, DeliverStream
  <2>2. CASE \E stage, e : Ask(p, stage, e)
    <3>1. UNCHANGED broker
      BY Zenon, <2>2 DEF Ask
    <3>2. /\ pc'[p] # "ack" /\ pc[p] = "idle"
          /\ \A q \in Procs : q # p => pc'[q] = pc[q] /\ job'[q] = job[q]
      BY Zenon, <1>1 DEF Begins, PlaceFrame
    <3> QED BY Zenon, <1>0, <1>1, <3>1, <3>2, SameStream
  <2> QED BY <2>1, <2>2, Zenon DEF Asks, RecordAccessDenied, AnonymizeSubject, Rebaseline, CreateCheckpoint
<1> QED BY <1>3, <1>4, <1>5, <1>6, <1>7 DEF IInv

LEMMA TxIInv ==
  ASSUME IInv, NEW p \in Procs, Takers(p) \/ Walkers(p)
  PROVE  IInv'
<1>0. /\ TypeOK /\ LockInv /\ JobInv /\ IdInv /\ RowsInv /\ InsertInv /\ RedactInv /\ WalkInv
      /\ StreamInv
  BY Zenon DEF IInv
<1>1. /\ Takes(p) \/ Walks(p)
      /\ Takes(p) /\ pc'[p] = "insert" => AppendChained(p)
      /\ Takes(p) /\ pc'[p] = "redact" => AnonymizeAndRechain(p)
      /\ Takes(p) /\ pc'[p] = "rechain" => RebaselineChain(p)
      /\ Walks(p) => Walkers(p)
  <2>1. CASE Takers(p)
    <3>1. Takes(p)
      BY Zenon, <1>0, <2>1, LockTaken DEF Takers
    <3>2. ~Walks(p)
      BY Zenon, <3>1 DEF Takes, Walks
    <3> QED BY <2>1, <3>1, <3>2, Zenon DEF Takers, Takes, AppendChained, AnonymizeAndRechain, RebaselineChain
  <2>2. CASE Walkers(p)
    <3>1. Walks(p)
      BY Zenon, <1>0, <2>2, WalkersWalk
    <3> QED BY Zenon, <2>2, <3>1 DEF Walks, Takes
  <2> QED BY <2>1, <2>2
<1>2. Moves(p) /\ rows' = rows /\ altered' = altered /\ raced' = raced /\ nextId' = nextId /\ job' = job
  BY Zenon, <1>1 DEF Moves, Takes, Walks
<1>3. RowsInv'
  BY Zenon, <1>0, <1>2, SaneNext DEF RowsInv
<1>4. TypeOK'
  BY Zenon, <1>0, <1>2, <1>3, OthersCounted, TypeNext
<1>5. LockInv' /\ JobInv' /\ IdInv'
  BY Zenon, <1>0, <1>2, LockKept, JobKept, IdKept
<1>6. InsertInv' /\ RedactInv' /\ WalkInv'
  BY Zenon, <1>0, <1>1, <1>2, InsertNext, RedactNext, WalkNext
<1>7. StreamInv'
  <2>1. UNCHANGED broker
    BY Zenon DEF Takers, AppendChained, AnonymizeAndRechain, RebaselineChain, Walkers,
                 RedactSubject, Rechain, broker
  <2>2. pc'[p] # "ack" /\ \A q \in Procs : q # p => pc'[q] = pc[q] /\ job'[q] = job[q]
    BY Zenon, <1>1 DEF Takes, Walks, PlaceFrame
  <2> QED BY Zenon, <1>0, <1>2, <2>1, <2>2, SameStream
<1> QED BY Zenon, <1>3, <1>4, <1>5, <1>6, <1>7 DEF IInv

LEMMA AlterIInv ==
  ASSUME IInv, Alter
  PROVE  IInv' /\ TrailStep
<1>0. /\ TypeOK /\ LockInv /\ JobInv /\ IdInv /\ RowsInv /\ InsertInv /\ RedactInv /\ WalkInv
      /\ StreamInv
  BY Zenon DEF IInv
<1>1. PICK r, n : Altering(r, n)
  BY Zenon, <1>0, AlterRow
<1>2. RowsInv' /\ Ids(rows') = Ids(rows)
  BY Zenon, <1>0, <1>1, AlterSane
<1>3. /\ r \in rows /\ n.id = r.id /\ n.at = r.at /\ n.of = r.of /\ n.by = r.by
      /\ n.prev = r.prev /\ n.hash = r.hash /\ rows' = (rows \ {r}) \cup {n}
      /\ altered' = altered \cup {r.id} /\ raced \subseteq raced'
      /\ (\E p \in Procs : pc[p] = "redact") => r.id \in raced'
  BY Zenon, <1>1 DEF Altering
<1>4. /\ UNCHANGED <<epoch, lock, pc, job, draft, todo, carry, differs, seen, overtaken, broker,
                     nextId, requests>>
      /\ DOMAIN stale' = Procs /\ Fault
      /\ \A p \in Procs : r.id \notin todo[p] => stale'[p] = stale[p]
  BY Zenon, <1>1 DEF Altering, Alter
<1>5. UNCHANGED <<num, acked, parked, dropped>>
  BY Zenon, <1>4 DEF broker
<1>6. TypeOK'
  <2>1. faults' \in 0..MaxFaults
    BY ZenonT(60), <1>0, <1>4, FaultTyped DEF TypeOK
  <2>2. \A x \in rows' : /\ x.id \in Nat /\ x.at \in Nat /\ x.by \in Actors \cup {"REDACTED"}
                         /\ x.body \in {"stored", "altered"}
    BY Zenon, <1>2 DEF RowsInv, Sane, Table, RowOK
  <2>3. altered' \subseteq Nat
    BY Zenon, <1>0, <1>3 DEF TypeOK
  <2> QED BY ZenonT(60), <1>0, <1>4, <1>5, <2>1, <2>2, <2>3 DEF TypeOK
<1>7. LockInv' /\ JobInv'
  <2>1. \A p \in Procs : pc'[p] # "rechain" => todo'[p] = {} /\ stale'[p] = {}
    <3> SUFFICES ASSUME NEW p \in Procs, pc'[p] # "rechain" PROVE todo'[p] = {} /\ stale'[p] = {}
      BY Zenon
    <3>1. todo[p] = {} /\ stale[p] = {}
      BY Zenon, <1>0, <1>4 DEF LockInv
    <3> QED BY Zenon, <1>4, <3>1
  <2> QED BY Zenon, <1>0, <1>4, <2>1 DEF LockInv, JobInv
<1>8. IdInv'
  BY Zenon, <1>0, <1>2, <1>4 DEF IdInv
<1>9. InsertInv'
  <2> SUFFICES ASSUME NEW q \in Procs, pc'[q] = "insert"
               PROVE  \E m \in appendInTx(rows', job'[q]) : draft'[q] = {m}
    BY Zenon DEF InsertInv, appendInTx, Heads, Before, Chained
  <2>1. PICK m \in appendInTx(rows, job[q]) : draft[q] = {m}
    BY Zenon, <1>0, <1>4 DEF InsertInv
  <2>2. m \in appendInTx(rows', job[q])
    BY Zenon, <1>1, <2>1, AlterInsert
  <2> QED BY Zenon, <1>4, <2>1, <2>2
<1>10. RedactInv'
  <2> SUFFICES ASSUME NEW q \in Procs, pc'[q] = "redact", NEW x \in rows', Reached(x)', x.at >= Cutover,
                      x.id \in altered' \ raced'
               PROVE  FALSE
    BY Zenon DEF RedactInv, Shown
  <2>1. pc[q] = "redact" /\ x.id # r.id
    BY Zenon, <1>3, <1>4
  <2>2. x \in rows /\ x.id \in Shown
    BY Zenon, <1>3, <2>1 DEF Shown
  <2>3. PICK s \in rows' : s.by = "subject" /\ ~Before(x, s)
    BY Zenon DEF Reached, Before
  <2>4. CASE s = n
    <3>1. ~Before(x, r) /\ r.by = "subject"
      BY Zenon, <1>3, <2>3, <2>4 DEF Before
    <3> QED BY Zenon, <1>0, <1>3, <2>1, <2>2, <3>1 DEF RedactInv, Reached
  <2>5. CASE s \in rows
    BY Zenon, <1>0, <2>1, <2>2, <2>3, <2>5 DEF RedactInv, Reached
  <2> QED BY Zenon, <1>3, <2>3, <2>4, <2>5
<1>11. WalkInv'
  <2> SUFFICES ASSUME NEW q \in Procs, pc'[q] = "rechain"
               PROVE  WalkOf(q, View(q), todo[q], carry[q], differs[q], stale[q])'
    BY Zenon DEF WalkInv
  <2>1. WalkOf(q, View(q), todo[q], carry[q], differs[q], stale[q])
    BY Zenon, <1>0, <1>4 DEF WalkInv
  <2> QED BY Zenon, <1>0, <1>1, <1>2, <2>1, AlterWalkOf
<1>12. ASSUME NEW x \in rows
       PROVE \E s \in rows' : /\ s.id = x.id /\ s.at = x.at /\ s.of = x.of /\ s.by = x.by
                              /\ s.prev = x.prev /\ s.hash = x.hash
  BY Zenon, <1>3, <1>12
<1>13. StreamInv'
  <2>1. \A x : Recorded(x) => Noted(x)
    BY ZenonT(60), <1>5, <1>12 DEF Recorded, Noted
  <2> QED BY Zenon, <1>0, <1>4, <1>5, <2>1 DEF StreamInv, Recorded, Noted
<1>14. TrailStep
  BY Zenon, <1>12 DEF TrailStep
<1> QED BY ZenonT(60), <1>2, <1>6, <1>7, <1>8, <1>9, <1>10, <1>11, <1>13, <1>14 DEF IInv

LEMMA ByProcess ==
  ASSUME Next
  PROVE  Alter \/ \E p \in Procs : Quiet(p) \/ Commits(p) \/ Asks(p) \/ Takers(p) \/ Walkers(p)
  BY Zenon DEF Next, Step, Quiet, Commits, Asks, Takers, Walkers

LEMMA SameIInv ==
  ASSUME IInv, UNCHANGED vars
  PROVE  IInv'
<1>0. /\ TypeOK /\ LockInv /\ JobInv /\ IdInv /\ RowsInv /\ InsertInv /\ RedactInv /\ WalkInv
      /\ StreamInv
  BY Zenon DEF IInv
<1>1. UNCHANGED <<rows, epoch, altered, raced, lock, pc, job, draft, todo, carry, differs, stale, seen,
                  overtaken, num, acked, parked, dropped, nextId, requests, faults>>
  BY Zenon DEF vars, chain, walk, broker
<1>2. TypeOK' /\ LockInv' /\ JobInv' /\ IdInv'
  BY Zenon, <1>0, <1>1 DEF TypeOK, LockInv, JobInv, IdInv
<1>3. RowsInv'
  BY ZenonT(60), <1>0, <1>1, SaneNext DEF RowsInv
<1>4. InsertInv'
  BY <1>0, <1>1 DEF InsertInv, appendInTx, Heads, Before, Chained
<1>5. RedactInv' /\ WalkInv'
  <2>1. RedactInv'
    BY Zenon, <1>0, <1>1 DEF RedactInv, Reached, Before, Shown
  <2>2. WalkInv'
    BY Zenon, <1>0, <1>1, WalkOfNext DEF WalkInv, View
  <2> QED BY Zenon, <2>1, <2>2
<1>6. StreamInv'
  BY Zenon, <1>0, <1>1 DEF StreamInv, Recorded
<1> QED BY Zenon, <1>2, <1>3, <1>4, <1>5, <1>6 DEF IInv

(* The invariant is inductive. *)
THEOREM Inductive == Spec => []IInv
<1>1. Init => IInv
  BY Zenon, InitIInv
<1>2. IInv /\ [Next]_vars => IInv'
  BY ZenonT(60), QuietIInv, CommitIInv, AsksIInv, TxIInv, AlterIInv, ByProcess, SameIInv
<1> QED BY <1>1, <1>2, PTL DEF Spec

(* Types of the audit trail, its processes and the stream. *)
THEOREM Typed == Spec => []TypeOK
<1>1. IInv => TypeOK
  BY DEF IInv
<1> QED BY <1>1, Inductive, PTL

(* Appends, erasures and re-baselines of any number of replicas keep the    *)
(* stored trail one verified chain (appendInTx, AnonymizeAndRechain,        *)
(* RebaselineChain under the advisory lock).                                *)
THEOREM OneChain == Spec => []ChainHolds
<1>1. IInv => ChainHolds
  BY ZenonT(60) DEF IInv, RowsInv, Sane, Linked, HashOK, ChainHolds, Sound
<1> QED BY <1>1, Inductive, PTL

(* An event created at or after the cutover and changed behind the          *)
(* service's back, even under a rewrite, never verifies again, unless it    *)
(* was changed between the two reads of an erasure (AnonymizeAndRechain).   *)
THEOREM AlterationShows == Spec => []AlteredShows
<1>1. IInv => AlteredShows
  <2> SUFFICES ASSUME IInv, NEW r \in rows, r.id \in altered \ raced, r.at >= Cutover
               PROVE  ~Verifies(rows, r)
    BY Zenon DEF AlteredShows
  <2>1. r.body = "altered" /\ r.hash.body = "stored" /\ r.hash.v = "v2"
    BY ZenonT(60) DEF IInv, RowsInv, Sane, Marked, Modern, Shown
  <2> QED BY <2>1, HashFields, SMTT(60) DEF Verifies, expectedHashFor
<1> QED BY <1>1, Inductive, PTL

(* An event is acknowledged only once it is in the trail or parked, and its *)
(* last delivery is not spent on nothing (StartConsumer).                   *)
THEOREM KeptEvents == Spec => []EventsKept
<1>1. IInv => EventsKept
  BY DEF IInv, StreamInv, EventsKept
<1> QED BY <1>1, Inductive, PTL

(* No step takes a row away, moves it or relinks it without a marker.       *)
THEOREM KeptTrail == Spec => TrailKept
<1>1. IInv /\ [Next]_vars => [TrailStep]_vars
  <2> SUFFICES ASSUME IInv, Next PROVE TrailStep
    OBVIOUS
  <2>0. TypeOK /\ LockInv /\ JobInv /\ IdInv /\ RowsInv /\ InsertInv /\ WalkInv
    BY DEF IInv
  <2>1. CASE Alter
    BY Zenon, <2>1, AlterIInv
  <2>2. ASSUME NEW p \in Procs, Commits(p) PROVE TrailStep
    BY Zenon, <2>0, <2>2, CommitRows
  <2>3. ASSUME NEW p \in Procs, Quiet(p) \/ Asks(p) \/ Takers(p) \/ Walkers(p) PROVE TrailStep
    <3>1. rows' = rows
      BY Zenon, <2>0, <2>3, QuietLeaves, AsksBegin, LockTaken, WalkersWalk DEF Begins, Takers, Takes, Walks
    <3> QED BY Zenon, <3>1 DEF TrailStep
  <2> QED BY Zenon, <2>1, <2>2, <2>3, ByProcess
<1> QED BY <1>1, Inductive, PTL DEF Spec, TrailKept, TrailStep
=============================================================================
