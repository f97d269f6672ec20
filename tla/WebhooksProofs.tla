--------------------------- MODULE WebhooksProofs ---------------------------
(***************************************************************************)
(* Proofs about Webhooks for any number of subscriptions, events, workers, *)
(* attempts and faults. The inductive invariant says what a row has been   *)
(* through (RowInv), what a worker knows of the row it is at (WorkInv),    *)
(* how far the fan-out of an event got (EventInv), and how many posts may  *)
(* still be accepted for a row (RightsInv).                                *)
(***************************************************************************)
EXTENDS Webhooks, WellFoundedInduction, TLAPS

-----------------------------------------------------------------------------
(* The inductive invariant *)

\* A row belongs to a live subscription (the foreign key), is open only while
\* attempts are left, and ended for a reason.
RowInv ==
  \A i \in Ids :
    /\ subs[rows[i].sub] = "active"
    /\ rows[i].status \in Open => rows[i].attempts < MaxAttempts
    /\ rows[i].status \notin Open => ~rows[i].wait
    /\ rows[i].attempts <= posts[i].made
    /\ rows[i].status = "delivered" => posts[i].accepted > 0
    /\ rows[i].status = "dead_letter" =>
         posts[i].made >= MaxAttempts \/ ~Deliverable(i) \/ posts[i].unread

\* What stands behind the outcome o of attempt a + 1 at a row r with history h.
Earned(r, h, a, o) ==
  /\ o \in {"unsent", "delivered", "failed", "dead_letter"}
  /\ o = "unsent" => r.of = "internal" \/ h.unread
  /\ o # "unsent" => h.made > a
  /\ o = "delivered" => h.accepted > 0
  /\ o = "failed" => a + 1 < MaxAttempts
  /\ o = "dead_letter" => a + 1 >= MaxAttempts

WorkInv ==
  \A w \in Workers :
    /\ \A i \in Claimed(w) : claim[w][i] <= posts[i].made
    /\ At(w, "record") =>
         Earned(rows[Cur(w)], posts[Cur(w)], claim[w][Cur(w)], result[w])

\* Subscription s is still owed event e's row.
Owed(e, s) ==
  /\ s \in audience[e] /\ subs[s] = "active" /\ <<e, s>> \notin skipped
  /\ \A i \in Ids : ~(rows[i].sub = s /\ rows[i].of = e)

EventInv ==
  /\ \A e \in Events :
       /\ evt[e] = "none" => sent[e] = 0 /\ audience[e] = {}
       /\ evt[e] = "queued" /\ fan.msg # e => sent[e] < MaxDeliver
       /\ evt[e] = "acked" => \A s \in Subs : ~Owed(e, s)
       /\ \A s \in audience[e] : subs[s] # "none"
       /\ fan.msg = e => evt[e] = "queued" /\ \A s \in Subs : Owed(e, s) => s \in fan.todo
  /\ fan.msg = None => fan.todo = {}

\* Worker w may still get a post of row i accepted.
MayPost(w, i) ==
  /\ i \in Claimed(w)
  /\ ~(i = Cur(w) /\ stage[w] = "record" /\ result[w] = "delivered")

Posters(i) == {w \in Workers : MayPost(w, i)}

\* Row i will be claimed again without a further fault.
Free(i) == IF rows[i].status \in Open /\ (~rows[i].wait \/ ~Held(i)) THEN 1 ELSE 0

\* S has at most k elements: they can be numbered apart within 1..k.
Fits(S, k) == \E f \in [S -> 1..k] : \A v, w \in S : f[v] = f[w] => v = w

\* Every post accepted or still to be accepted is the first or has its fault.
Covered(h, free, k) == h.accepted + free + k <= 1 + h.faults

RightsInv ==
  \A i \in Ids : \E k \in Nat : Fits(Posters(i), k) /\ Covered(posts[i], Free(i), k)

\* What OutcomesStand says of a step.
Stand ==
  \A i \in Ids :
    /\ rows'[i].attempts >= rows[i].attempts
    /\ rows[i].status \notin Open => rows'[i] = rows[i]

IInv == TypeOK /\ RowInv /\ WorkInv /\ EventInv /\ RightsInv

-----------------------------------------------------------------------------
(* Sequences, least elements and sizes *)

LEMMA SeqOf ==
  ASSUME NEW S, NEW n \in Nat, NEW t \in [1..n -> S]
  PROVE  t \in Seq(S) /\ Len(t) = n
  OBVIOUS

LEMMA SameLength ==
  ASSUME NEW S, NEW s \in Seq(S), NEW t, t = [i \in DOMAIN s |-> t[i]],
         \A i \in DOMAIN s : t[i] \in S
  PROVE  t \in Seq(S) /\ Len(t) = Len(s) /\ DOMAIN t = DOMAIN s
<1>1. DOMAIN s = 1..Len(s) /\ Len(s) \in Nat
  OBVIOUS
<1>2. t \in [1..Len(s) -> S] /\ DOMAIN t = DOMAIN s
  BY <1>1
<1> QED BY <1>1, <1>2, SeqOf

LEMMA Appended ==
  ASSUME NEW S, NEW s \in Seq(S), NEW x \in S
  PROVE  /\ Append(s, x) \in Seq(S) /\ Len(Append(s, x)) = Len(s) + 1
         /\ \A i \in 1..Len(s) : Append(s, x)[i] = s[i]
         /\ Append(s, x)[Len(s) + 1] = x
  OBVIOUS

LEMMA Shape ==
  ASSUME TypeOK
  PROVE  /\ Ids = 1..Len(rows) /\ Len(rows) \in Nat /\ DOMAIN posts = Ids
         /\ rows \in [Ids -> Deliveries] /\ posts \in [Ids -> Histories]
         /\ \A i \in Ids : rows[i] \in Deliveries /\ posts[i] \in Histories
<1>1. rows \in Seq(Deliveries) /\ posts \in Seq(Histories) /\ Len(posts) = Len(rows)
  BY DEF TypeOK
<1>2. /\ Len(rows) \in Nat /\ DOMAIN rows = 1..Len(rows) /\ rows \in [1..Len(rows) -> Deliveries]
      /\ DOMAIN posts = 1..Len(posts) /\ posts \in [1..Len(posts) -> Histories]
  BY ONLY <1>1
<1> QED BY ONLY <1>1, <1>2 DEF Ids

LEMMA LeastElement ==
  ASSUME NEW S \in SUBSET Nat, S # {}
  PROVE  Min(S) \in S
<1> DEFINE R == OpToRel(<, Nat)
<1>1. \A x, y \in Nat : <<x, y>> \in R <=> x < y
  BY DEF OpToRel
<1>2. IsWellFoundedOn(R, Nat)
  BY Zenon, NatLessThanWellFounded
<1> HIDE DEF R
<1>3. \E x \in S : \A y \in S : ~(<<y, x>> \in R)
  BY Zenon, <1>2, WFMin
<1>4. PICK x \in S : \A y \in S : ~(<<y, x>> \in R)
  BY <1>3
<1>5. x \in Nat /\ \A y \in S : y \in Nat /\ ~(y < x)
  BY ONLY Zenon, <1>1, <1>4, S \in SUBSET Nat
<1>6. \A y \in S : x <= y
  BY ONLY <1>5
<1> QED BY Zenon, <1>6 DEF Min

LEMMA CurClaimed ==
  ASSUME TypeOK, NEW w \in Workers, Claimed(w) # {}
  PROVE  Cur(w) \in Claimed(w) /\ Cur(w) \in Ids
<1>1. Claimed(w) \subseteq Ids /\ Ids \in SUBSET Nat
  BY Shape DEF TypeOK
<1> QED BY <1>1, LeastElement DEF Cur

LEMMA NoneFit == Fits({}, 0)
<1>1. [v \in {} |-> 0] \in [{} -> 1..0]
  OBVIOUS
<1> QED BY Zenon, <1>1 DEF Fits

LEMMA FewerFit ==
  ASSUME NEW R, NEW T, T \subseteq R, NEW k \in Nat, Fits(R, k), NEW w
  PROVE  \E m \in Nat : Fits(T, m) /\ m <= k /\ (w \in R \ T => m + 1 <= k)
<1>1. PICK f \in [R -> 1..k] : \A u, v \in R : f[u] = f[v] => u = v
  BY DEF Fits
<1>2. CASE w \in R \ T
  <2> DEFINE g == [v \in T |-> IF f[v] = k THEN f[w] ELSE f[v]]
  <2>1. \A v \in T : f[v] \in 1..k /\ f[w] \in 1..k /\ f[v] # f[w] /\ v \in R
    BY <1>1, <1>2
  <2>2. k - 1 \in Nat /\ \A v \in T : g[v] \in 1..(k - 1)
    <3>1. f[w] \in 1..k
      BY <1>1, <1>2
    <3> QED BY <2>1, <3>1
  <2>3. g \in [T -> 1..(k - 1)]
    BY <2>2
  <2>4. \A u, v \in T : g[u] = g[v] => u = v
    BY <1>1, <2>1
  <2>5. Fits(T, k - 1)
    BY Zenon, <2>3, <2>4 DEF Fits
  <2> QED BY <2>2, <2>5
<1>3. CASE w \notin R \ T
  <2> DEFINE g == [v \in T |-> f[v]]
  <2>1. g \in [T -> 1..k] /\ \A u, v \in T : g[u] = g[v] => u = v
    BY <1>1
  <2>2. Fits(T, k)
    BY Zenon, <2>1 DEF Fits
  <2> QED BY <1>3, <2>2
<1> QED BY <1>2, <1>3

LEMMA OneMoreFits ==
  ASSUME NEW R, NEW w, NEW T, T \subseteq R \cup {w}, NEW k \in Nat, Fits(R, k)
  PROVE  Fits(T, k + 1)
<1>1. PICK f \in [R -> 1..k] : \A u, v \in R : f[u] = f[v] => u = v
  BY DEF Fits
<1> DEFINE g == [v \in T |-> IF v \in R THEN f[v] ELSE k + 1]
<1>2. \A v \in T : v \in R => f[v] \in 1..k
  BY <1>1
<1>3. g \in [T -> 1..(k + 1)]
  BY <1>2
<1>4. \A u, v \in T : g[u] = g[v] => u = v
  BY <1>1, <1>2
<1> QED BY Zenon, <1>3, <1>4 DEF Fits

-----------------------------------------------------------------------------
(* Rows and histories *)

LEMMA SpentBounded ==
  ASSUME TypeOK, Fault \/ spent' = spent
  PROVE  spent' \in 0..MaxFaults
  BY WebhooksAssumption DEF TypeOK, Fault

LEMMA SameHistory ==
  ASSUME NEW h \in Histories
  PROVE  h.made >= h.made /\ h.accepted >= h.accepted /\ h.faults >= h.faults
  BY DEF Histories

\* rows and posts keep their length, and a row what it is for.
RowsKept ==
  /\ rows' = [i \in Ids |-> rows'[i]] /\ posts' = [i \in Ids |-> posts'[i]]
  /\ \A i \in Ids :
       /\ rows'[i] \in Deliveries /\ posts'[i] \in Histories
       /\ rows'[i].sub = rows[i].sub /\ rows'[i].of = rows[i].of
       /\ posts'[i].made >= posts[i].made /\ posts'[i].accepted >= posts[i].accepted
       /\ posts'[i].faults >= posts[i].faults /\ (posts[i].unread => posts'[i].unread)

LEMMA KeptRows ==
  ASSUME TypeOK, RowsKept
  PROVE  /\ rows' \in Seq(Deliveries) /\ posts' \in Seq(Histories)
         /\ Len(rows') = Len(rows) /\ Len(posts') = Len(rows') /\ Ids' = Ids
<1>1. /\ DOMAIN rows = Ids /\ DOMAIN posts = Ids
      /\ rows \in Seq(Deliveries) /\ posts \in Seq(Histories) /\ Len(posts) = Len(rows)
  BY Shape DEF TypeOK, Ids
<1>2. rows' \in Seq(Deliveries) /\ Len(rows') = Len(rows) /\ DOMAIN rows' = DOMAIN rows
  BY <1>1, SameLength DEF RowsKept
<1>3. posts' \in Seq(Histories) /\ Len(posts') = Len(posts)
  BY <1>1, SameLength DEF RowsKept
<1> QED BY <1>1, <1>2, <1>3 DEF Ids

\* A worker's step leaves the fan-out of every event where it was.
LEMMA EventsKept ==
  ASSUME TypeOK, EventInv, RowsKept, UNCHANGED <<subs, eventVars>>
  PROVE  EventInv'
<1>1. Ids' = Ids
  BY KeptRows
<1>2. /\ evt' = evt /\ sent' = sent /\ fan' = fan /\ audience' = audience /\ skipped' = skipped
      /\ subs' = subs /\ \A i \in Ids : rows'[i].sub = rows[i].sub /\ rows'[i].of = rows[i].of
  BY DEF eventVars, RowsKept
<1>3. \A e \in Events, s \in Subs : Owed(e, s)' <=> Owed(e, s)
  BY <1>1, <1>2 DEF Owed
<1> QED BY <1>2, <1>3 DEF EventInv

\* What a worker's outcome rests on stays.
LEMMA EarnedKept ==
  ASSUME TypeOK, RowsKept, NEW i \in Ids, NEW a \in Nat, NEW o,
         Earned(rows[i], posts[i], a, o)
  PROVE  Earned(rows'[i], posts'[i], a, o)
<1>1. posts[i] \in Histories /\ posts'[i] \in Histories /\ rows'[i].of = rows[i].of
  BY Shape DEF RowsKept
<1>2. /\ posts'[i].made >= posts[i].made /\ posts'[i].accepted >= posts[i].accepted
      /\ posts[i].unread => posts'[i].unread
  BY DEF RowsKept
<1> QED BY <1>1, <1>2 DEF Earned, Histories

\* Posts are never taken back.
LEMMA PostsCover ==
  ASSUME TypeOK, WorkInv, RowsKept, NEW v \in Workers, NEW i \in Claimed(v)
  PROVE  i \in Ids /\ claim[v][i] \in Nat /\ claim[v][i] <= posts'[i].made
<1>1. i \in Ids /\ claim[v][i] \in Nat /\ claim[v][i] <= posts[i].made
  BY WebhooksAssumption DEF TypeOK, WorkInv
<1>2. posts[i].made \in Nat /\ posts'[i].made \in Nat /\ posts'[i].made >= posts[i].made
  BY <1>1, Shape DEF RowsKept, Histories
<1> QED BY ONLY <1>1, <1>2

\* The other workers: their claims, and so the rows they are at, stay.
LEMMA OthersKept ==
  ASSUME TypeOK, WorkInv, RowsKept, NEW v \in Workers,
         claim'[v] = claim[v], stage'[v] = stage[v], result'[v] = result[v]
  PROVE  /\ Claimed(v)' = Claimed(v) /\ Cur(v)' = Cur(v)
         /\ \A i \in Claimed(v) : claim'[v][i] <= posts'[i].made
         /\ At(v, "record")' =>
              Earned(rows'[Cur(v)], posts'[Cur(v)], claim[v][Cur(v)], result[v])
         /\ \A i \in Ids : MayPost(v, i)' <=> MayPost(v, i)
<1>1. Claimed(v)' = Claimed(v) /\ Cur(v)' = Cur(v)
  BY DEF Claimed, Cur
<1>2. \A i \in Claimed(v) : i \in Ids /\ claim[v][i] \in Nat /\ claim[v][i] <= posts'[i].made
  BY PostsCover
<1>3. \A i \in Claimed(v) : claim'[v][i] <= posts'[i].made
  BY <1>2
<1>4. ASSUME At(v, "record")'
      PROVE  Earned(rows'[Cur(v)], posts'[Cur(v)], claim[v][Cur(v)], result[v])
  <2>1. At(v, "record")
    BY <1>1, <1>4 DEF At
  <2>2. Cur(v) \in Claimed(v) /\ Cur(v) \in Ids
    BY <2>1, CurClaimed DEF At
  <2>3. Earned(rows[Cur(v)], posts[Cur(v)], claim[v][Cur(v)], result[v])
    BY <2>1 DEF WorkInv
  <2> QED BY <1>2, <2>2, <2>3, EarnedKept
<1>5. \A i \in Ids : MayPost(v, i)' <=> MayPost(v, i)
  BY <1>1 DEF MayPost
<1> QED BY <1>1, <1>3, <1>4, <1>5

-----------------------------------------------------------------------------
(* The steps of the workers *)

\* A worker that goes on with the row it is at; only an accepted post uses up
\* its right.
LEMMA GoesKeeps ==
  ASSUME IInv, RowsKept, rows' = rows, UNCHANGED <<subs, eventVars>>, spent' \in 0..MaxFaults,
         NEW w \in Workers, Claimed(w) # {}, stage[w] # "record",
         NEW where \in {"post", "record"},
         NEW o \in {"none", "unsent", "delivered", "failed", "dead_letter"},
         Goes(w, where, o), o = "delivered" => where = "record",
         where = "record" => Earned(rows[Cur(w)], posts'[Cur(w)], claim[w][Cur(w)], o),
         \A i \in Ids : posts'[i].accepted + posts[i].faults <=
           posts[i].accepted + posts'[i].faults + (IF i = Cur(w) /\ o = "delivered" THEN 1 ELSE 0)
  PROVE  IInv'
<1>1. TypeOK /\ RowInv /\ WorkInv /\ EventInv /\ RightsInv
  BY DEF IInv
<1>2. /\ claim' = claim /\ stage' = [stage EXCEPT ![w] = where]
      /\ result' = [result EXCEPT ![w] = o]
  BY DEF Goes
<1>3. /\ \A v \in Workers : Claimed(v)' = Claimed(v) /\ Cur(v)' = Cur(v)
      /\ stage'[w] = where /\ result'[w] = o
      /\ \A v \in Workers \ {w} : stage'[v] = stage[v] /\ result'[v] = result[v]
  BY <1>1, <1>2 DEF Claimed, Cur, TypeOK
<1>4. Ids' = Ids /\ Cur(w) \in Claimed(w) /\ Cur(w) \in Ids
  BY ZenonT(60), <1>1, KeptRows, CurClaimed
<1>5. TypeOK'
  BY <1>1, <1>2, <1>3, <1>4, KeptRows DEF TypeOK, eventVars
<1>6. RowInv'
  <2> SUFFICES ASSUME NEW i \in Ids
               PROVE  /\ subs'[rows'[i].sub] = "active"
                      /\ rows'[i].status \in Open => rows'[i].attempts < MaxAttempts
                      /\ rows'[i].status \notin Open => ~rows'[i].wait
                      /\ rows'[i].attempts <= posts'[i].made
                      /\ rows'[i].status = "delivered" => posts'[i].accepted > 0
                      /\ rows'[i].status = "dead_letter" =>
                           posts'[i].made >= MaxAttempts \/ ~Deliverable(i)' \/ posts'[i].unread
    BY Zenon, <1>4 DEF RowInv
  <2>1. Deliverable(i)' <=> Deliverable(i)
    BY DEF Deliverable
  <2>2. rows[i] \in Deliveries /\ posts[i] \in Histories /\ posts'[i] \in Histories
    BY ZenonT(60), <1>1, Shape DEF RowsKept
  <2>3. /\ rows[i].attempts \in Nat /\ posts[i].made \in Nat /\ posts'[i].made \in Nat
        /\ posts[i].accepted \in Nat /\ posts'[i].accepted \in Nat
    BY <2>2, WebhooksAssumption DEF Deliveries, Histories
  <2>4. /\ posts'[i].made >= posts[i].made /\ posts'[i].accepted >= posts[i].accepted
        /\ posts[i].unread => posts'[i].unread
    BY Zenon DEF RowsKept
  <2>5. /\ subs[rows[i].sub] = "active"
        /\ rows[i].status \in Open => rows[i].attempts < MaxAttempts
        /\ rows[i].status \notin Open => ~rows[i].wait
        /\ rows[i].attempts <= posts[i].made
        /\ rows[i].status = "delivered" => posts[i].accepted > 0
        /\ rows[i].status = "dead_letter" =>
             posts[i].made >= MaxAttempts \/ ~Deliverable(i) \/ posts[i].unread
    BY Zenon, <1>1 DEF RowInv
  <2> QED BY <2>1, <2>3, <2>4, <2>5, WebhooksAssumption
<1>7. WorkInv'
  <2> SUFFICES ASSUME NEW v \in Workers
               PROVE  /\ \A i \in Claimed(v)' : claim'[v][i] <= posts'[i].made
                      /\ At(v, "record")' =>
                           Earned(rows'[Cur(v)'], posts'[Cur(v)'], claim'[v][Cur(v)'], result'[v])
    BY Zenon DEF WorkInv
  <2>1. CASE v # w
    BY Zenon, <1>1, <1>2, <1>3, <2>1, OthersKept
  <2>2. CASE v = w
    <3>1. \A i \in Claimed(w) : claim[w][i] <= posts'[i].made
      BY <1>1, PostsCover
    <3> QED BY ZenonT(60), <1>2, <1>3, <2>2, <3>1 DEF At
  <2> QED BY Zenon, <2>1, <2>2
<1>8. EventInv'
  BY Zenon, <1>1, EventsKept
<1>9. RightsInv'
  <2> SUFFICES ASSUME NEW i \in Ids
               PROVE  \E m \in Nat : Fits(Posters(i)', m) /\ Covered(posts'[i], Free(i)', m)
    BY Zenon, <1>4 DEF RightsInv
  <2>1. Free(i)' = Free(i)
    BY Zenon, <1>2, <1>3 DEF Free, Held
  <2>2. \A v \in Workers \ {w} : MayPost(v, i)' <=> MayPost(v, i)
    BY Zenon, <1>1, <1>2, <1>3, OthersKept
  <2>3. /\ MayPost(w, i)' => MayPost(w, i)
        /\ i = Cur(w) /\ o = "delivered" => MayPost(w, i) /\ ~MayPost(w, i)'
    BY Zenon, <1>3, <1>4 DEF MayPost
  <2>4. /\ Posters(i)' \subseteq Posters(i)
        /\ i = Cur(w) /\ o = "delivered" => w \in Posters(i) \ Posters(i)'
    BY Zenon, <2>2, <2>3 DEF Posters
  <2>5. PICK k \in Nat : Fits(Posters(i), k) /\ Covered(posts[i], Free(i), k)
    BY <1>1 DEF RightsInv
  <2>6. PICK m \in Nat :
          Fits(Posters(i)', m) /\ m <= k /\ (w \in Posters(i) \ Posters(i)' => m + 1 <= k)
    BY ONLY <2>4, <2>5, FewerFit
  <2>7. /\ posts[i].accepted \in Nat /\ posts[i].faults \in Nat /\ posts'[i].accepted \in Nat
        /\ posts'[i].faults \in Nat /\ Free(i) \in Nat
    BY Zenon, <1>1, Shape DEF RowsKept, Histories, Free
  <2>8. posts'[i].accepted + posts[i].faults <=
          posts[i].accepted + posts'[i].faults + (IF i = Cur(w) /\ o = "delivered" THEN 1 ELSE 0)
    BY Zenon
  <2>9. Covered(posts'[i], Free(i)', m)
    BY ONLY <2>1, <2>4, <2>5, <2>6, <2>7, <2>8 DEF Covered
  <2> QED BY Zenon, <2>6, <2>9
<1> QED BY <1>5, <1>6, <1>7, <1>8, <1>9 DEF IInv

\* A worker that lets go of rows. The row it was at may come free again only
\* if no post of it was accepted, it is closed, another outcome was recorded
\* for it, or a fault is counted.
LEMMA LeftKeeps ==
  ASSUME IInv, RowsKept, RowInv', UNCHANGED <<subs, eventVars>>, spent' \in 0..MaxFaults,
         NEW w \in Workers, Claimed(w) # {}, NEW S \in SUBSET Claimed(w), Cur(w) \notin S,
         Left(w, S),
         \A i \in Ids : i # Cur(w) => rows'[i] = rows[i],
         \A i \in Ids : posts'[i].accepted = posts[i].accepted,
         \/ MayPost(w, Cur(w))
         \/ posts'[Cur(w)].faults > posts[Cur(w)].faults
         \/ rows'[Cur(w)].status \notin Open
         \/ rows'[Cur(w)] = rows[Cur(w)] /\ claim[w][Cur(w)] # rows[Cur(w)].attempts
  PROVE  IInv'
<1>1. TypeOK /\ RowInv /\ WorkInv /\ EventInv /\ RightsInv
  BY DEF IInv
<1>2. /\ claim' = [claim EXCEPT ![w] = [i \in S |-> claim[w][i]]]
      /\ stage' = [stage EXCEPT ![w] = "next"] /\ result' = [result EXCEPT ![w] = "none"]
  BY Zenon DEF Left
<1>3. /\ claim'[w] = [i \in S |-> claim[w][i]] /\ Claimed(w)' = S /\ stage'[w] = "next"
      /\ \A i \in S : claim'[w][i] = claim[w][i]
      /\ \A v \in Workers \ {w} :
           /\ claim'[v] = claim[v] /\ stage'[v] = stage[v] /\ result'[v] = result[v]
           /\ Claimed(v)' = Claimed(v)
  BY <1>1, <1>2 DEF Claimed, TypeOK
<1>4. Ids' = Ids /\ Cur(w) \in Claimed(w) /\ Cur(w) \in Ids
  BY Zenon, <1>1, KeptRows, CurClaimed
<1>5. TypeOK'
  <2>1. /\ DOMAIN claim' = Workers
        /\ stage' \in [Workers -> {"off", "next", "post", "record"}]
        /\ result' \in [Workers -> {"none", "unsent", "delivered", "failed", "dead_letter"}]
    BY Zenon, <1>1, <1>2 DEF TypeOK
  <2>2. ASSUME NEW v \in Workers
        PROVE  Claimed(v)' \subseteq Ids /\ \A i \in Claimed(v)' : claim'[v][i] \in 0..(MaxAttempts - 1)
    <3>1. /\ Claimed(v) \subseteq Ids
          /\ \A i \in Claimed(v) : claim[v][i] \in 0..(MaxAttempts - 1)
      BY Zenon, <1>1 DEF TypeOK
    <3>2. CASE v = w
      BY ZenonT(60), <1>3, <3>1, <3>2
    <3>3. CASE v # w
      BY <1>3, <3>1, <3>3
    <3> QED BY Zenon, <3>2, <3>3
  <2> QED BY Zenon, <1>1, <1>4, <2>1, <2>2, KeptRows DEF TypeOK, eventVars
<1>7. WorkInv'
  <2> SUFFICES ASSUME NEW v \in Workers
               PROVE  /\ \A i \in Claimed(v)' : claim'[v][i] <= posts'[i].made
                      /\ At(v, "record")' =>
                           Earned(rows'[Cur(v)'], posts'[Cur(v)'], claim'[v][Cur(v)'], result'[v])
    BY Zenon DEF WorkInv
  <2>1. CASE v # w
    BY ZenonT(60), <1>1, <1>3, <2>1, OthersKept
  <2>2. CASE v = w
    <3>1. \A i \in Claimed(w) : claim[w][i] <= posts'[i].made
      BY Zenon, <1>1, PostsCover
    <3> QED BY Zenon, <1>3, <2>2, <3>1 DEF At
  <2> QED BY Zenon, <2>1, <2>2
<1>8. EventInv'
  BY Zenon, <1>1, EventsKept
<1>9. RightsInv'
  <2> SUFFICES ASSUME NEW i \in Ids
               PROVE  \E m \in Nat : Fits(Posters(i)', m) /\ Covered(posts'[i], Free(i)', m)
    BY Zenon, <1>4 DEF RightsInv
  <2>1. \A v \in Workers \ {w} : MayPost(v, i)' <=> MayPost(v, i)
    BY ZenonT(60), <1>1, <1>3, OthersKept
  <2>2. MayPost(w, i)' => i \in S /\ MayPost(w, i)
    BY <1>3 DEF MayPost
  <2>3. /\ Posters(i)' \subseteq Posters(i)
        /\ MayPost(w, i) /\ i \notin S => w \in Posters(i) \ Posters(i)'
    BY Zenon, <2>1, <2>2 DEF Posters
  <2>4. PICK k \in Nat : Fits(Posters(i), k) /\ Covered(posts[i], Free(i), k)
    BY <1>1 DEF RightsInv
  <2>5. PICK m \in Nat :
          Fits(Posters(i)', m) /\ m <= k /\ (w \in Posters(i) \ Posters(i)' => m + 1 <= k)
    BY ONLY <2>3, <2>4, FewerFit
  <2> SUFFICES Covered(posts'[i], Free(i)', m)
    BY Zenon, <2>5
  <2>6. /\ posts[i].accepted \in Nat /\ posts[i].faults \in Nat /\ posts'[i].accepted = posts[i].accepted
        /\ posts'[i].faults \in Nat /\ posts'[i].faults >= posts[i].faults
        /\ Free(i) \in {0, 1} /\ Free(i)' \in {0, 1}
    BY Zenon, <1>1, Shape DEF RowsKept, Histories, Free
  <2>7. CASE MayPost(w, i) /\ i \notin S
    BY ONLY <2>3, <2>4, <2>5, <2>6, <2>7 DEF Covered
  <2>8. CASE ~(MayPost(w, i) /\ i \notin S)
    <3>1. CASE i \in S \/ i \notin Claimed(w)
      <4>1. rows'[i] = rows[i]
        BY ZenonT(60), <1>4, <3>1
      <4>2. Held(i)' <=> Held(i)
        BY <1>3, <3>1, <4>1 DEF Held
      <4>3. Free(i)' = Free(i)
        BY <4>1, <4>2 DEF Free
      <4> QED BY ONLY <2>4, <2>5, <2>6, <4>3 DEF Covered
    <3>2. CASE i \in Claimed(w) /\ i \notin S
      <4>1. i = Cur(w) /\ ~MayPost(w, Cur(w))
        BY Zenon, <2>8, <3>2 DEF MayPost
      <4>2. CASE posts'[i].faults > posts[i].faults
        BY ONLY <2>4, <2>5, <2>6, <4>2 DEF Covered
      <4>3. CASE rows'[i].status \notin Open
        <5>1. Free(i)' = 0
          BY ZenonT(60), <4>3 DEF Free
        <5> QED BY ONLY <2>4, <2>5, <2>6, <5>1 DEF Covered
      <4>4. CASE rows'[i] = rows[i] /\ claim[w][i] # rows[i].attempts
        <5>1. Held(i)' <=> Held(i)
          BY <1>3, <3>2, <4>4 DEF Held
        <5>2. Free(i)' = Free(i)
          BY Zenon, <4>4, <5>1 DEF Free
        <5> QED BY ONLY <2>4, <2>5, <2>6, <5>2 DEF Covered
      <4> QED BY Zenon, <4>1, <4>2, <4>3, <4>4
    <3> QED BY Zenon, <3>1, <3>2
  <2> QED BY Zenon, <2>7, <2>8
<1> QED BY Zenon, <1>5, <1>7, <1>8, <1>9 DEF IInv

LEMMA ClaimKeeps ==
  ASSUME IInv, NEW w \in Workers, ClaimPendingDeliveries(w)
  PROVE  IInv' /\ Stand
<1>1. TypeOK /\ RowInv /\ WorkInv /\ EventInv /\ RightsInv
  BY DEF IInv
<1>0. PICK n \in 1..ClaimBatch :
         /\ rows' = Leased(Oldest(Due, n))
         /\ claim' = [claim EXCEPT ![w] = [i \in Oldest(Due, n) |-> rows[i].attempts]]
  BY Zenon DEF ClaimPendingDeliveries
<1> DEFINE D == Oldest(Due, n)
<1>2. D \subseteq Due /\ D \subseteq Ids
  BY DEF Oldest, Due
<1>3. /\ stage[w] = "next" /\ Claimed(w) = {}
      /\ rows' = [i \in Ids |-> [rows[i] EXCEPT !.wait = @ \/ i \in D]]
      /\ claim' = [claim EXCEPT ![w] = [i \in D |-> rows[i].attempts]]
      /\ posts' = posts /\ stage' = stage /\ result' = result
      /\ UNCHANGED <<subs, eventVars, spent>>
  BY Zenon, <1>0 DEF ClaimPendingDeliveries, Leased
<1> HIDE DEF D
<1>4. /\ \A i \in Ids : rows[i] \in Deliveries /\ posts[i] \in Histories
      /\ DOMAIN posts = Ids
  BY <1>1, Shape
<1>5. \A i \in Ids : /\ rows'[i] = [rows[i] EXCEPT !.wait = @ \/ i \in D]
                     /\ rows'[i] \in Deliveries
                     /\ rows'[i].sub = rows[i].sub /\ rows'[i].of = rows[i].of
                     /\ rows'[i].status = rows[i].status /\ rows'[i].attempts = rows[i].attempts
                     /\ rows'[i].wait = (rows[i].wait \/ i \in D)
  BY ZenonT(60), <1>3, <1>4 DEF Deliveries
<1>6. RowsKept
  <2>1. rows' = [i \in Ids |-> rows'[i]]
    BY <1>3
  <2>2. posts' = [i \in Ids |-> posts'[i]]
    BY <1>1, <1>3, <1>4 DEF TypeOK
  <2>3. \A i \in Ids : posts'[i].made >= posts[i].made /\ posts'[i].accepted >= posts[i].accepted
                       /\ posts'[i].faults >= posts[i].faults
    BY <1>3, <1>4 DEF Histories
  <2> QED BY <1>3, <1>4, <1>5, <2>1, <2>2, <2>3 DEF RowsKept
<1>7. Ids' = Ids
  BY <1>1, <1>6, KeptRows
<1>8. /\ claim'[w] = [i \in D |-> rows[i].attempts] /\ Claimed(w)' = D
      /\ \A i \in D : claim'[w][i] = rows[i].attempts
      /\ \A v \in Workers \ {w} : claim'[v] = claim[v] /\ Claimed(v)' = Claimed(v)
  BY <1>1, <1>3 DEF Claimed, TypeOK
<1>9. \A i \in D : /\ i \in Ids /\ rows[i].status \in Open /\ ~rows[i].wait
                   /\ rows[i].attempts < MaxAttempts /\ rows[i].attempts <= posts[i].made
  BY <1>1, <1>2 DEF Due, RowInv
<1>10. TypeOK'
  <2>1. DOMAIN claim' = Workers
    BY ZenonT(60), <1>1, <1>3 DEF TypeOK
  <2>2. \A i \in D : claim'[w][i] \in 0..(MaxAttempts - 1)
    BY <1>4, <1>8, <1>9, WebhooksAssumption DEF Deliveries
  <2>3. ASSUME NEW v \in Workers
        PROVE  Claimed(v)' \subseteq Ids /\ \A i \in Claimed(v)' : claim'[v][i] \in 0..(MaxAttempts - 1)
    <3>1. CASE v = w
      BY ZenonT(60), <1>2, <1>8, <2>2, <3>1
    <3>2. CASE v # w
      BY <1>1, <1>8, <3>2 DEF TypeOK
    <3> QED BY Zenon, <3>1, <3>2
  <2> QED BY ZenonT(60), <1>1, <1>3, <1>6, <1>7, <2>1, <2>3, KeptRows DEF TypeOK, eventVars
<1>11. RowInv'
  <2> SUFFICES ASSUME NEW i \in Ids
               PROVE  /\ subs'[rows'[i].sub] = "active"
                      /\ rows'[i].status \in Open => rows'[i].attempts < MaxAttempts
                      /\ rows'[i].status \notin Open => ~rows'[i].wait
                      /\ rows'[i].attempts <= posts'[i].made
                      /\ rows'[i].status = "delivered" => posts'[i].accepted > 0
                      /\ rows'[i].status = "dead_letter" =>
                           posts'[i].made >= MaxAttempts \/ ~Deliverable(i)' \/ posts'[i].unread
    BY <1>7 DEF RowInv
  <2>1. Deliverable(i)' <=> Deliverable(i)
    BY Zenon, <1>5 DEF Deliverable
  <2>2. i \in D => rows[i].status \in Open
    BY <1>9
  <2> QED BY ZenonT(60), <1>1, <1>3, <1>5, <2>1, <2>2 DEF RowInv
<1>12. WorkInv'
  <2> SUFFICES ASSUME NEW v \in Workers
               PROVE  /\ \A i \in Claimed(v)' : claim'[v][i] <= posts'[i].made
                      /\ At(v, "record")' =>
                           Earned(rows'[Cur(v)'], posts'[Cur(v)'], claim'[v][Cur(v)'], result'[v])
    BY DEF WorkInv
  <2>1. CASE v # w
    BY ZenonT(60), <1>1, <1>3, <1>6, <1>8, <2>1, OthersKept
  <2>2. CASE v = w
    <3>1. stage'[w] = "next"
      BY <1>3
    <3>2. \A i \in D : claim'[w][i] <= posts'[i].made
      BY <1>3, <1>8, <1>9
    <3> QED BY <1>8, <2>2, <3>1, <3>2 DEF At
  <2> QED BY Zenon, <2>1, <2>2
<1>13. EventInv'
  BY <1>1, <1>3, <1>6, EventsKept
<1>14. RightsInv'
  <2> SUFFICES ASSUME NEW i \in Ids
               PROVE  \E m \in Nat : Fits(Posters(i)', m) /\ Covered(posts'[i], Free(i)', m)
    BY <1>7 DEF RightsInv
  <2>1. \A v \in Workers \ {w} : MayPost(v, i)' <=> MayPost(v, i)
    BY Zenon, <1>1, <1>3, <1>6, <1>8, OthersKept
  <2>2. MayPost(w, i)' => i \in D
    BY <1>8 DEF MayPost
  <2>3. /\ Posters(i)' \subseteq Posters(i) \cup {w}
        /\ i \notin D => Posters(i)' \subseteq Posters(i)
    BY <2>1, <2>2 DEF Posters
  <2>4. PICK k \in Nat : Fits(Posters(i), k) /\ Covered(posts[i], Free(i), k)
    BY <1>1 DEF RightsInv
  <2>6. posts[i].accepted \in Nat /\ posts[i].faults \in Nat /\ posts'[i] = posts[i]
    BY <1>3, <1>4 DEF Histories
  <2>7. CASE i \in D
    <3>1. Free(i) = 1
      BY <1>9, <2>7 DEF Free
    <3>2. Free(i)' = 0
      <4>1. rows'[i].wait
        BY Zenon, <1>5, <2>7
      <4>2. w \in Workers /\ i \in Claimed(w)' /\ claim'[w][i] = rows'[i].attempts
        BY Zenon, <1>5, <1>8, <2>7
      <4>3. Held(i)'
        BY <4>2 DEF Held
      <4> QED BY Zenon, <4>1, <4>3 DEF Free
    <3>3. Fits(Posters(i)', k + 1)
      BY ONLY Zenon, <2>3, <2>4, OneMoreFits
    <3>4. Covered(posts'[i], Free(i)', k + 1)
      BY ONLY <2>4, <2>6, <3>1, <3>2 DEF Covered
    <3>5. k + 1 \in Nat
      OBVIOUS
    <3> QED BY Zenon, <3>3, <3>4, <3>5
  <2>8. CASE i \notin D
    <3>1. Held(i)' <=> Held(i)
      BY ZenonT(60), <1>3, <1>5, <1>8, <2>8 DEF Held
    <3>2. Free(i)' = Free(i) /\ Free(i) \in {0, 1}
      BY Zenon, <1>5, <2>8, <3>1 DEF Free
    <3>3. PICK m \in Nat :
            Fits(Posters(i)', m) /\ m <= k /\ (w \in Posters(i) \ Posters(i)' => m + 1 <= k)
      BY ONLY <2>3, <2>4, <2>8, FewerFit
    <3>4. Covered(posts'[i], Free(i)', m)
      BY ONLY <2>4, <2>6, <3>2, <3>3 DEF Covered
    <3> QED BY <3>3, <3>4
  <2> QED BY <2>7, <2>8
<1>15. Stand
  <2>1. \A i \in Ids : i \notin D => rows'[i] = rows[i]
    BY <1>4, <1>5 DEF Deliveries
  <2>2. ASSUME NEW i \in Ids PROVE rows'[i].attempts >= rows[i].attempts
    <3>1. rows'[i].attempts = rows[i].attempts
      BY Zenon, <1>5
    <3>2. rows[i].attempts \in Nat
      BY <1>4, WebhooksAssumption DEF Deliveries
    <3> QED BY ONLY <3>1, <3>2
  <2> QED BY <1>9, <2>1, <2>2 DEF Stand
<1> QED BY <1>10, <1>11, <1>12, <1>13, <1>14, <1>15 DEF IInv

\* A row comes due; under a worker that holds it, this is a counted fault.
LEMMA DueKeeps ==
  ASSUME IInv, NEW i \in Ids, Elapse(i) \/ Overrun(i)
  PROVE  IInv' /\ Stand
<1>1. TypeOK /\ RowInv /\ WorkInv /\ EventInv /\ RightsInv
  BY DEF IInv
<1>2. /\ rows[i].wait /\ rows' = [rows EXCEPT ![i].wait = FALSE]
      /\ UNCHANGED <<subs, eventVars, job>>
  BY DEF Elapse, Overrun, ComesDue
<1>3. /\ \A j \in Ids : rows[j] \in Deliveries /\ posts[j] \in Histories
      /\ posts \in [Ids -> Histories] /\ rows \in [Ids -> Deliveries]
  BY <1>1, Shape
<1>4. \/ posts' = posts /\ spent' = spent /\ ~Held(i)
      \/ posts' = [posts EXCEPT ![i].faults = @ + 1] /\ spent' \in 0..MaxFaults
  BY Zenon, <1>1, SpentBounded DEF Elapse, Overrun
<1>5. \A j \in Ids : /\ rows'[j] \in Deliveries
                     /\ rows'[j].sub = rows[j].sub /\ rows'[j].of = rows[j].of
                     /\ rows'[j].status = rows[j].status /\ rows'[j].attempts = rows[j].attempts
                     /\ j # i => rows'[j] = rows[j]
                     /\ rows'[i].wait = FALSE
  BY ZenonT(60), <1>2, <1>3 DEF Deliveries
<1>6. \A j \in Ids : /\ posts'[j] \in Histories /\ posts'[j].made = posts[j].made
                     /\ posts'[j].accepted = posts[j].accepted /\ posts'[j].unread = posts[j].unread
                     /\ posts'[j].faults >= posts[j].faults
  BY <1>3, <1>4 DEF Histories
<1>7. RowsKept
  <2>1. rows' = [j \in Ids |-> rows'[j]] /\ posts' = [j \in Ids |-> posts'[j]]
    BY ZenonT(60), <1>1, <1>2, <1>3, <1>4 DEF TypeOK
  <2>2. \A j \in Ids : posts'[j].made >= posts[j].made /\ posts'[j].accepted >= posts[j].accepted
    BY <1>3, <1>6 DEF Histories
  <2> QED BY Zenon, <1>5, <1>6, <2>1, <2>2 DEF RowsKept
<1>8. Ids' = Ids
  BY <1>1, <1>7, KeptRows
<1>9. claim' = claim /\ stage' = stage /\ result' = result
  BY <1>2 DEF job
<1>10. TypeOK'
  <2>1. spent' \in 0..MaxFaults
    BY <1>1, <1>4 DEF TypeOK
  <2>2. \A v \in Workers : Claimed(v)' = Claimed(v)
    BY <1>9 DEF Claimed
  <2> QED BY <1>1, <1>2, <1>7, <1>8, <1>9, <2>1, <2>2, KeptRows DEF TypeOK, eventVars
<1>11. RowInv'
  <2>1. \A j \in Ids : Deliverable(j)' <=> Deliverable(j)
    BY Zenon, <1>5 DEF Deliverable
  <2> QED BY <1>1, <1>2, <1>5, <1>6, <1>8, <2>1 DEF RowInv
<1>12. WorkInv'
  BY Zenon, <1>1, <1>7, <1>9, OthersKept DEF WorkInv
<1>13. EventInv'
  BY Zenon, <1>1, <1>2, <1>7, EventsKept
<1>14. RightsInv'
  <2> SUFFICES ASSUME NEW j \in Ids
               PROVE  \E m \in Nat : Fits(Posters(j)', m) /\ Covered(posts'[j], Free(j)', m)
    BY ZenonT(60), <1>8 DEF RightsInv
  <2>1. Posters(j)' = Posters(j)
    BY <1>1, <1>7, <1>9, OthersKept DEF Posters
  <2>4. PICK k \in Nat : Fits(Posters(j), k) /\ Covered(posts[j], Free(j), k)
    BY Zenon, <1>1 DEF RightsInv
  <2>5. /\ posts[j].accepted \in Nat /\ posts[j].faults \in Nat /\ posts'[j].faults \in Nat
        /\ Free(j) \in {0, 1} /\ Free(j)' \in {0, 1}
    BY Zenon, <1>3, <1>6 DEF Histories, Free
  <2>6. Held(j)' <=> Held(j)
    BY Zenon, <1>5, <1>9 DEF Held, Claimed
  <2>7. Free(j)' = Free(j) \/ posts'[j].faults > posts[j].faults
    <3>1. CASE j # i
      BY ZenonT(60), <1>5, <2>6, <3>1 DEF Free
    <3>2. CASE j = i /\ ~Held(i)
      BY <1>5, <2>6, <3>2 DEF Free
    <3>3. CASE j = i /\ Held(i)
      BY <1>3, <1>4, <3>3 DEF Histories
    <3> QED BY Zenon, <3>1, <3>2, <3>3
  <2>8. posts'[j].accepted = posts[j].accepted /\ posts'[j].faults >= posts[j].faults
    BY Zenon, <1>6
  <2>9. Covered(posts'[j], Free(j)', k)
    BY ONLY <2>4, <2>5, <2>7, <2>8 DEF Covered
  <2> QED BY <2>1, <2>4, <2>9
<1>15. Stand
  <2>1. rows[i].status \in Open
    BY Zenon, <1>1, <1>2 DEF RowInv
  <2> QED BY <1>3, <1>5, <2>1, WebhooksAssumption DEF Stand, Deliveries
<1> QED BY <1>10, <1>11, <1>12, <1>13, <1>14, <1>15 DEF IInv

-----------------------------------------------------------------------------
(* Steps outside the workers *)

\* Steps that touch neither deliveries nor workers.
LEMMA QuietKeeps ==
  ASSUME IInv, UNCHANGED <<rows, posts, job>>, \A i \in Ids : subs'[rows[i].sub] = "active"
  PROVE  /\ RowInv' /\ WorkInv' /\ RightsInv' /\ Stand /\ Ids' = Ids
         /\ \A v \in Workers : Claimed(v)' = Claimed(v)
<1>1. TypeOK /\ RowInv /\ WorkInv /\ RightsInv
  BY DEF IInv
<1>2. /\ rows' = rows /\ posts' = posts /\ claim' = claim /\ stage' = stage /\ result' = result
      /\ Ids' = Ids
  BY DEF job, Ids
<1>3. \A v \in Workers : Claimed(v)' = Claimed(v) /\ Cur(v)' = Cur(v)
  BY Zenon, <1>2 DEF Claimed, Cur
<1>4. RowInv'
  BY Zenon, <1>1, <1>2 DEF RowInv, Deliverable
<1>5. WorkInv'
  BY Zenon, <1>1, <1>2, <1>3 DEF WorkInv, At
<1>6. \A i \in Ids : Posters(i)' = Posters(i) /\ Free(i)' = Free(i)
  BY Zenon, <1>2, <1>3 DEF Posters, MayPost, Free, Held
<1>7. RightsInv'
  BY Zenon, <1>1, <1>2, <1>6 DEF RightsInv
<1>8. Stand
  BY <1>1, <1>2, Shape, WebhooksAssumption DEF Stand, Deliveries
<1> QED BY Zenon, <1>2, <1>3, <1>4, <1>5, <1>7, <1>8

\* A new row, of a live subscription.
LEMMA InsertKeeps ==
  ASSUME IInv, NEW s \in Subs, subs[s] = "active", NEW m \in Events \cup {"test", "internal"},
         InsertDelivery(s, m), UNCHANGED <<subs, job>>
  PROVE  /\ rows' \in Seq(Deliveries) /\ posts' \in Seq(Histories)
         /\ Len(rows') <= MaxRows /\ Len(posts') = Len(rows')
         /\ RowInv' /\ WorkInv' /\ RightsInv' /\ Stand
         /\ Ids' = Ids \cup {Len(rows) + 1} /\ \A i \in Ids : rows'[i] = rows[i]
         /\ rows'[Len(rows) + 1] = NewRow(s, m)
         /\ \A v \in Workers : Claimed(v)' = Claimed(v)
<1> DEFINE n == Len(rows) + 1
<1>1. TypeOK /\ RowInv /\ WorkInv /\ RightsInv
  BY DEF IInv
<1>2. /\ Ids = 1..Len(rows) /\ Len(rows) \in Nat /\ n \notin Ids
      /\ \A i \in Ids : rows[i] \in Deliveries /\ posts[i] \in Histories
  BY <1>1, Shape
<1>3. NewRow(s, m) \in Deliveries /\ NoPosts \in Histories
  BY WebhooksAssumption DEF NewRow, NoPosts, Deliveries, Histories, Open
<1>4. /\ rows \in Seq(Deliveries) /\ posts \in Seq(Histories) /\ Len(posts) = Len(rows)
      /\ rows' = Append(rows, NewRow(s, m)) /\ posts' = Append(posts, NoPosts)
  BY <1>1 DEF TypeOK, InsertDelivery
<1>5. /\ rows' \in Seq(Deliveries) /\ Len(rows') = n /\ rows'[n] = NewRow(s, m)
      /\ \A i \in 1..Len(rows) : rows'[i] = rows[i]
  BY <1>3, <1>4, Appended
<1>6. /\ posts' \in Seq(Histories) /\ Len(posts') = n /\ posts'[n] = NoPosts
      /\ \A i \in 1..Len(rows) : posts'[i] = posts[i]
  BY <1>3, <1>4, Appended
<1>7. Len(rows') <= MaxRows /\ Len(posts') = Len(rows')
  <2>1. Len(rows) < WorkRows \/ Len(rows) < MaxRows
    BY DEF InsertDelivery
  <2> QED BY <1>2, <1>5, <1>6, <2>1, WebhooksAssumption
<1>8. Ids' = 1..n /\ 1..n = 1..Len(rows) \cup {n}
  <2>1. DOMAIN rows' = 1..Len(rows')
    BY ONLY <1>5
  <2>2. \A k \in Nat : 1..(k + 1) = 1..k \cup {k + 1}
    OBVIOUS
  <2> QED BY Zenon, <1>2, <1>5, <2>1, <2>2 DEF Ids
<1>9. claim' = claim /\ stage' = stage /\ result' = result /\ subs' = subs
  BY Zenon DEF job
<1>10. \A v \in Workers : Claimed(v)' = Claimed(v) /\ Cur(v)' = Cur(v) /\ Claimed(v) \subseteq Ids
  BY Zenon, <1>1, <1>9 DEF Claimed, Cur, TypeOK
<1>11. RowInv'
  <2> SUFFICES ASSUME NEW i \in Ids \cup {n}
               PROVE  /\ subs'[rows'[i].sub] = "active"
                      /\ rows'[i].status \in Open => rows'[i].attempts < MaxAttempts
                      /\ rows'[i].status \notin Open => ~rows'[i].wait
                      /\ rows'[i].attempts <= posts'[i].made
                      /\ rows'[i].status = "delivered" => posts'[i].accepted > 0
                      /\ rows'[i].status = "dead_letter" =>
                           posts'[i].made >= MaxAttempts \/ ~Deliverable(i)' \/ posts'[i].unread
    BY Zenon, <1>2, <1>8 DEF RowInv
  <2>1. CASE i \in Ids
    <3>1. rows'[i] = rows[i] /\ posts'[i] = posts[i]
      BY Zenon, <1>2, <1>5, <1>6, <2>1
    <3> QED BY Zenon, <1>1, <1>9, <2>1, <3>1 DEF RowInv, Deliverable
  <2>2. CASE i = n
    <3>1. /\ rows'[i].sub = s /\ rows'[i].status = "pending" /\ rows'[i].attempts = 0
          /\ posts'[i].made = 0
      BY ONLY <1>5, <1>6, <2>2 DEF NewRow, NoPosts
    <3>2. 0 < MaxAttempts /\ 0 <= 0
      BY ONLY WebhooksAssumption
    <3>3. "pending" \in Open
      BY ONLY DEF Open
    <3>4. subs'[rows'[i].sub] = "active"
      BY Zenon, <1>9, <3>1
    <3> QED BY ZenonT(60), <3>1, <3>2, <3>3, <3>4
  <2> QED BY Zenon, <2>1, <2>2
<1>12. WorkInv'
  <2> SUFFICES ASSUME NEW v \in Workers
               PROVE  /\ \A i \in Claimed(v)' : claim'[v][i] <= posts'[i].made
                      /\ At(v, "record")' =>
                           Earned(rows'[Cur(v)'], posts'[Cur(v)'], claim'[v][Cur(v)'], result'[v])
    BY Zenon DEF WorkInv
  <2>1. \A i \in Claimed(v) : posts'[i] = posts[i]
    BY Zenon, <1>2, <1>6, <1>10
  <2>2. ASSUME At(v, "record") PROVE rows'[Cur(v)] = rows[Cur(v)] /\ posts'[Cur(v)] = posts[Cur(v)]
    BY Zenon, <1>1, <1>2, <1>5, <1>6, <2>2, CurClaimed DEF At
  <2> QED BY Zenon, <1>1, <1>9, <1>10, <2>1, <2>2 DEF WorkInv, At
<1>13. RightsInv'
  <2> SUFFICES ASSUME NEW i \in Ids \cup {n}
               PROVE  \E m2 \in Nat : Fits(Posters(i)', m2) /\ Covered(posts'[i], Free(i)', m2)
    BY Zenon, <1>2, <1>8 DEF RightsInv
  <2>1. CASE i \in Ids
    <3>1. Posters(i)' = Posters(i) /\ Free(i)' = Free(i) /\ posts'[i] = posts[i]
      BY Zenon, <1>2, <1>5, <1>6, <1>9, <1>10, <2>1 DEF Posters, MayPost, Free, Held
    <3> QED BY ZenonT(60), <1>1, <2>1, <3>1 DEF RightsInv
  <2>2. CASE i = n
    <3>1. Posters(i)' = {}
      BY Zenon, <1>2, <1>10, <2>2 DEF Posters, MayPost
    <3>2. posts'[i].accepted = 0 /\ posts'[i].faults = 0 /\ Free(i)' \in {0, 1}
      <4>1. posts'[i].accepted = 0 /\ posts'[i].faults = 0
        BY ONLY <1>6, <2>2 DEF NoPosts
      <4>2. Free(i)' \in {0, 1}
        BY Zenon DEF Free
      <4> QED BY Zenon, <4>1, <4>2
    <3>3. Covered(posts'[i], Free(i)', 0)
      BY ONLY <3>2 DEF Covered
    <3> QED BY Zenon, <3>1, <3>3, NoneFit
  <2> QED BY Zenon, <2>1, <2>2
<1>14. Stand
  BY <1>1, <1>2, <1>5, WebhooksAssumption DEF Stand, Deliveries
<1> QED BY ZenonT(60), <1>2, <1>5, <1>6, <1>7, <1>8, <1>10, <1>11, <1>12, <1>13, <1>14

\* Steps at which the stream stands still and nobody is newly owed a row.
LEMMA StreamKeeps ==
  ASSUME TypeOK, EventInv, UNCHANGED eventVars,
         \A e \in Events, t \in Subs : Owed(e, t)' => Owed(e, t),
         \A t \in Subs : subs[t] # "none" => subs'[t] # "none"
  PROVE  EventInv'
<1>1. evt' = evt /\ sent' = sent /\ fan' = fan /\ audience' = audience
  BY Zenon DEF eventVars
<1>2. \A e \in Events : audience[e] \subseteq Subs
  BY Zenon DEF TypeOK
<1> QED BY Zenon, <1>1, <1>2 DEF EventInv

LEMMA SubscriptionsKeep ==
  ASSUME IInv, NEW s \in Subs, CreateWebhook(s) \/ DeleteWebhook(s)
  PROVE  IInv' /\ Stand
<1>1. TypeOK /\ EventInv /\ RowInv
  BY DEF IInv
<1>2. UNCHANGED <<rows, posts, job, eventVars>> /\ spent' = spent
  BY Zenon DEF CreateWebhook, DeleteWebhook
<1>3. /\ subs' \in [Subs -> {"none", "active", "deleted"}]
      /\ \A t \in Subs \ {s} : subs'[t] = subs[t]
      /\ subs'[s] # "none"
      /\ subs'[s] = "active" => subs[s] = "none"
      /\ subs'[s] = "deleted" => \A i \in Ids : rows[i].sub # s
  <2>1. CASE CreateWebhook(s)
    BY Zenon, <1>1, <2>1 DEF CreateWebhook, TypeOK
  <2>2. CASE DeleteWebhook(s)
    BY Zenon, <1>1, <2>2 DEF DeleteWebhook, TypeOK
  <2> QED BY Zenon, <2>1, <2>2
<1>4. \A i \in Ids : subs'[rows[i].sub] = "active"
  <2> SUFFICES ASSUME NEW i \in Ids PROVE subs'[rows[i].sub] = "active"
    OBVIOUS
  <2>1. rows[i].sub \in Subs /\ subs[rows[i].sub] = "active"
    BY <1>1, Shape DEF RowInv, Deliveries
  <2> QED BY <1>3, <2>1
<1>5. /\ RowInv' /\ WorkInv' /\ RightsInv' /\ Stand /\ Ids' = Ids
      /\ \A v \in Workers : Claimed(v)' = Claimed(v)
  BY <1>2, <1>4, QuietKeeps
<1>6. TypeOK'
  <2>1. /\ rows' = rows /\ posts' = posts /\ claim' = claim /\ stage' = stage /\ result' = result
        /\ evt' = evt /\ sent' = sent /\ fan' = fan /\ audience' = audience /\ skipped' = skipped
    BY Zenon, <1>2 DEF job, eventVars
  <2>2. \A w \in Workers : Claimed(w)' \subseteq Ids'
                           /\ \A i \in Claimed(w)' : claim'[w][i] \in 0..(MaxAttempts - 1)
    <3>1. \A w \in Workers : Claimed(w) \subseteq Ids
                             /\ \A i \in Claimed(w) : claim[w][i] \in 0..(MaxAttempts - 1)
      BY Zenon, <1>1 DEF TypeOK
    <3>2. Ids' = Ids /\ \A w \in Workers : Claimed(w)' = Claimed(w)
      BY Zenon, <1>5
    <3> QED BY Zenon, <2>1, <3>1, <3>2
  <2>3. /\ rows' \in Seq(Deliveries) /\ Len(rows') <= MaxRows
        /\ posts' \in Seq(Histories) /\ Len(posts') = Len(rows')
    BY Zenon, <1>1, <2>1 DEF TypeOK
  <2>4. spent' \in 0..MaxFaults
    BY Zenon, <1>1, <1>2 DEF TypeOK
  <2> QED BY Zenon, <1>1, <1>3, <2>1, <2>2, <2>3, <2>4 DEF TypeOK
<1>7. \A e \in Events, t \in Subs : Owed(e, t)' => Owed(e, t)
  <2>1. \A e \in Events : \A t \in audience[e] : subs[t] # "none"
    BY Zenon, <1>1 DEF EventInv
  <2>2. rows' = rows /\ audience' = audience /\ skipped' = skipped
    BY Zenon, <1>2 DEF eventVars
  <2>3. \A t \in Subs : subs'[t] = "active" => subs[t] = "active" \/ subs[t] = "none"
    BY Zenon, <1>3
  <2> QED BY Zenon, <1>5, <2>1, <2>2, <2>3 DEF Owed
<1>8. EventInv'
  BY Zenon, <1>1, <1>2, <1>3, <1>7, StreamKeeps
<1> QED BY <1>5, <1>6, <1>8 DEF IInv

\* A test delivery or a repeated one.
LEMMA RequestKeeps ==
  ASSUME IInv, NEW s \in Subs, subs[s] = "active", NEW m \in Events \cup {"test", "internal"},
         InsertDelivery(s, m), UNCHANGED <<subs, eventVars, job, spent>>
  PROVE  IInv' /\ Stand
<1>1. TypeOK /\ EventInv
  BY Zenon DEF IInv
<1>2. /\ rows' \in Seq(Deliveries) /\ posts' \in Seq(Histories)
      /\ Len(rows') <= MaxRows /\ Len(posts') = Len(rows')
      /\ RowInv' /\ WorkInv' /\ RightsInv' /\ Stand
      /\ Ids \subseteq Ids' /\ \A i \in Ids : rows'[i] = rows[i]
      /\ \A v \in Workers : Claimed(v)' = Claimed(v)
  BY ZenonT(60), InsertKeeps
<1>3. TypeOK'
  <2>1. /\ claim' = claim /\ stage' = stage /\ result' = result /\ subs' = subs /\ spent' = spent
        /\ evt' = evt /\ sent' = sent /\ fan' = fan /\ audience' = audience /\ skipped' = skipped
    BY Zenon DEF job, eventVars
  <2> QED BY <1>1, <1>2, <2>1 DEF TypeOK
<1>4. \A e \in Events, t \in Subs : Owed(e, t)' => Owed(e, t)
  <2>1. audience' = audience /\ skipped' = skipped /\ subs' = subs
    BY DEF eventVars
  <2> QED BY Zenon, <1>2, <2>1 DEF Owed
<1>5. EventInv'
  BY Zenon, <1>1, <1>4, StreamKeeps
<1> QED BY Zenon, <1>2, <1>3, <1>5 DEF IInv

-----------------------------------------------------------------------------
(* Steps of a worker *)

\* The history of row c after a step: m posts, a of them accepted, f faults.
PostStep(c, m, a, f) ==
  /\ posts' = [i \in Ids |-> posts'[i]]
  /\ \A i \in Ids : posts'[i] \in Histories /\ (i # c => posts'[i] = posts[i])
  /\ posts'[c].made = posts[c].made + m /\ posts'[c].accepted = posts[c].accepted + a
  /\ posts'[c].faults = posts[c].faults + f /\ (posts[c].unread => posts'[c].unread)

LEMMA PostStepKeeps ==
  ASSUME TypeOK, rows' = rows, NEW c \in Ids, NEW m \in Nat, NEW a \in Nat, NEW f \in Nat,
         PostStep(c, m, a, f)
  PROVE  RowsKept
<1>1. /\ rows \in [Ids -> Deliveries]
      /\ \A i \in Ids : rows[i] \in Deliveries /\ posts[i] \in Histories
  BY Shape
<1>2. rows' = [i \in Ids |-> rows'[i]]
  BY Zenon, <1>1
<1>3. \A i \in Ids : /\ posts'[i] \in Histories
                     /\ posts'[i].made >= posts[i].made /\ posts'[i].accepted >= posts[i].accepted
                     /\ posts'[i].faults >= posts[i].faults /\ (posts[i].unread => posts'[i].unread)
  BY <1>1 DEF PostStep, Histories
<1> QED BY <1>1, <1>2, <1>3 DEF RowsKept, PostStep

\* What the worker's row and claim are.
LEMMA AtRow ==
  ASSUME IInv, NEW w \in Workers, Claimed(w) # {}
  PROVE  /\ Cur(w) \in Claimed(w) /\ Cur(w) \in Ids
         /\ rows[Cur(w)] \in Deliveries /\ posts[Cur(w)] \in Histories
         /\ posts \in [Ids -> Histories]
         /\ claim[w][Cur(w)] \in Nat /\ claim[w][Cur(w)] + 1 <= MaxAttempts
         /\ claim[w][Cur(w)] <= posts[Cur(w)].made
<1>1. TypeOK /\ WorkInv
  BY DEF IInv
<1>2. Cur(w) \in Claimed(w) /\ Cur(w) \in Ids
  BY ZenonT(60), <1>1, CurClaimed
<1>3. claim[w][Cur(w)] \in 0..(MaxAttempts - 1) /\ claim[w][Cur(w)] <= posts[Cur(w)].made
  BY <1>1, <1>2 DEF TypeOK, WorkInv
<1> QED BY <1>1, <1>2, <1>3, Shape, WebhooksAssumption

LEMMA LookKeeps ==
  ASSUME IInv, NEW w \in Workers, GetWebhook(w) \/ GetWebhookFails(w)
  PROVE  IInv'
<1> DEFINE c == Cur(w)
<1>1. TypeOK /\ RowInv
  BY DEF IInv
<1>2. Claimed(w) # {} /\ stage[w] = "next" /\ rows' = rows /\ UNCHANGED <<subs, eventVars>>
  BY Zenon DEF GetWebhook, GetWebhookFails, At
<1>3. /\ c \in Claimed(w) /\ c \in Ids /\ rows[c] \in Deliveries /\ posts[c] \in Histories
      /\ posts \in [Ids -> Histories]
  BY ZenonT(60), <1>2, AtRow
<1>4. subs[rows[c].sub] = "active"
  BY <1>1, <1>3 DEF RowInv
<1>5. \/ posts' = posts /\ spent' = spent
      \/ posts' = [posts EXCEPT ![c].unread = TRUE] /\ spent' \in 0..MaxFaults
  BY Zenon, <1>1, SpentBounded DEF GetWebhook, GetWebhookFails
<1>6. spent' \in 0..MaxFaults
  BY <1>1, <1>5 DEF TypeOK
<1>7. PostStep(c, 0, 0, 0)
  <2>1. CASE posts' = posts
    BY <1>3, <2>1 DEF PostStep, Histories
  <2>2. CASE posts' = [posts EXCEPT ![c].unread = TRUE]
    <3>1. /\ posts' = [i \in Ids |-> posts'[i]] /\ \A i \in Ids : i # c => posts'[i] = posts[i]
          /\ posts'[c] = [posts[c] EXCEPT !.unread = TRUE]
      BY Zenon, <1>3, <2>2
    <3>2. /\ posts'[c] \in Histories /\ posts'[c].made = posts[c].made
          /\ posts'[c].accepted = posts[c].accepted /\ posts'[c].faults = posts[c].faults
          /\ posts'[c].unread
      BY Zenon, <1>3, <3>1 DEF Histories
    <3>3. /\ posts[c].made = posts[c].made + 0 /\ posts[c].accepted = posts[c].accepted + 0
          /\ posts[c].faults = posts[c].faults + 0
      BY <1>3 DEF Histories
    <3> QED BY Zenon, <1>3, <3>1, <3>2, <3>3 DEF PostStep
  <2> QED BY Zenon, <1>5, <2>1, <2>2
<1>8. RowsKept
  BY <1>1, <1>2, <1>3, <1>7, PostStepKeeps
<1>9. \A i \in Ids : posts'[i].accepted + posts[i].faults <=
        posts[i].accepted + posts'[i].faults + 0
  <2>1. \A i \in Ids : posts[i] \in Histories
    BY <1>3
  <2> QED BY <1>7, <2>1 DEF PostStep, Histories
<1>10. CASE Goes(w, "post", "none")
  BY Zenon, <1>2, <1>6, <1>8, <1>9, <1>10, GoesKeeps
<1>11. CASE Goes(w, "record", "unsent") /\ (~Deliverable(c) \/ posts'[c].unread)
  <2>1. Earned(rows[c], posts'[c], claim[w][c], "unsent")
    BY <1>11 DEF Earned, Deliverable
  <2> QED BY ZenonT(60), <1>2, <1>6, <1>8, <1>9, <1>11, <2>1, GoesKeeps
<1>12. GetWebhookFails(w) => posts'[c].unread
  BY <1>3 DEF GetWebhookFails
<1> QED BY <1>4, <1>10, <1>11, <1>12 DEF GetWebhook, GetWebhookFails

LEMMA AcceptedKeeps ==
  ASSUME IInv, NEW w \in Workers, PostAccepted(w)
  PROVE  IInv'
<1> DEFINE c == Cur(w)
<1>1. TypeOK
  BY DEF IInv
<1>2. /\ Claimed(w) # {} /\ stage[w] = "post" /\ rows' = rows /\ UNCHANGED <<subs, eventVars, spent>>
      /\ Goes(w, "record", "delivered")
      /\ posts' = [posts EXCEPT ![c].made = @ + 1, ![c].accepted = @ + 1]
  BY DEF PostAccepted, At
<1>3. /\ c \in Claimed(w) /\ c \in Ids /\ posts[c] \in Histories /\ posts \in [Ids -> Histories]
      /\ claim[w][c] \in Nat /\ claim[w][c] <= posts[c].made
  BY <1>2, AtRow
<1>4. PostStep(c, 1, 1, 0)
  BY <1>2, <1>3 DEF PostStep, Histories
<1>5. RowsKept
  BY <1>1, <1>2, <1>3, <1>4, PostStepKeeps
<1>6. Earned(rows[c], posts'[c], claim[w][c], "delivered")
  BY <1>3, <1>4 DEF Earned, PostStep, Histories
<1>7. \A i \in Ids : posts'[i].accepted + posts[i].faults <=
        posts[i].accepted + posts'[i].faults + (IF i = c /\ "delivered" = "delivered" THEN 1 ELSE 0)
  BY <1>3, <1>4 DEF PostStep, Histories
<1>8. spent' \in 0..MaxFaults
  BY Zenon, <1>1, <1>2 DEF TypeOK
<1> QED BY Zenon, <1>2, <1>5, <1>6, <1>7, <1>8, GoesKeeps

LEMMA RefusedKeeps ==
  ASSUME IInv, NEW w \in Workers, PostRefused(w) \/ PostAnswerLost(w)
  PROVE  IInv'
<1> DEFINE c == Cur(w)
           o == Retry(claim[w][c] + 1)
<1>1. TypeOK
  BY DEF IInv
<1>2. /\ Claimed(w) # {} /\ stage[w] = "post" /\ rows' = rows /\ UNCHANGED <<subs, eventVars>>
      /\ Goes(w, "record", o)
      /\ \/ posts' = [posts EXCEPT ![c].made = @ + 1] /\ spent' = spent
         \/ /\ posts' = [posts EXCEPT ![c].made = @ + 1, ![c].accepted = @ + 1, ![c].faults = @ + 1]
            /\ Fault
  BY DEF PostRefused, PostAnswerLost, At
<1>3. /\ c \in Claimed(w) /\ c \in Ids /\ posts[c] \in Histories /\ posts \in [Ids -> Histories]
      /\ claim[w][c] \in Nat /\ claim[w][c] <= posts[c].made
  BY Zenon, <1>2, AtRow
<1>4. PostStep(c, 1, 0, 0) \/ PostStep(c, 1, 1, 1)
  <2>1. ASSUME posts' = [posts EXCEPT ![c].made = @ + 1] PROVE PostStep(c, 1, 0, 0)
    <3>1. /\ posts' = [i \in Ids |-> posts'[i]] /\ \A i \in Ids : i # c => posts'[i] = posts[i]
          /\ posts'[c] = [posts[c] EXCEPT !.made = @ + 1]
      BY Zenon, <1>3, <2>1
    <3>2. /\ posts'[c] \in Histories /\ posts'[c].made = posts[c].made + 1
          /\ posts'[c].accepted = posts[c].accepted + 0 /\ posts'[c].faults = posts[c].faults + 0
          /\ posts[c].unread => posts'[c].unread
      BY <1>3, <3>1 DEF Histories
    <3> QED BY <1>3, <3>1, <3>2 DEF PostStep
  <2>2. ASSUME posts' = [posts EXCEPT ![c].made = @ + 1, ![c].accepted = @ + 1, ![c].faults = @ + 1]
        PROVE  PostStep(c, 1, 1, 1)
    BY <1>3, <2>2 DEF PostStep, Histories
  <2> QED BY <1>2, <2>1, <2>2
<1>5. RowsKept
  BY ZenonT(60), <1>1, <1>2, <1>3, <1>4, PostStepKeeps
<1>6. /\ o \in {"failed", "dead_letter"}
      /\ o = "failed" => claim[w][c] + 1 < MaxAttempts
      /\ o = "dead_letter" => claim[w][c] + 1 >= MaxAttempts
  BY <1>3, WebhooksAssumption DEF Retry
<1> HIDE DEF o
<1>7. Earned(rows[c], posts'[c], claim[w][c], o)
  BY <1>3, <1>4, <1>6 DEF Earned, PostStep, Histories
<1>8. \A i \in Ids : posts'[i].accepted + posts[i].faults <=
        posts[i].accepted + posts'[i].faults + (IF i = c /\ o = "delivered" THEN 1 ELSE 0)
  <2>1. \A i \in Ids : posts[i] \in Histories
    BY Zenon, <1>3
  <2> QED BY <1>4, <1>6, <2>1 DEF PostStep, Histories
<1>9. spent' \in 0..MaxFaults
  BY Zenon, <1>1, <1>2, SpentBounded
<1> QED BY Zenon, <1>2, <1>5, <1>6, <1>7, <1>8, <1>9, GoesKeeps

\* The fields of the row q that FinishDelivery writes over r.
AsRecorded(q, r, a, o) ==
  /\ q \in Deliveries /\ q.sub = r.sub /\ q.of = r.of
  /\ q.status = (IF o = "unsent" THEN "dead_letter" ELSE o)
  /\ q.attempts = (IF o = "unsent" THEN a ELSE a + 1)
  /\ q.wait = (o = "failed")

LEMMA RecordedRow ==
  ASSUME NEW r \in Deliveries, NEW a \in Nat, a + 1 <= MaxAttempts,
         NEW o \in {"unsent", "delivered", "failed", "dead_letter"}, NEW q,
         q = Recorded(r, a, o)
  PROVE  AsRecorded(q, r, a, o)
<1> DEFINE st == IF o = "unsent" THEN "dead_letter" ELSE o
           b  == IF o = "unsent" THEN a ELSE a + 1
           x  == o = "failed"
<1>1. st \in Open \cup {"delivered", "dead_letter"} /\ b \in 0..MaxAttempts /\ x \in BOOLEAN
  BY WebhooksAssumption DEF Open
<1>2. q = [r EXCEPT !.status = st, !.attempts = b, !.wait = x]
  BY Zenon DEF Recorded
<1> HIDE DEF st, b, x
<1>3. /\ q \in Deliveries /\ q.sub = r.sub /\ q.of = r.of /\ q.status = st /\ q.attempts = b /\ q.wait = x
  BY Zenon, <1>1, <1>2 DEF Deliveries
<1> QED BY <1>3 DEF AsRecorded, st, b, x

LEMMA FinishKeeps ==
  ASSUME IInv, NEW w \in Workers, FinishDelivery(w)
  PROVE  IInv' /\ Stand
<1> DEFINE c == Cur(w)
           k == claim[w][c]
           S == Claimed(w) \ {c}
<1>1. TypeOK /\ RowInv /\ WorkInv
  BY DEF IInv
<1>2. /\ Claimed(w) # {} /\ At(w, "record") /\ stage[w] = "record"
      /\ rows' = IF Current(c, k) THEN [rows EXCEPT ![c] = Recorded(rows[c], k, result[w])] ELSE rows
      /\ Left(w, S) /\ posts' = posts /\ UNCHANGED <<subs, eventVars>> /\ spent' = spent
  BY DEF FinishDelivery, NextRow, At
<1>3. /\ c \in Claimed(w) /\ c \in Ids /\ rows[c] \in Deliveries /\ posts[c] \in Histories
      /\ k \in Nat /\ k + 1 <= MaxAttempts /\ k <= posts[c].made
  BY Zenon, <1>2, AtRow
<1>4. Earned(rows[c], posts[c], k, result[w])
  BY Zenon, <1>1, <1>2 DEF WorkInv
<1>5. /\ rows \in [Ids -> Deliveries] /\ posts \in [Ids -> Histories]
      /\ \A i \in Ids : rows[i] \in Deliveries /\ posts[i] \in Histories
  BY Zenon, <1>1, Shape
<1> HIDE DEF k
<1>6. ASSUME Current(c, k)
      PROVE  /\ rows'[c] \in Deliveries
             /\ rows'[c].sub = rows[c].sub /\ rows'[c].of = rows[c].of
             /\ rows'[c].status \in Open => rows'[c].attempts < MaxAttempts
             /\ rows'[c].status \notin Open => ~rows'[c].wait
             /\ rows'[c].attempts <= posts[c].made /\ rows'[c].attempts >= rows[c].attempts
             /\ rows'[c].status = "delivered" => posts[c].accepted > 0
             /\ rows'[c].status = "dead_letter" =>
                  posts[c].made >= MaxAttempts \/ rows[c].of = "internal" \/ posts[c].unread
             /\ result[w] = "delivered" => rows'[c].status \notin Open
             /\ rows' = [i \in Ids |-> rows'[i]]
  <2>1. /\ rows'[c] = Recorded(rows[c], k, result[w]) /\ rows' = [i \in Ids |-> rows'[i]]
        /\ rows[c].attempts = k
    BY Zenon, <1>2, <1>3, <1>5, <1>6 DEF Current
  <2>2. posts[c].made \in Nat /\ MaxAttempts \in Nat
    BY Zenon, <1>3, WebhooksAssumption DEF Histories
  <2>3. /\ rows'[c] \in Deliveries /\ rows'[c].sub = rows[c].sub /\ rows'[c].of = rows[c].of
        /\ rows'[c].status = (IF result[w] = "unsent" THEN "dead_letter" ELSE result[w])
        /\ rows'[c].attempts = (IF result[w] = "unsent" THEN k ELSE k + 1)
        /\ rows'[c].wait = (result[w] = "failed")
    <3>1. result[w] \in {"unsent", "delivered", "failed", "dead_letter"}
      BY Zenon, <1>4 DEF Earned
    <3>2. AsRecorded(rows'[c], rows[c], k, result[w])
      BY ONLY Zenon, <1>3, <2>1, <3>1, RecordedRow
    <3> QED BY ONLY Zenon, <3>2 DEF AsRecorded
  <2>4. /\ rows'[c].status \in Open => rows'[c].attempts < MaxAttempts
        /\ rows'[c].status \notin Open => ~rows'[c].wait
        /\ result[w] = "delivered" => rows'[c].status \notin Open
        /\ rows'[c].status = "delivered" => posts[c].accepted > 0
    BY ONLY ZenonT(60), <1>4, <2>3 DEF Earned, Open
  <2>5. rows'[c].attempts <= posts[c].made /\ rows'[c].attempts >= rows[c].attempts
    BY ONLY <1>3, <1>4, <2>1, <2>2, <2>3 DEF Earned
  <2>6. rows'[c].status = "dead_letter" =>
          posts[c].made >= MaxAttempts \/ rows[c].of = "internal" \/ posts[c].unread
    BY <1>3, <1>4, <2>2, <2>3 DEF Earned
  <2> QED BY Zenon, <2>1, <2>3, <2>4, <2>5, <2>6
<1>7. /\ \A i \in Ids : i # c => rows'[i] = rows[i]
      /\ ~Current(c, k) => rows' = rows
  BY Zenon, <1>2, <1>5
<1>8. RowsKept
  <2>1. /\ rows' = [i \in Ids |-> rows'[i]]
        /\ \A i \in Ids : /\ rows'[i] \in Deliveries
                          /\ rows'[i].sub = rows[i].sub /\ rows'[i].of = rows[i].of
    BY Zenon, <1>5, <1>6, <1>7
  <2>2. posts' = [i \in Ids |-> posts'[i]]
    BY Zenon, <1>2, <1>5
  <2>3. \A i \in Ids : /\ posts'[i] \in Histories /\ posts'[i].made >= posts[i].made
                       /\ posts'[i].accepted >= posts[i].accepted
                       /\ posts'[i].faults >= posts[i].faults /\ (posts[i].unread => posts'[i].unread)
    BY Zenon, <1>2, <1>5, SameHistory
  <2> QED BY Zenon, <2>1, <2>2, <2>3 DEF RowsKept
<1>9. Ids' = Ids
  BY <1>1, <1>8, KeptRows
<1>10. RowInv'
  <2> SUFFICES ASSUME NEW i \in Ids
               PROVE  /\ subs[rows'[i].sub] = "active"
                      /\ rows'[i].status \in Open => rows'[i].attempts < MaxAttempts
                      /\ rows'[i].status \notin Open => ~rows'[i].wait
                      /\ rows'[i].attempts <= posts[i].made
                      /\ rows'[i].status = "delivered" => posts[i].accepted > 0
                      /\ rows'[i].status = "dead_letter" =>
                           posts[i].made >= MaxAttempts \/ rows'[i].of = "internal" \/ posts[i].unread
    BY Zenon, <1>2, <1>9 DEF RowInv, Deliverable
  <2>1. CASE i = c /\ Current(c, k)
    BY Zenon, <1>1, <1>6, <2>1 DEF RowInv
  <2>2. CASE rows'[i] = rows[i]
    BY Zenon, <1>1, <2>2 DEF RowInv, Deliverable
  <2> QED BY Zenon, <1>7, <2>1, <2>2
<1>11. \/ MayPost(w, c) \/ rows'[c].status \notin Open
       \/ rows'[c] = rows[c] /\ k # rows[c].attempts
  <2>1. CASE result[w] # "delivered"
    BY Zenon, <1>3, <2>1 DEF MayPost
  <2>2. CASE result[w] = "delivered" /\ Current(c, k)
    BY Zenon, <1>6, <2>2
  <2>3. CASE ~Current(c, k)
    BY Zenon, <1>7, <2>3 DEF Current
  <2> QED BY Zenon, <2>1, <2>2, <2>3
<1>12. spent' \in 0..MaxFaults
  BY Zenon, <1>1, <1>2 DEF TypeOK
<1>13. IInv'
  <2>1. S \in SUBSET Claimed(w) /\ c \notin S
    BY Zenon
  <2> QED BY ZenonT(60), <1>2, <1>7, <1>8, <1>10, <1>11, <1>12, <2>1, LeftKeeps DEF k
<1>14. Stand
  <2> SUFFICES ASSUME NEW i \in Ids
               PROVE  /\ rows'[i].attempts >= rows[i].attempts
                      /\ rows[i].status \notin Open => rows'[i] = rows[i]
    BY Zenon DEF Stand
  <2>1. CASE i = c /\ Current(c, k)
    BY ZenonT(60), <1>6, <2>1 DEF Current
  <2>2. CASE rows'[i] = rows[i]
    BY <1>5, <2>2, WebhooksAssumption DEF Deliveries
  <2> QED BY Zenon, <1>7, <2>1, <2>2
<1> QED BY <1>13, <1>14

\* The worker lets the row, or its whole batch, go without recording.
LEMMA DropKeeps ==
  ASSUME IInv, NEW w \in Workers, FinishDeliveryFails(w) \/ Crash(w)
  PROVE  IInv'
<1> DEFINE c == Cur(w)
<1>1. TypeOK /\ RowInv
  BY DEF IInv
<1>2. /\ Claimed(w) # {} /\ rows' = rows /\ UNCHANGED <<subs, eventVars>> /\ Fault
      /\ \/ Left(w, Claimed(w) \ {c}) \/ Left(w, {})
      /\ \/ posts' = [posts EXCEPT ![c].faults = @ + 1]
         \/ posts' = posts /\ stage[w] # "record"
  BY DEF FinishDeliveryFails, NextRow, Crash, At
<1>3. c \in Claimed(w) /\ c \in Ids /\ posts \in [Ids -> Histories] /\ posts[c] \in Histories
  BY <1>2, AtRow
<1>4. PostStep(c, 0, 0, 1) \/ (PostStep(c, 0, 0, 0) /\ stage[w] # "record")
  <2>1. ASSUME posts' = [posts EXCEPT ![c].faults = @ + 1] PROVE PostStep(c, 0, 0, 1)
    <3>1. /\ posts' = [i \in Ids |-> posts'[i]] /\ \A i \in Ids : i # c => posts'[i] = posts[i]
          /\ posts'[c] = [posts[c] EXCEPT !.faults = @ + 1]
      BY Zenon, <1>3, <2>1
    <3>2. /\ posts'[c] \in Histories /\ posts'[c].made = posts[c].made + 0
          /\ posts'[c].accepted = posts[c].accepted + 0 /\ posts'[c].faults = posts[c].faults + 1
          /\ posts[c].unread => posts'[c].unread
      BY <1>3, <3>1 DEF Histories
    <3> QED BY <1>3, <3>1, <3>2 DEF PostStep
  <2>2. ASSUME posts' = posts PROVE PostStep(c, 0, 0, 0)
    BY <1>3, <2>2 DEF PostStep, Histories
  <2> QED BY <1>2, <2>1, <2>2
<1>5. RowsKept
  BY ZenonT(60), <1>1, <1>2, <1>3, <1>4, PostStepKeeps
<1>6. /\ \A i \in Ids : posts'[i].accepted = posts[i].accepted /\ posts'[i].made = posts[i].made
                        /\ (posts[i].unread => posts'[i].unread)
      /\ MayPost(w, c) \/ posts'[c].faults > posts[c].faults
  <2>1. \A i \in Ids : posts[i] \in Histories
    BY <1>3
  <2> QED BY <1>3, <1>4, <2>1 DEF PostStep, Histories, MayPost
<1>7. RowInv'
  BY Zenon, <1>1, <1>2, <1>6 DEF RowInv, Ids, Deliverable
<1>8. spent' \in 0..MaxFaults
  BY Zenon, <1>1, <1>2, SpentBounded
<1>9. PICK S \in SUBSET Claimed(w) : c \notin S /\ Left(w, S)
  BY Zenon, <1>2
<1> QED BY ZenonT(60), <1>2, <1>5, <1>6, <1>7, <1>8, <1>9, LeftKeeps

-----------------------------------------------------------------------------
(* Steps of the fan-out *)

\* The fan-out's frame: everything but the stream and, at an insert, the rows.
LEMMA FanKeeps ==
  ASSUME IInv, UNCHANGED <<rows, posts, job, subs>>, EventInv',
         spent' \in 0..MaxFaults,
         evt' \in [Events -> {"none", "queued", "acked", "dropped"}],
         sent' \in [Events -> 0..MaxDeliver],
         fan' \in [msg : Events \cup {None}, todo : SUBSET Subs],
         audience' \in [Events -> SUBSET Subs], skipped' \subseteq Events \X Subs
  PROVE  IInv' /\ Stand
<1>1. TypeOK /\ RowInv
  BY Zenon DEF IInv
<1>2. \A i \in Ids : subs'[rows[i].sub] = "active"
  BY Zenon, <1>1 DEF RowInv
<1>3. /\ RowInv' /\ WorkInv' /\ RightsInv' /\ Stand /\ Ids' = Ids
      /\ \A v \in Workers : Claimed(v)' = Claimed(v)
  BY ZenonT(60), <1>2, QuietKeeps
<1>4. TypeOK'
  BY <1>1, <1>3 DEF TypeOK, job
<1> QED BY Zenon, <1>3, <1>4 DEF IInv

LEMMA PublishKeeps ==
  ASSUME IInv, NEW e \in Events, Publish(e)
  PROVE  IInv' /\ Stand
<1>1. TypeOK /\ EventInv
  BY Zenon DEF IInv
<1>2. /\ evt[e] = "none" /\ evt' = [evt EXCEPT ![e] = "queued"]
      /\ audience' = [audience EXCEPT ![e] = Live]
      /\ UNCHANGED <<rows, posts, job, subs>> /\ sent' = sent /\ fan' = fan
      /\ spent' = spent /\ skipped' = skipped
  BY Zenon DEF Publish
<1>3. /\ evt' \in [Events -> {"none", "queued", "acked", "dropped"}]
      /\ audience' \in [Events -> SUBSET Subs] /\ evt'[e] = "queued" /\ audience'[e] = Live
      /\ \A d \in Events : d # e => evt'[d] = evt[d] /\ audience'[d] = audience[d]
  BY ZenonT(60), <1>1, <1>2 DEF TypeOK, Live
<1>4. \A d \in Events, s \in Subs : d # e => (Owed(d, s)' <=> Owed(d, s))
  BY Zenon, <1>2, <1>3 DEF Owed, Ids
<1>5. fan.msg # e /\ sent[e] < MaxDeliver
  <2>1. fan.msg # e /\ sent[e] = 0
    BY Zenon, <1>1, <1>2 DEF EventInv
  <2>2. 0 < MaxDeliver
    BY ONLY WebhooksAssumption
  <2> QED BY Zenon, <2>1, <2>2
<1>6. EventInv'
  <2>1. ASSUME NEW d \in Events
        PROVE  /\ evt'[d] = "none" => sent'[d] = 0 /\ audience'[d] = {}
               /\ evt'[d] = "queued" /\ fan'.msg # d => sent'[d] < MaxDeliver
               /\ evt'[d] = "acked" => \A s \in Subs : ~Owed(d, s)'
               /\ \A s \in audience'[d] : subs'[s] # "none"
               /\ fan'.msg = d => evt'[d] = "queued" /\ \A s \in Subs : Owed(d, s)' => s \in fan'.todo
    <3>1. CASE d = e
      BY ZenonT(60), <1>2, <1>3, <1>5, <3>1 DEF Live
    <3>2. CASE d # e
      BY ZenonT(60), <1>1, <1>2, <1>3, <1>4, <3>2 DEF EventInv
    <3> QED BY Zenon, <3>1, <3>2
  <2>2. fan'.msg = None => fan'.todo = {}
    BY <1>1, <1>2 DEF EventInv
  <2> QED BY Zenon, <2>1, <2>2 DEF EventInv
<1>7. /\ spent' \in 0..MaxFaults /\ sent' \in [Events -> 0..MaxDeliver]
      /\ fan' \in [msg : Events \cup {None}, todo : SUBSET Subs] /\ skipped' \subseteq Events \X Subs
  BY <1>1, <1>2 DEF TypeOK
<1> QED BY Zenon, <1>2, <1>3, <1>6, <1>7, FanKeeps

\* A message is received: the consumer is idle, so the event has deliveries left.
LEMMA ReceiveKeeps ==
  ASSUME IInv, NEW e \in Events, GetActiveWebhooksForEvent(e) \/ LookupFails(e)
  PROVE  IInv' /\ Stand
<1>1. TypeOK /\ EventInv
  BY Zenon DEF IInv
<1>2. /\ evt[e] = "queued" /\ fan.msg = None /\ sent' = [sent EXCEPT ![e] = @ + 1]
      /\ UNCHANGED <<rows, posts, job, subs>> /\ audience' = audience /\ skipped' = skipped
  BY ZenonT(60) DEF GetActiveWebhooksForEvent, LookupFails, Receive
<1>3. /\ sent[e] < MaxDeliver /\ fan.msg # e /\ sent[e] \in Nat
      /\ \A d \in Events : fan.msg # d
  BY <1>1, <1>2, WebhooksAssumption DEF EventInv, TypeOK
<1>4. /\ sent' \in [Events -> 0..MaxDeliver] /\ sent'[e] = sent[e] + 1
      /\ \A d \in Events : d # e => sent'[d] = sent[d]
  BY <1>1, <1>2, <1>3, WebhooksAssumption DEF TypeOK
<1>5. \A d \in Events, s \in Subs : Owed(d, s)' <=> Owed(d, s)
  BY Zenon, <1>2 DEF Owed, Ids
<1>6. CASE GetActiveWebhooksForEvent(e)
  <2>1. fan' = [msg |-> e, todo |-> Live] /\ evt' = evt /\ spent' = spent
    BY Zenon, <1>6 DEF GetActiveWebhooksForEvent
  <2>2. fan' \in [msg : Events \cup {None}, todo : SUBSET Subs] /\ fan'.msg = e /\ fan'.todo = Live
    BY Zenon, <2>1 DEF Live
  <2>3. \A s \in Subs : Owed(e, s) => s \in Live
    BY Zenon DEF Owed, Live
  <2>4. EventInv'
    <3>1. ASSUME NEW d \in Events
          PROVE  /\ evt'[d] = "none" => sent'[d] = 0 /\ audience'[d] = {}
                 /\ evt'[d] = "queued" /\ fan'.msg # d => sent'[d] < MaxDeliver
                 /\ evt'[d] = "acked" => \A s \in Subs : ~Owed(d, s)'
                 /\ \A s \in audience'[d] : subs'[s] # "none"
                 /\ fan'.msg = d => evt'[d] = "queued" /\ \A s \in Subs : Owed(d, s)' => s \in fan'.todo
      <4>1. CASE d = e
        BY Zenon, <1>1, <1>2, <1>5, <2>1, <2>2, <2>3, <4>1 DEF EventInv
      <4>2. CASE d # e
        BY ZenonT(60), <1>1, <1>2, <1>3, <1>4, <1>5, <2>1, <2>2, <4>2 DEF EventInv
      <4> QED BY Zenon, <4>1, <4>2
    <3> QED BY Zenon, <2>2, <3>1, WebhooksAssumption DEF EventInv
  <2>5. /\ spent' \in 0..MaxFaults /\ evt' \in [Events -> {"none", "queued", "acked", "dropped"}]
        /\ audience' \in [Events -> SUBSET Subs] /\ skipped' \subseteq Events \X Subs
    BY Zenon, <1>1, <1>2, <2>1 DEF TypeOK
  <2> QED BY ZenonT(60), <1>2, <1>4, <2>2, <2>4, <2>5, FanKeeps
<1>7. CASE LookupFails(e)
  <2>1. fan' = fan /\ Fault /\ Unacked(e)
    BY Zenon, <1>7 DEF LookupFails
  <2>2. /\ evt' \in [Events -> {"none", "queued", "acked", "dropped"}]
        /\ evt'[e] \in {"queued", "dropped"} /\ (evt'[e] = "queued" => sent'[e] < MaxDeliver)
        /\ \A d \in Events : d # e => evt'[d] = evt[d]
    BY Zenon, <1>1, <2>1 DEF TypeOK, Unacked
  <2>3. EventInv'
    <3>1. ASSUME NEW d \in Events
          PROVE  /\ evt'[d] = "none" => sent'[d] = 0 /\ audience'[d] = {}
                 /\ evt'[d] = "queued" /\ fan'.msg # d => sent'[d] < MaxDeliver
                 /\ evt'[d] = "acked" => \A s \in Subs : ~Owed(d, s)'
                 /\ \A s \in audience'[d] : subs'[s] # "none"
                 /\ fan'.msg = d => evt'[d] = "queued" /\ \A s \in Subs : Owed(d, s)' => s \in fan'.todo
      <4>1. CASE d = e
        BY Zenon, <1>1, <1>2, <1>3, <2>1, <2>2, <4>1 DEF EventInv
      <4>2. CASE d # e
        BY ZenonT(60), <1>1, <1>2, <1>4, <1>5, <2>1, <2>2, <4>2 DEF EventInv
      <4> QED BY <4>1, <4>2
    <3> QED BY ZenonT(60), <1>1, <2>1, <3>1 DEF EventInv
  <2>4. /\ spent' \in 0..MaxFaults /\ fan' \in [msg : Events \cup {None}, todo : SUBSET Subs]
        /\ audience' \in [Events -> SUBSET Subs] /\ skipped' \subseteq Events \X Subs
    BY Zenon, <1>1, <1>2, <2>1, SpentBounded DEF TypeOK
  <2> QED BY Zenon, <1>2, <1>4, <2>2, <2>3, <2>4, FanKeeps
<1> QED BY <1>6, <1>7

\* The handler ends: acknowledged with every row inserted, or not acknowledged.
LEMMA EndKeeps ==
  ASSUME IInv, FanoutAck \/ FanoutLost
  PROVE  IInv' /\ Stand
<1>1. TypeOK /\ EventInv
  BY Zenon DEF IInv
<1> DEFINE e == fan.msg
<1>2. /\ e \in Events /\ e # None /\ fan' = [msg |-> None, todo |-> {}] /\ sent' = sent
      /\ UNCHANGED <<rows, posts, job, subs>> /\ audience' = audience /\ skipped' = skipped
  BY Zenon, <1>1 DEF FanoutAck, FanoutLost, TypeOK
<1>3. /\ fan' \in [msg : Events \cup {None}, todo : SUBSET Subs] /\ fan'.msg = None /\ fan'.todo = {}
      /\ \A d \in Events : fan'.msg # d
  BY Zenon, <1>2, WebhooksAssumption
<1>4. \A d \in Events, s \in Subs : Owed(d, s)' <=> Owed(d, s)
  BY Zenon, <1>2 DEF Owed, Ids
<1>5. evt[e] = "queued" /\ \A s \in Subs : Owed(e, s) => s \in fan.todo
  BY Zenon, <1>1, <1>2 DEF EventInv
<1>6. /\ evt' \in [Events -> {"none", "queued", "acked", "dropped"}]
      /\ evt'[e] \in {"queued", "dropped", "acked"}
      /\ evt'[e] = "queued" => sent'[e] < MaxDeliver
      /\ evt'[e] = "acked" => fan.todo = {}
      /\ \A d \in Events : d # e => evt'[d] = evt[d]
  <2>1. CASE FanoutAck
    BY Zenon, <1>1, <1>2, <2>1 DEF FanoutAck, TypeOK
  <2>2. CASE FanoutLost
    BY Zenon, <1>1, <1>2, <2>2 DEF FanoutLost, Unacked, TypeOK
  <2> QED BY Zenon, <2>1, <2>2
<1>7. spent' \in 0..MaxFaults
  BY ZenonT(60), <1>1, SpentBounded DEF FanoutAck, FanoutLost
<1> HIDE DEF e
<1>8. EventInv'
  <2>1. ASSUME NEW d \in Events
        PROVE  /\ evt'[d] = "none" => sent'[d] = 0 /\ audience'[d] = {}
               /\ evt'[d] = "queued" /\ fan'.msg # d => sent'[d] < MaxDeliver
               /\ evt'[d] = "acked" => \A s \in Subs : ~Owed(d, s)'
               /\ \A s \in audience'[d] : subs'[s] # "none"
               /\ fan'.msg = d => evt'[d] = "queued" /\ \A s \in Subs : Owed(d, s)' => s \in fan'.todo
    <3>1. CASE d = e
      BY ZenonT(60), <1>1, <1>2, <1>3, <1>4, <1>5, <1>6, <3>1 DEF EventInv
    <3>2. CASE d # e
      BY ZenonT(60), <1>1, <1>2, <1>3, <1>4, <1>6, <3>2 DEF EventInv, e
    <3> QED BY <3>1, <3>2
  <2> QED BY <1>3, <2>1 DEF EventInv
<1>9. /\ sent' \in [Events -> 0..MaxDeliver] /\ audience' \in [Events -> SUBSET Subs]
      /\ skipped' \subseteq Events \X Subs
  BY Zenon, <1>1, <1>2 DEF TypeOK
<1> QED BY Zenon, <1>2, <1>3, <1>6, <1>7, <1>8, <1>9, FanKeeps

\* The row of one subscription: inserted, refused, or failed and noted.
LEMMA RowKeeps ==
  ASSUME IInv, NEW s \in Subs, FanoutInsert(s) \/ FanoutInsertFails(s)
  PROVE  IInv' /\ Stand
<1> DEFINE e == fan.msg
<1>1. TypeOK /\ EventInv /\ RowInv
  BY DEF IInv
<1>2. /\ s \in fan.todo /\ fan' = [fan EXCEPT !.todo = @ \ {s}]
      /\ subs' = subs /\ evt' = evt /\ sent' = sent /\ audience' = audience /\ UNCHANGED job
  BY DEF FanoutInsert, FanoutInsertFails
<1>3. /\ fan \in [msg : Events \cup {None}, todo : SUBSET Subs]
      /\ fan' \in [msg : Events \cup {None}, todo : SUBSET Subs]
      /\ fan'.msg = e /\ fan'.todo = fan.todo \ {s} /\ e \in Events /\ e # None
  BY Zenon, <1>1, <1>2 DEF TypeOK, EventInv
<1>4. spent' \in 0..MaxFaults /\ skipped' \subseteq Events \X Subs
  <2>1. spent' \in 0..MaxFaults
    BY Zenon, <1>1, SpentBounded DEF FanoutInsert, FanoutInsertFails
  <2>2. skipped' \subseteq Events \X Subs
    BY <1>1, <1>3 DEF TypeOK, FanoutInsert, FanoutInsertFails
  <2> QED BY Zenon, <2>1, <2>2
<1>5. /\ IInv' <=> TypeOK' /\ RowInv' /\ WorkInv' /\ EventInv' /\ RightsInv'
      /\ claim' = claim /\ stage' = stage /\ result' = result
  BY <1>2 DEF IInv, job
<1>6. /\ RowInv' /\ WorkInv' /\ RightsInv' /\ Stand
      /\ rows' \in Seq(Deliveries) /\ posts' \in Seq(Histories)
      /\ Len(rows') <= MaxRows /\ Len(posts') = Len(rows')
      /\ Ids \subseteq Ids' /\ \A i \in Ids : rows'[i] = rows[i]
      /\ \A v \in Workers : Claimed(v)' = Claimed(v)
      /\ \/ subs[s] # "active" \/ skipped' = skipped \cup {<<e, s>>}
         \/ \E i \in Ids' : rows'[i].sub = s /\ rows'[i].of = e
  <2>1. CASE FanoutInsert(s) /\ subs[s] = "active"
    <3>1. InsertDelivery(s, e) /\ e \in Events \cup {"test", "internal"}
      BY <1>3, <2>1 DEF FanoutInsert
    <3>2. /\ rows' \in Seq(Deliveries) /\ posts' \in Seq(Histories)
          /\ Len(rows') <= MaxRows /\ Len(posts') = Len(rows')
          /\ RowInv' /\ WorkInv' /\ RightsInv' /\ Stand
          /\ Ids' = Ids \cup {Len(rows) + 1} /\ \A i \in Ids : rows'[i] = rows[i]
          /\ rows'[Len(rows) + 1] = NewRow(s, e)
          /\ \A v \in Workers : Claimed(v)' = Claimed(v)
      BY ZenonT(60), <1>2, <2>1, <3>1, InsertKeeps
    <3>3. \E i \in Ids' : rows'[i].sub = s /\ rows'[i].of = e
      BY <3>2 DEF NewRow
    <3> QED BY Zenon, <3>2, <3>3
  <2>2. CASE rows' = rows /\ posts' = posts
    <3>1. \A i \in Ids : subs'[rows[i].sub] = "active"
      BY <1>1, <1>2 DEF RowInv
    <3>2. /\ RowInv' /\ WorkInv' /\ RightsInv' /\ Stand /\ Ids' = Ids
          /\ \A v \in Workers : Claimed(v)' = Claimed(v)
      BY Zenon, <1>2, <2>2, <3>1, QuietKeeps
    <3>3. /\ rows' \in Seq(Deliveries) /\ posts' \in Seq(Histories)
          /\ Len(rows') <= MaxRows /\ Len(posts') = Len(rows')
      BY Zenon, <1>1, <2>2 DEF TypeOK
    <3>4. \/ subs[s] # "active" \/ skipped' = skipped \cup {<<e, s>>}
          \/ \E i \in Ids' : rows'[i].sub = s /\ rows'[i].of = e
      <4>1. CASE FanoutInsert(s) /\ subs[s] = "active"
        BY Zenon, <2>1, <4>1
      <4>2. CASE FanoutInsertFails(s)
        BY <4>2 DEF FanoutInsertFails
      <4> QED BY Zenon, <4>1, <4>2
    <3> QED BY Zenon, <2>2, <3>2, <3>3, <3>4
  <2> QED BY <2>1, <2>2 DEF FanoutInsert, FanoutInsertFails
<1>7. skipped \subseteq skipped'
  BY Zenon DEF FanoutInsert, FanoutInsertFails
<1>8. \A d \in Events, t \in Subs : Owed(d, t)' => Owed(d, t) /\ ~(d = e /\ t = s)
  <2> SUFFICES ASSUME NEW d \in Events, NEW t \in Subs,
                      t \in audience[d], subs[t] = "active", <<d, t>> \notin skipped',
                      \A i \in Ids' : ~(rows'[i].sub = t /\ rows'[i].of = d)
               PROVE  Owed(d, t) /\ ~(d = e /\ t = s)
    BY Zenon, <1>2 DEF Owed
  <2>1. \A i \in Ids : ~(rows[i].sub = t /\ rows[i].of = d)
    BY Zenon, <1>6
  <2>2. ~(d = e /\ t = s)
    BY Zenon, <1>6
  <2> QED BY Zenon, <1>7, <2>1, <2>2 DEF Owed
<1>9. EventInv'
  <2>1. ASSUME NEW d \in Events
        PROVE  /\ evt'[d] = "none" => sent'[d] = 0 /\ audience'[d] = {}
               /\ evt'[d] = "queued" /\ fan'.msg # d => sent'[d] < MaxDeliver
               /\ evt'[d] = "acked" => \A t \in Subs : ~Owed(d, t)'
               /\ \A t \in audience'[d] : subs'[t] # "none"
               /\ fan'.msg = d => evt'[d] = "queued" /\ \A t \in Subs : Owed(d, t)' => t \in fan'.todo
    BY ZenonT(60), <1>1, <1>2, <1>3, <1>8 DEF EventInv
  <2> QED BY Zenon, <1>3, <2>1 DEF EventInv
<1>10. TypeOK'
  BY <1>1, <1>2, <1>3, <1>4, <1>5, <1>6 DEF TypeOK
<1> QED BY Zenon, <1>5, <1>6, <1>9, <1>10

-----------------------------------------------------------------------------
(* The theorems *)

LEMMA InitHolds ==
  ASSUME Init
  PROVE  IInv
<1>1. PICK n \in 0..MaxRows : \E order \in [1..n -> Legacy] :
        rows = [i \in 1..n |-> NewRow(order[i], "internal")]
  BY Zenon DEF Init, Bijection, Injection, Surjection
<1>2. PICK order \in [1..n -> Legacy] : rows = [i \in 1..n |-> NewRow(order[i], "internal")]
  BY <1>1
<1>3. /\ Ids = 1..n /\ \A i \in Ids : order[i] \in Subs /\ order[i] \in Legacy
      /\ posts = [i \in 1..n |-> NoPosts]
  BY <1>2, WebhooksAssumption DEF Init, Ids
<1>4. \A s \in Subs : NewRow(s, "internal") \in Deliveries
  BY WebhooksAssumption DEF NewRow, Deliveries, Open
<1>5. NoPosts \in Histories
  BY DEF NoPosts, Histories
<1>6. rows \in [1..n -> Deliveries] /\ posts \in [1..n -> Histories]
  BY Zenon, <1>2, <1>3, <1>4, <1>5
<1>7. /\ rows \in Seq(Deliveries) /\ posts \in Seq(Histories) /\ Len(rows) = n /\ Len(posts) = n
  BY <1>6, SeqOf
<1>8. \A w \in Workers : Claimed(w) = {}
  BY DEF Init, Claimed
<1>9. TypeOK
  <2>1. /\ subs \in [Subs -> {"none", "active", "deleted"}] /\ evt \in [Events -> {"none", "queued", "acked", "dropped"}]
        /\ fan \in [msg : Events \cup {None}, todo : SUBSET Subs] /\ DOMAIN claim = Workers
    BY DEF Init
  <2>2. /\ stage \in [Workers -> {"off", "next", "post", "record"}]
        /\ result \in [Workers -> {"none", "unsent", "delivered", "failed", "dead_letter"}]
        /\ audience \in [Events -> SUBSET Subs] /\ skipped \subseteq Events \X Subs
    BY DEF Init
  <2>3. sent \in [Events -> 0..MaxDeliver] /\ spent \in 0..MaxFaults
    BY WebhooksAssumption DEF Init
  <2>4. n <= MaxRows
    OBVIOUS
  <2> QED BY ZenonT(60), <1>7, <1>8, <2>1, <2>2, <2>3, <2>4 DEF TypeOK
<1>10. RowInv
  <2> SUFFICES ASSUME NEW i \in Ids
               PROVE  /\ subs[rows[i].sub] = "active" /\ rows[i].status = "pending"
                      /\ rows[i].attempts = 0 /\ posts[i].made = 0
    BY WebhooksAssumption DEF RowInv, Open
  <2>1. rows[i] = NewRow(order[i], "internal") /\ posts[i] = NoPosts
    BY <1>2, <1>3
  <2>2. subs[order[i]] = "active"
    BY Zenon, <1>3 DEF Init
  <2> QED BY <2>1, <2>2 DEF NewRow, NoPosts
<1>11. WorkInv
  BY Zenon, <1>8 DEF Init, WorkInv, At
<1>12. EventInv
  BY Zenon, WebhooksAssumption DEF Init, EventInv
<1>13. RightsInv
  <2> SUFFICES ASSUME NEW i \in Ids
               PROVE  \E k \in Nat : Fits(Posters(i), k) /\ Covered(posts[i], Free(i), k)
    BY Zenon DEF RightsInv
  <2>1. Posters(i) = {}
    BY Zenon, <1>8 DEF Posters, MayPost
  <2>2. posts[i].accepted = 0 /\ posts[i].faults = 0 /\ Free(i) \in {0, 1}
    BY Zenon, <1>3 DEF NoPosts, Free
  <2>3. Covered(posts[i], Free(i), 0)
    BY ONLY <2>2 DEF Covered
  <2> QED BY Zenon, <2>1, <2>3, NoneFit
<1> QED BY Zenon, <1>9, <1>10, <1>11, <1>12, <1>13 DEF IInv

\* A worker that starts is at no row.
LEMMA StartKeeps ==
  ASSUME IInv, NEW w \in Workers, Start(w)
  PROVE  IInv'
<1>1. TypeOK /\ RowInv /\ WorkInv /\ EventInv /\ RightsInv
  BY DEF IInv
<1>2. /\ rows' = rows /\ posts' = posts /\ claim' = claim /\ result' = result /\ spent' = spent
      /\ subs' = subs /\ Ids' = Ids
      /\ evt' = evt /\ sent' = sent /\ fan' = fan /\ audience' = audience /\ skipped' = skipped
  BY DEF Start, Ids, eventVars
<1>3. /\ stage' \in [Workers -> {"off", "next", "post", "record"}]
      /\ \A v \in Workers : stage'[v] = "record" <=> stage[v] = "record"
  BY <1>1 DEF Start, TypeOK
<1>4. \A v \in Workers : Claimed(v)' = Claimed(v) /\ Cur(v)' = Cur(v)
  BY Zenon, <1>2 DEF Claimed, Cur
<1>5. TypeOK'
  <2>1. \A v \in Workers : Claimed(v)' \subseteq Ids'
                           /\ \A i \in Claimed(v)' : claim'[v][i] \in 0..(MaxAttempts - 1)
    <3>1. \A v \in Workers : Claimed(v) \subseteq Ids
                             /\ \A i \in Claimed(v) : claim[v][i] \in 0..(MaxAttempts - 1)
      BY Zenon, <1>1 DEF TypeOK
    <3> QED BY Zenon, <1>2, <1>4, <3>1
  <2> QED BY Zenon, <1>1, <1>2, <1>3, <2>1 DEF TypeOK
<1>6. RowInv'
  BY Zenon, <1>1, <1>2 DEF RowInv, Deliverable
<1>7. WorkInv'
  BY Zenon, <1>1, <1>2, <1>3, <1>4 DEF WorkInv, At
<1>8. EventInv'
  <2>1. \A e \in Events, s \in Subs : Owed(e, s)' <=> Owed(e, s)
    BY Zenon, <1>2 DEF Owed
  <2> QED BY Zenon, <1>1, <1>2, <2>1 DEF EventInv
<1>9. \A i \in Ids : Posters(i)' = Posters(i) /\ Free(i)' = Free(i)
  <2>1. \A i \in Ids, v \in Workers : MayPost(v, i)' <=> MayPost(v, i)
    BY Zenon, <1>2, <1>3, <1>4 DEF MayPost
  <2>2. \A i \in Ids : Held(i)' <=> Held(i)
    BY Zenon, <1>2, <1>4 DEF Held
  <2> QED BY <1>2, <2>1, <2>2 DEF Posters, Free
<1>10. RightsInv'
  BY Zenon, <1>1, <1>2, <1>9 DEF RightsInv
<1> QED BY Zenon, <1>5, <1>6, <1>7, <1>8, <1>10 DEF IInv

\* Steps that leave the rows alone settle and take back nothing.
LEMMA SameRowsStand ==
  ASSUME TypeOK, rows' = rows
  PROVE  Stand
BY Shape, WebhooksAssumption DEF Stand, Deliveries

LEMMA NextKeeps ==
  ASSUME IInv, [Next]_vars
  PROVE  IInv' /\ (Stand \/ UNCHANGED vars)
<1>1. TypeOK /\ RowInv
  BY DEF IInv
<1>2. ASSUME NEW s \in Subs, SendTestEvent(s) PROVE IInv' /\ Stand
  BY Zenon, <1>2, RequestKeeps DEF SendTestEvent
<1>3. ASSUME NEW i \in Ids, RedeliverDelivery(i) PROVE IInv' /\ Stand
  <2>1. /\ rows[i].sub \in Subs /\ rows[i].of \in Events \cup {"test", "internal"}
        /\ subs[rows[i].sub] = "active"
    BY Zenon, <1>1, Shape DEF RowInv, Deliveries
  <2>2. InsertDelivery(rows[i].sub, rows[i].of) /\ UNCHANGED <<subs, eventVars, job, spent>>
    BY Zenon, <1>3 DEF RedeliverDelivery
  <2> QED BY Zenon, <2>1, <2>2, RequestKeeps
<1>4. ASSUME NEW w \in Workers, Start(w) \/ Work(w) \/ WorkFault(w) PROVE IInv' /\ Stand
  <2>1. CASE ClaimPendingDeliveries(w)
    BY Zenon, <2>1, ClaimKeeps
  <2>2. CASE FinishDelivery(w)
    BY <2>2, FinishKeeps
  <2>3. CASE GetWebhook(w) \/ GetWebhookFails(w)
    BY Zenon, <1>1, <2>3, LookKeeps, SameRowsStand DEF GetWebhook, GetWebhookFails
  <2>4. CASE PostAccepted(w)
    BY Zenon, <1>1, <2>4, AcceptedKeeps, SameRowsStand DEF PostAccepted
  <2>5. CASE PostRefused(w) \/ PostAnswerLost(w)
    BY Zenon, <1>1, <2>5, RefusedKeeps, SameRowsStand DEF PostRefused, PostAnswerLost
  <2>6. CASE FinishDeliveryFails(w) \/ Crash(w)
    BY Zenon, <1>1, <2>6, DropKeeps, SameRowsStand DEF FinishDeliveryFails, Crash
  <2>7. CASE Start(w)
    BY Zenon, <1>1, <2>7, StartKeeps, SameRowsStand DEF Start
  <2> QED BY Zenon, <1>4, <2>1, <2>2, <2>3, <2>4, <2>5, <2>6, <2>7 DEF Work, WorkFault
<1>5. ASSUME Fanout PROVE IInv' /\ Stand
  BY Zenon, <1>5, PublishKeeps, ReceiveKeeps, EndKeeps, RowKeeps DEF Fanout
<1>6. ASSUME Subscriptions PROVE IInv' /\ Stand
  BY Zenon, <1>2, <1>6, SubscriptionsKeep DEF Subscriptions
<1>7. ASSUME UNCHANGED vars PROVE IInv'
  <2>1. subs' = subs /\ UNCHANGED <<rows, posts, job, eventVars>> /\ spent' = spent
    BY Zenon, <1>7 DEF vars
  <2>2. EventInv /\ \A i \in Ids : subs'[rows[i].sub] = "active"
    BY Zenon, <1>1, <2>1 DEF RowInv, IInv
  <2>3. \A e \in Events, t \in Subs : Owed(e, t)' => Owed(e, t)
    BY Zenon, <2>1 DEF Owed, Ids, eventVars
  <2>4. EventInv'
    BY Zenon, <1>1, <2>1, <2>2, <2>3, StreamKeeps
  <2>5. /\ evt' = evt /\ sent' = sent /\ fan' = fan /\ audience' = audience /\ skipped' = skipped
        /\ UNCHANGED <<rows, posts, job, subs>>
    BY <2>1 DEF eventVars
  <2> QED BY Zenon, <1>1, <2>1, <2>4, <2>5, FanKeeps DEF TypeOK
<1>8. ASSUME NEW i \in Ids, Elapse(i) \/ Overrun(i) PROVE IInv' /\ Stand
  BY Zenon, <1>8, DueKeeps
<1>9. CASE Next
  BY Zenon, <1>3, <1>4, <1>5, <1>6, <1>8, <1>9 DEF Next
<1> QED BY <1>7, <1>9

LEMMA Invariance == Spec => []IInv
<1>1. Init => IInv
  BY InitHolds
<1>2. IInv /\ [Next]_vars => IInv'
  BY NextKeeps
<1> QED BY <1>1, <1>2, PTL DEF Spec

\* Deliveries, claims and the stream keep their types: no row ever gets more
\* than MaxAttempts attempts, no event is received more than MaxDeliver times,
\* and every claim is of an existing row with an attempt left.
THEOREM DeliveriesTyped == Spec => []TypeOK
<1>1. IInv => TypeOK
  BY ZenonT(60) DEF IInv
<1> QED BY <1>1, Invariance, PTL

\* fanoutMessage acknowledges an event only once every subscription active at
\* its publication has its row, whatever crashes, redeliveries and deletions
\* came between.
THEOREM FannedOut == Spec => []AckedFannedOut
<1>1. IInv => AckedFannedOut
  BY DEF IInv, EventInv, Owed, AckedFannedOut
<1> QED BY <1>1, Invariance, PTL

\* However many replicas deliver, a receiver accepts a row at most once more
\* than faults hit that row.
THEOREM DeliveredOnce == Spec => []OnceUnlessFault
<1>1. ASSUME IInv, NEW i \in Ids PROVE posts[i].accepted <= 1 + posts[i].faults
  <2>1. TypeOK /\ RightsInv
    BY <1>1 DEF IInv
  <2>2. posts[i].accepted \in Nat /\ posts[i].faults \in Nat /\ Free(i) \in {0, 1}
    BY <2>1, Shape DEF Histories, Free
  <2>3. PICK k \in Nat : Fits(Posters(i), k) /\ Covered(posts[i], Free(i), k)
    BY <2>1 DEF RightsInv
  <2> QED BY ONLY <2>2, <2>3 DEF Covered
<1>2. IInv => OnceUnlessFault
  BY ZenonT(60), <1>1 DEF OnceUnlessFault
<1> QED BY <1>2, Invariance, PTL

\* What FinishDelivery recorded is what happened, whichever worker recorded it.
THEOREM OutcomesTrue == Spec => []OutcomeTrue
<1>1. IInv => OutcomeTrue
  BY DEF IInv, RowInv, OutcomeTrue
<1> QED BY <1>1, Invariance, PTL

\* No step, a late outcome included, reopens a finished row or takes back a
\* recorded attempt.
THEOREM OutcomesKept == Spec => OutcomesStand
<1>1. IInv /\ [Next]_vars =>
        [\A i \in Ids : /\ rows'[i].attempts >= rows[i].attempts
                        /\ rows[i].status \notin Open => rows'[i] = rows[i]]_vars
  BY NextKeeps DEF Stand
<1> QED BY <1>1, Invariance, PTL DEF Spec, OutcomesStand
=============================================================================
