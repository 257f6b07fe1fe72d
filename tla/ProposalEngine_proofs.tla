----------------------- MODULE ProposalEngine_proofs -----------------------
(***************************************************************************)
(* Theorems about ProposalEngine, for any proposals, identities, ranks and *)
(* reviewers: the types, that one identity waits once, that a reported     *)
(* decision is durable and kept, and that the lifecycle records and the    *)
(* approvals agree with the decisions.                                     *)
(***************************************************************************)
EXTENDS ProposalEngine, FiniteSetTheorems, SequenceTheorems, TLAPS

-----------------------------------------------------------------------------
(* The list *)

\* Ids are unique; identities are too, of reactions only among the pending proposals.
Distinct(list) ==
    \A i, j \in DOMAIN list :
        /\ list[i].id = list[j].id => i = j
        /\ KeyOf[list[i].id] = KeyOf[list[j].id] =>
              /\ KeyOf[list[i].id] \notin LearnedKey => i = j
              /\ list[i].status = "pending" /\ list[j].status = "pending" => i = j

\* The entries that stay are numbered from one on, without gaps: their number up to an entry
\* tells them apart.
LEMMA RankIsBijection ==
    ASSUME NEW kept, NEW len \in Nat, kept \subseteq 1..len
    PROVE  /\ IsFiniteSet(kept) /\ Cardinality(kept) \in Nat /\ Cardinality(kept) <= len
           /\ \A i \in kept : Cardinality({j \in kept : j <= i}) \in 1..Cardinality(kept)
           /\ \A i, k \in kept : Cardinality({j \in kept : j <= i})
                                    = Cardinality({j \in kept : j <= k}) => i = k
           /\ \A n \in 1..Cardinality(kept) :
                 \E i \in kept : Cardinality({j \in kept : j <= i}) = n
<1> DEFINE upTo(i) == {j \in kept : j <= i}
           rank    == [i \in kept |-> Cardinality(upTo(i))]
           Ranks   == 1..Cardinality(kept)
<1>1. IsFiniteSet(kept) /\ Cardinality(kept) \in Nat /\ Cardinality(kept) <= len
  <2>1. IsFiniteSet(1..len) /\ Cardinality(1..len) = len
    BY FS_Interval
  <2> QED
    BY <2>1, FS_Subset, FS_CardinalityType
<1>2. \A i \in kept : IsFiniteSet(upTo(i)) /\ Cardinality(upTo(i)) \in Nat
                      /\ Cardinality(upTo(i)) <= Cardinality(kept)
  BY <1>1, FS_Subset, FS_CardinalityType
<1>3. \A i \in kept : Cardinality(upTo(i)) # 0
  BY <1>2, FS_EmptySet
<1>4. \A i \in kept : rank[i] \in Ranks
  BY <1>1, <1>2, <1>3
<1>5. ASSUME NEW i \in kept, NEW k \in kept, i < k, Cardinality(upTo(i)) = Cardinality(upTo(k))
      PROVE  FALSE
  <2>1. i \in Nat /\ k \in Nat /\ \A j \in kept : j \in Nat
    OBVIOUS
  <2>2. /\ \A j \in kept : j <= i => j <= k
        /\ k <= k /\ ~(k <= i)
    BY <1>5, <2>1
  <2>3. upTo(i) \subseteq upTo(k) /\ k \in upTo(k) /\ k \notin upTo(i)
    BY <2>2
  <2> QED
    BY <1>2, <1>5, <2>3, FS_Subset
<1>6. \A i, k \in kept : Cardinality(upTo(i)) = Cardinality(upTo(k)) => i = k
  BY <1>5
<1>7. rank \in Injection(kept, Ranks)
  BY <1>4, <1>6 DEF Injection, IsInjective
<1>8. IsFiniteSet(Ranks) /\ Cardinality(Ranks) = Cardinality(kept)
  BY <1>1, FS_Interval
<1>9. rank \in Surjection(kept, Ranks)
  <2> HIDE DEF rank, Ranks
  <2> QED
    BY <1>7, <1>8, FS_Injection
<1>10. \A n \in Ranks : \E i \in kept : rank[i] = n
  BY <1>9 DEF Surjection
<1> QED
  BY <1>1, <1>4, <1>6, <1>10

\* Each entry of a shorter list has a place of its own in the list, and each entry that stays
\* has a place in the shorter one.
Placed(short, list, P) ==
    \E place \in [DOMAIN short -> {i \in DOMAIN list : list[i].id \notin P}] :
        /\ \A n \in DOMAIN short : short[n] = list[place[n]]
        /\ \A n, m \in DOMAIN short : place[n] = place[m] => n = m
        /\ \A i \in DOMAIN list : list[i].id \notin P => \E n \in DOMAIN short : place[n] = i

\* Dropping proposals keeps the others, with their status, in new places.
LEMMA WithoutPlaces ==
    ASSUME NEW list \in Seq(Item), NEW P
    PROVE  /\ Without(list, P) \in Seq(Item)
           /\ Len(Without(list, P)) <= Len(list)
           /\ Placed(Without(list, P), list, P)
<1> DEFINE kept  == {i \in DOMAIN list : list[i].id \notin P}
           rank(i) == Cardinality({j \in kept : j <= i})
           at(n) == CHOOSE i \in kept : rank(i) = n
           place == [n \in 1..Cardinality(kept) |-> at(n)]
<1>1. Len(list) \in Nat /\ DOMAIN list = 1..Len(list) /\ kept \subseteq 1..Len(list)
  OBVIOUS
<1>2. /\ Cardinality(kept) \in Nat /\ Cardinality(kept) <= Len(list)
      /\ \A i \in kept : rank(i) \in 1..Cardinality(kept)
      /\ \A i, k \in kept : rank(i) = rank(k) => i = k
      /\ \A n \in 1..Cardinality(kept) : \E i \in kept : rank(i) = n
  <2> HIDE DEF kept
  <2> QED
    BY <1>1, RankIsBijection
<1>3. Without(list, P) = [n \in 1..Cardinality(kept) |-> list[at(n)]]
  BY DEF Without
<1>4. \A n \in 1..Cardinality(kept) : at(n) \in kept /\ rank(at(n)) = n
  <2> HIDE DEF kept, rank
  <2> QED
    BY <1>2
<1> HIDE DEF at, rank
<1>5. \A n \in 1..Cardinality(kept) : list[at(n)] \in Item
  BY <1>1, <1>4
<1>6. /\ Without(list, P) \in Seq(Item) /\ Len(Without(list, P)) = Cardinality(kept)
      /\ DOMAIN Without(list, P) = 1..Cardinality(kept)
  <2> HIDE DEF kept
  <2> QED
    BY <1>2, <1>3, <1>5
<1>7. place \in [1..Cardinality(kept) -> kept]
  BY <1>4
<1>8. \A i \in kept : \E n \in 1..Cardinality(kept) : at(n) = i
  BY <1>2, <1>4
<1>9. \A n, m \in 1..Cardinality(kept) : at(n) = at(m) => n = m
  BY <1>4
<1> HIDE DEF kept
<1>10. /\ \A n \in DOMAIN Without(list, P) : Without(list, P)[n] = list[place[n]]
       /\ \A n, m \in DOMAIN Without(list, P) : place[n] = place[m] => n = m
       /\ \A i \in kept : \E n \in DOMAIN Without(list, P) : place[n] = i
  BY <1>3, <1>6, <1>7, <1>8, <1>9
<1> HIDE DEF place
<1> QED
  BY <1>1, <1>2, <1>6, <1>7, <1>10 DEF kept, Placed

LEMMA WithoutHas ==
    ASSUME NEW list \in Seq(Item), NEW P
    PROVE  /\ \A p, s : Has(Without(list, P), p, s) <=> Has(list, p, s) /\ p \notin P
           /\ Ids(Without(list, P)) = Ids(list) \ P
           /\ Distinct(list) => Distinct(Without(list, P))
<1> DEFINE w == Without(list, P)
<1>1. PICK place \in [DOMAIN w -> {i \in DOMAIN list : list[i].id \notin P}] :
          /\ \A n \in DOMAIN w : w[n] = list[place[n]]
          /\ \A n, m \in DOMAIN w : place[n] = place[m] => n = m
          /\ \A i \in DOMAIN list : list[i].id \notin P => \E n \in DOMAIN w : place[n] = i
  <2>1. Placed(w, list, P)
    BY WithoutPlaces
  <2> HIDE DEF w
  <2> QED
    BY <2>1, Zenon DEF Placed
<1>2. w \in Seq(Item)
  BY WithoutPlaces
<1> HIDE DEF w
<1>3. \A n \in DOMAIN w : place[n] \in DOMAIN list /\ list[place[n]].id \notin P
  BY <1>1
<1>4. \A i \in DOMAIN list : list[i] \in Item
  OBVIOUS
<1>5. \A p, s : Has(w, p, s) <=> Has(list, p, s) /\ p \notin P
  BY <1>1, <1>3 DEF Has
<1>6. Ids(w) = Ids(list) \ P
  BY <1>1, <1>3 DEF Ids
<1>7. Distinct(list) => Distinct(w)
  BY <1>1, <1>3 DEF Distinct
<1> QED
  BY <1>5, <1>6, <1>7 DEF w

\* Dropping nothing that is in the list moves nothing.
LEMMA WithoutNothing ==
    ASSUME NEW list \in Seq(Item), NEW P, Ids(list) \cap P = {}
    PROVE  Without(list, P) = list
<1> DEFINE kept  == {i \in DOMAIN list : list[i].id \notin P}
           at(n) == CHOOSE i \in kept : Cardinality({j \in kept : j <= i}) = n
<1>1. Len(list) \in Nat /\ DOMAIN list = 1..Len(list) /\ kept = 1..Len(list)
  BY DEF Ids
<1>2. \A i \in 1..Len(list) : {j \in kept : j <= i} = 1..i
  BY <1>1
<1>3. \A i \in 1..Len(list) : Cardinality({j \in kept : j <= i}) = i
  <2>1. \A i \in 1..Len(list) : Cardinality(1..i) = i
    BY <1>1, FS_Interval
  <2> QED
    BY <1>2, <2>1
<1>4. \A n \in 1..Len(list) : at(n) = n
  <2> HIDE DEF kept
  <2> QED
    BY <1>1, <1>3
<1>5. Cardinality(kept) = Len(list)
  <2>1. Cardinality(1..Len(list)) = Len(list)
    BY <1>1, FS_Interval
  <2> QED
    BY <1>1, <2>1
<1>6. Without(list, P) = [n \in 1..Cardinality(kept) |-> list[at(n)]]
  BY DEF Without
<1> HIDE DEF kept, at
<1>7. Without(list, P) = [n \in 1..Len(list) |-> list[n]]
  BY <1>4, <1>5, <1>6
<1> QED
  BY <1>1, <1>7

\* A decision changes the status of its targets, and no place.
LEMMA DecideFacts ==
    ASSUME NEW list \in Seq(Item), NEW P, NEW v \in Verdict
    PROVE  /\ Decide(list, P, v) \in Seq(Item) /\ Len(Decide(list, P, v)) = Len(list)
           /\ DOMAIN Decide(list, P, v) = DOMAIN list
           /\ \A i \in DOMAIN list : Decide(list, P, v)[i].id = list[i].id
           /\ \A p, s : p \notin P => (Has(Decide(list, P, v), p, s) <=> Has(list, p, s))
           /\ \A p, s : p \in P => (Has(Decide(list, P, v), p, s) <=> p \in Ids(list) /\ s = v)
           /\ Distinct(list) => Distinct(Decide(list, P, v))
<1> DEFINE d == Decide(list, P, v)
<1>1. \A i \in DOMAIN list : list[i] \in Item
  OBVIOUS
<1>2. d = [i \in 1..Len(list) |-> IF list[i].id \in P THEN [list[i] EXCEPT !.status = v] ELSE list[i]]
  BY DEF Decide
<1>3. \A i \in 1..Len(list) : d[i] = [id |-> list[i].id,
                                      status |-> IF list[i].id \in P THEN v ELSE list[i].status]
  BY <1>1, <1>2 DEF Item
<1>4. \A i \in 1..Len(list) : d[i] \in Item
  <2>1. \A i \in 1..Len(list) : list[i].id \in Proposal /\ list[i].status \in Status
    BY <1>1 DEF Item
  <2>2. v \in Status
    BY DEF Status
  <2>3. \A i \in 1..Len(list) :
            (IF list[i].id \in P THEN v ELSE list[i].status) \in Status
    BY <2>1, <2>2
  <2>4. \A q \in Proposal, s \in Status : [id |-> q, status |-> s] \in Item
    BY DEF Item
  <2> HIDE DEF d
  <2> QED
    BY <1>3, <2>1, <2>3, <2>4
<1>5. DOMAIN d = 1..Len(list) /\ Len(list) \in Nat
  BY <1>2
<1>6. d \in Seq(Item) /\ Len(d) = Len(list)
  BY <1>2, <1>4, <1>5
<1> HIDE DEF d
<1>7. \A p, s : p \notin P => (Has(d, p, s) <=> Has(list, p, s))
  BY <1>1, <1>3, <1>5 DEF Has, Item
<1>8. \A p, s : p \in P => (Has(d, p, s) <=> p \in Ids(list) /\ s = v)
  BY <1>1, <1>3, <1>5 DEF Has, Ids, Item
<1>9. Distinct(list) => Distinct(d)
  BY <1>1, <1>3, <1>5 DEF Distinct, Verdict, Item
<1> QED
  BY <1>3, <1>5, <1>6, <1>7, <1>8, <1>9 DEF d

\* A new proposal is pending at the end of the list.
LEMMA WithFacts ==
    ASSUME NEW list \in Seq(Item), NEW p \in Proposal
    PROVE  /\ With(p, list) \in Seq(Item) /\ Len(With(p, list)) = Len(list) + 1
           /\ \A i \in DOMAIN list : i \in DOMAIN With(p, list) /\ With(p, list)[i] = list[i]
           /\ Ids(With(p, list)) = Ids(list) \cup {p}
           /\ \A q, s : Has(With(p, list), q, s) <=>
                            Has(list, q, s) \/ (q = p /\ s = "pending")
           /\ /\ Distinct(list) /\ p \notin Ids(list)
              /\ \A i \in DOMAIN list : KeyOf[list[i].id] = KeyOf[p] =>
                     KeyOf[p] \in LearnedKey /\ list[i].status # "pending"
              => Distinct(With(p, list))
<1> DEFINE w == With(p, list)
           new == [id |-> p, status |-> "pending"]
<1>1. new \in Item
  BY DEF Item, Status
<1>2. /\ w \in Seq(Item) /\ Len(w) = Len(list) + 1 /\ Len(list) \in Nat
      /\ \A i \in 1..Len(list) : w[i] = list[i]
      /\ w[Len(list) + 1] = new
  BY <1>1, AppendProperties DEF With
<1> HIDE DEF w
<1>3. /\ DOMAIN list = 1..Len(list) /\ DOMAIN w = 1..(Len(list) + 1)
      /\ \A i \in DOMAIN w : i \in DOMAIN list \/ i = Len(list) + 1
  BY <1>2
<1>4. new.id = p /\ new.status = "pending"
  OBVIOUS
<1> HIDE DEF new
<1>5. Ids(w) = Ids(list) \cup {p}
  BY <1>2, <1>3, <1>4 DEF Ids
<1>6. \A q, s : Has(w, q, s) <=> Has(list, q, s) \/ (q = p /\ s = "pending")
  BY <1>2, <1>3, <1>4 DEF Has, new
<1>7. ASSUME Distinct(list), p \notin Ids(list),
             \A i \in DOMAIN list : KeyOf[list[i].id] = KeyOf[p] =>
                 KeyOf[p] \in LearnedKey /\ list[i].status # "pending"
      PROVE  Distinct(w)
  BY <1>2, <1>3, <1>4, <1>7 DEF Distinct, Ids
<1> QED
  BY <1>2, <1>3, <1>5, <1>6, <1>7 DEF w

\* An entry of the list, seen from its proposal.
LEMMA HasUnique ==
    ASSUME NEW list \in Seq(Item), Distinct(list)
    PROVE  /\ \A p, s, r : Has(list, p, s) /\ Has(list, p, r) => s = r
           /\ \A p \in Ids(list) : \E s \in Status : Has(list, p, s)
           /\ \A p, s : Has(list, p, s) => p \in Ids(list) /\ p \in Proposal /\ s \in Status
           /\ \A p, q, s, r : Has(list, p, s) /\ Has(list, q, r) /\ KeyOf[p] = KeyOf[q]
                              /\ KeyOf[p] \notin LearnedKey => p = q
<1>1. \A i \in DOMAIN list : /\ list[i].id \in Proposal /\ list[i].status \in Status
                             /\ list[i] = [id |-> list[i].id, status |-> list[i].status]
  <2>1. \A i \in DOMAIN list : list[i] \in Item
    OBVIOUS
  <2>2. \A r \in Item : r.id \in Proposal /\ r.status \in Status
                         /\ r = [id |-> r.id, status |-> r.status]
    BY DEF Item
  <2> QED
    BY <2>1, <2>2
<1>2. \A p, s : \A i \in DOMAIN list : list[i] = [id |-> p, status |-> s] =>
                                           list[i].id = p /\ list[i].status = s
  OBVIOUS
<1>3. \A p, s, r : Has(list, p, s) /\ Has(list, p, r) => s = r
  BY <1>2 DEF Has, Distinct
<1>4. \A p \in Ids(list) : \E s \in Status : Has(list, p, s)
  BY <1>1 DEF Has, Ids
<1>5. \A p, s : Has(list, p, s) => p \in Ids(list) /\ p \in Proposal /\ s \in Status
  BY <1>1, <1>2 DEF Has, Ids
<1>6. \A p, q, s, r : Has(list, p, s) /\ Has(list, q, r) /\ KeyOf[p] = KeyOf[q]
                      /\ KeyOf[p] \notin LearnedKey => p = q
  BY <1>2 DEF Has, Distinct
<1> QED
  BY <1>3, <1>4, <1>5, <1>6

-----------------------------------------------------------------------------
(* Types *)

\* A save that no write has served yet.
Unserved(t) == \E i \in (written + 1)..Len(waiting) : waiting[i] = t

\* The tasks that wait for a save are saving, and wait once.
Queued ==
    /\ \A i \in 1..Len(waiting) : task[waiting[i]].pc = "saving"
    /\ \A i, j \in 1..Len(waiting) : waiting[i] = waiting[j] => i = j

\* A review has a verdict, and one target when it remembers an index.
Shaped ==
    \A t \in Review : task[t] # Idle =>
        /\ task[t].verdict \in Verdict
        /\ task[t].index > 0 => \E p \in Proposal : task[t].targets = {p}

Typed ==
    /\ TypeOK /\ Queued /\ Shaped
    /\ Distinct(proposals) /\ Distinct(stored)
    /\ Len(stored) <= created

\* A task is idle exactly when it does nothing; the others have a proper record.
LEMMA TaskTyped ==
    ASSUME TypeOK, NEW t \in Task
    PROVE  /\ task[t] \in Busy \cup {Idle}
           /\ task[t] = Idle <=> task[t].pc = "idle"
           /\ task[t].pc \in {"saving", "recording", "flushing"} <=> task[t] \in Busy
           /\ task[t].targets \subseteq Proposal /\ task[t].index \in 0..MaxCreated
           /\ task[t] = Idle => task[t].targets = {} /\ task[t].index = 0
<1>1. task[t] \in Busy \cup {Idle}
  BY DEF TypeOK
<1>2. CASE task[t] \in Busy
  <2>1. /\ task[t].pc \in {"saving", "recording", "flushing"}
        /\ task[t].targets \subseteq Proposal /\ task[t].index \in 0..MaxCreated
    BY <1>2 DEF Busy
  <2> QED
    BY <1>1, <1>2, <2>1 DEF Idle
<1>3. CASE task[t] = Idle
  <2>1. /\ task[t].pc = "idle" /\ task[t].targets = {} /\ task[t].index = 0
        /\ MaxCreated \in Nat
    BY <1>3, ProposalAssumption DEF Idle
  <2>2. task[t] \notin Busy
    BY <2>1 DEF Busy
  <2> QED
    BY <1>1, <1>3, <2>1, <2>2
<1> QED
  BY <1>1, <1>2, <1>3

\* Steps that leave the queue of the saves alone, and change no task that waits.
LEMMA QueueStays ==
    ASSUME Typed, UNCHANGED <<waiting, written>>,
           \A u \in Task : task[u].pc = "saving" => task'[u] = task[u]
    PROVE  Queued' /\ \A u \in Task : Unserved(u)' <=> Unserved(u)
<1>1. \A i \in 1..Len(waiting) : waiting[i] \in Task
  BY DEF Typed, TypeOK
<1> QED
  BY <1>1 DEF Typed, Queued, Unserved

\* A task that starts to save goes to the end of the queue; no write has served it.
LEMMA QueueGrows ==
    ASSUME Typed, NEW t \in Task, task[t].pc # "saving", task'[t].pc = "saving",
           \A u \in Task \ {t} : task'[u] = task[u], SaveAs(t)
    PROVE  /\ waiting' \in Seq(Task) /\ written' \in 0..Len(waiting')
           /\ Queued'
           /\ \A u \in Task : Unserved(u)' <=> Unserved(u) \/ u = t
<1>1. /\ waiting \in Seq(Task) /\ written \in 0..Len(waiting) /\ Queued /\ Len(waiting) \in Nat
      /\ waiting' = Append(waiting, t) /\ written' = written
  BY DEF Typed, TypeOK, SaveAs
<1>2. /\ waiting' \in Seq(Task) /\ Len(waiting') = Len(waiting) + 1
      /\ \A i \in 1..Len(waiting) : waiting'[i] = waiting[i] /\ waiting[i] \in Task
      /\ waiting'[Len(waiting) + 1] = t
  BY <1>1, AppendProperties
<1>3. \A i \in 1..Len(waiting') : i \in 1..Len(waiting) \/ i = Len(waiting) + 1
  BY <1>1, <1>2
<1>4. \A i \in 1..Len(waiting) : waiting[i] # t
  BY <1>1 DEF Queued
<1>5. Queued'
  BY <1>1, <1>2, <1>3, <1>4 DEF Queued
<1>6. \A u \in Task : Unserved(u)' <=> Unserved(u) \/ u = t
  <2>1. /\ \A i \in (written + 1)..Len(waiting) : i \in 1..Len(waiting) /\ i \in (written + 1)..Len(waiting')
        /\ Len(waiting) + 1 \in (written + 1)..Len(waiting')
        /\ \A i \in (written + 1)..Len(waiting') : i \in (written + 1)..Len(waiting)
                                                  \/ i = Len(waiting) + 1
    BY <1>1, <1>2
  <2> QED
    BY <1>1, <1>2, <2>1 DEF Unserved
<1> QED
  BY <1>1, <1>2, <1>5, <1>6

\* The save that returns was written, and its task waits no more.
LEMMA QueueShrinks ==
    ASSUME Typed, NEW t \in Task, Returns(t), \A u \in Task \ {t} : task'[u] = task[u]
    PROVE  /\ waiting' \in Seq(Task) /\ written' \in 0..Len(waiting')
           /\ Queued'
           /\ task[t].pc = "saving" /\ ~Unserved(t)
           /\ \A u \in Task : Unserved(u)' <=> Unserved(u)
<1>1. /\ waiting \in Seq(Task) /\ written \in 1..Len(waiting) /\ Queued /\ Len(waiting) \in Nat \ {0}
      /\ waiting' = Tail(waiting) /\ written' = written - 1 /\ t = waiting[1]
  BY DEF Typed, TypeOK, Returns
<1>2. /\ waiting' \in Seq(Task) /\ Len(waiting') = Len(waiting) - 1
      /\ \A i \in 1..Len(waiting') : waiting'[i] = waiting[i + 1]
  BY <1>1, HeadTailProperties
<1>3. \A i \in 1..Len(waiting') : i + 1 \in 1..Len(waiting) /\ i + 1 # 1 /\ waiting'[i] \in Task
  BY <1>1, <1>2
<1>4. \A i \in 1..Len(waiting') : waiting'[i] # t
  BY <1>1, <1>2, <1>3 DEF Queued
<1>5. Queued'
  <2>1. \A i \in 1..Len(waiting') : task'[waiting'[i]].pc = "saving"
    BY <1>1, <1>2, <1>3, <1>4 DEF Queued
  <2>2. \A i, j \in 1..Len(waiting') : waiting'[i] = waiting'[j] => i = j
    BY <1>1, <1>2, <1>3 DEF Queued
  <2> QED
    BY <2>1, <2>2 DEF Queued
<1>6. task[t].pc = "saving" /\ ~Unserved(t)
  BY <1>1 DEF Queued, Unserved
<1>7. \A u \in Task : Unserved(u)' <=> Unserved(u)
  <2>1. ASSUME NEW u \in Task, Unserved(u)' PROVE Unserved(u)
    <3>1. PICK i \in (written' + 1)..Len(waiting') : waiting'[i] = u
      BY <2>1 DEF Unserved
    <3>2. i + 1 \in (written + 1)..Len(waiting) /\ waiting[i + 1] = u
      BY <1>1, <1>2, <3>1
    <3> QED
      BY <3>2 DEF Unserved
  <2>2. ASSUME NEW u \in Task, Unserved(u) PROVE Unserved(u)'
    <3>1. PICK i \in (written + 1)..Len(waiting) : waiting[i] = u
      BY <2>2 DEF Unserved
    <3>2. i - 1 \in (written' + 1)..Len(waiting') /\ waiting'[i - 1] = u
      BY <1>1, <1>2, <3>1
    <3> QED
      BY <3>2 DEF Unserved
  <2> QED
    BY <2>1, <2>2
<1> QED
  BY <1>1, <1>2, <1>5, <1>6, <1>7

-----------------------------------------------------------------------------
(* The effects of the steps *)

\* Runs, submissions and withdrawals keep every decision; unless they move the list under a
\* review, every entry keeps its place.
LEMMA LearnEffect ==
    ASSUME Typed, Learn
    PROVE  /\ proposals' \in Seq(Item) /\ Distinct(proposals')
           /\ created \in Nat /\ created' \in 0..MaxCreated /\ created <= created'
           /\ Len(proposals') <= created'
           /\ \A p \in Proposal, v \in Verdict : Has(proposals', p, v) <=> Has(proposals, p, v)
           /\ \/ mishaps' = Disturbed
              \/ /\ mishaps' = mishaps
                 /\ \A i \in DOMAIN proposals : i \in DOMAIN proposals'
                                                /\ proposals'[i] = proposals[i]
           /\ queued' = TRUE
           /\ UNCHANGED <<stored, waiting, written, records, recordsStored, approvals,
                          approvalsStored, task, reported, reviews, faults>>
<1> USE ProposalAssumption
<1>0. /\ proposals \in Seq(Item) /\ Distinct(proposals) /\ Len(proposals) <= created
      /\ created \in 0..MaxCreated /\ MaxCreated \in Nat /\ Len(proposals) \in Nat
      /\ "pending" \notin Verdict
  BY DEF Typed, TypeOK, Verdict
<1>1. ASSUME NEW P \in SUBSET Pending, NEW list, list = Without(proposals, P)
      PROVE  /\ list \in Seq(Item) /\ Distinct(list) /\ Len(list) \in Nat /\ Len(list) <= created
             /\ Ids(list) = Ids(proposals) \ P
             /\ \A p \in Proposal, v \in Verdict : Has(list, p, v) <=> Has(proposals, p, v)
             /\ Ids(proposals) \cap P = {} => list = proposals
  <2>1. /\ list \in Seq(Item) /\ Distinct(list) /\ Len(list) \in Nat /\ Len(list) <= created
    BY <1>0, <1>1, WithoutPlaces, WithoutHas
  <2>2. \A p \in Proposal, v \in Verdict : Has(list, p, v) <=> Has(proposals, p, v)
    BY <1>0, <1>1, WithoutHas, HasUnique DEF Pending
  <2> QED
    BY <1>0, <1>1, <2>1, <2>2, WithoutHas, WithoutNothing
<1>2. ASSUME NEW p \in Proposal, SubmitNew(p) PROVE UNCHANGED mishaps
                 /\ proposals' = With(p, proposals) /\ p \notin Ids(proposals) /\ created' = created + 1
                 /\ created < MaxCreated
                 /\ Distinct(proposals')
  <2>1. \A i \in DOMAIN proposals : KeyOf[proposals[i].id] # KeyOf[p]
    BY <1>2 DEF SubmitNew, WithKey, Ids
  <2> QED
    BY <1>0, <1>2, <2>1, WithFacts DEF SubmitNew, Creates, Fresh
<1>3. CASE \E p \in Proposal : SubmitNew(p)
  <2>1. PICK p \in Proposal : SubmitNew(p)
    BY <1>3
  <2>2. \A q \in Proposal, v \in Verdict : Has(proposals', q, v) <=> Has(proposals, q, v)
    BY <1>0, <1>2, <2>1, WithFacts
  <2> QED
    BY <1>0, <1>2, <2>1, <2>2, WithFacts DEF SubmitNew, Save
<1>4. CASE \E p \in Proposal : Withdraw(p)
  <2>1. PICK p \in Proposal : Withdraw(p)
    BY <1>4
  <2>2. {p} \in SUBSET Pending
    BY <2>1 DEF Withdraw
  <2> QED
    BY <1>0, <1>1, <2>1, <2>2 DEF Withdraw, Save, counters
<1>5. CASE \E stale \in SUBSET Pending, p \in Proposal : RunAppends(p, stale)
  <2>1. PICK stale \in SUBSET Pending, p \in Proposal : RunAppends(p, stale)
    BY <1>5
  <2> DEFINE rest == Without(proposals, stale)
  <2>2. /\ rest \in Seq(Item) /\ Distinct(rest) /\ Len(rest) \in Nat /\ Len(rest) <= created
        /\ Ids(rest) = Ids(proposals) \ stale
        /\ \A q \in Proposal, v \in Verdict : Has(rest, q, v) <=> Has(proposals, q, v)
        /\ Ids(proposals) \cap stale = {} => rest = proposals
    BY <1>1
  <2>3. /\ proposals' = With(p, rest) /\ p \notin Ids(proposals) /\ KeyOf[p] \in LearnedKey
        /\ WithKey(KeyOf[p]) \cap Pending = {}
        /\ created < MaxCreated /\ created' = created + 1 /\ queued' = TRUE
        /\ mishaps' = IF Ids(proposals) \subseteq Ids(proposals') THEN mishaps ELSE Disturbed
        /\ UNCHANGED <<stored, waiting, written, records, recordsStored, approvals,
                       approvalsStored, task, reported, reviews, faults>>
    BY <2>1 DEF RunAppends, RunEnds, Pruned, Creates, Fresh, Save
  <2>7. \A q, s : Has(rest, q, s) => Has(proposals, q, s)
    BY <1>0, WithoutHas
  <2> HIDE DEF rest
  <2>4. \A i \in DOMAIN rest : KeyOf[rest[i].id] = KeyOf[p] => rest[i].status # "pending"
    <3> SUFFICES ASSUME NEW i \in DOMAIN rest, KeyOf[rest[i].id] = KeyOf[p],
                        rest[i].status = "pending"
                 PROVE  FALSE
      OBVIOUS
    <3>1. rest[i] \in Item
      BY <2>2
    <3>2. rest[i] = [id |-> rest[i].id, status |-> "pending"] /\ rest[i].id \in Proposal
      BY <3>1 DEF Item
    <3>3. Has(proposals, rest[i].id, "pending")
      BY <2>7, <3>2 DEF Has
    <3> QED
      BY <1>0, <2>3, <3>2, <3>3, HasUnique DEF Pending, WithKey
  <2>5. /\ proposals' \in Seq(Item) /\ Len(proposals') = Len(rest) + 1
        /\ Ids(proposals') = Ids(rest) \cup {p}
        /\ Distinct(proposals')
        /\ \A i \in DOMAIN rest : i \in DOMAIN proposals' /\ proposals'[i] = rest[i]
        /\ \A q \in Proposal, v \in Verdict : Has(proposals', q, v) <=> Has(rest, q, v)
    <3>1. p \notin Ids(rest)
      BY <2>2, <2>3
    <3>2. \A i \in DOMAIN rest : KeyOf[rest[i].id] = KeyOf[p] =>
                KeyOf[p] \in LearnedKey /\ rest[i].status # "pending"
      BY <2>3, <2>4
    <3>3. Distinct(proposals')
      BY <2>2, <2>3, <3>1, <3>2, WithFacts
    <3>4. \A q, s : Has(proposals', q, s) <=> Has(rest, q, s) \/ (q = p /\ s = "pending")
      BY <2>2, <2>3, WithFacts
    <3> QED
      BY <1>0, <2>2, <2>3, <3>3, <3>4, WithFacts
  <2>6. Ids(proposals) \subseteq Ids(proposals') => rest = proposals
    BY <2>2, <2>3, <2>5
  <2> QED
    BY <1>0, <2>2, <2>3, <2>5, <2>6
<1>6. CASE \E stale \in SUBSET Pending, k \in LearnedKey : RunSuppresses(k, stale)
  <2>1. PICK stale \in SUBSET Pending, k \in LearnedKey : RunSuppresses(k, stale)
    BY <1>6
  <2> DEFINE P == stale \cup (WithKey(k) \cap Pending)
  <2>2. P \in SUBSET Pending
    OBVIOUS
  <2>3. /\ proposals' = Without(proposals, P) /\ created' = created /\ queued' = TRUE
        /\ mishaps' = IF Ids(proposals) \subseteq Ids(proposals') THEN mishaps ELSE Disturbed
        /\ UNCHANGED <<stored, waiting, written, records, recordsStored, approvals,
                       approvalsStored, task, reported, reviews, faults>>
    BY <2>1 DEF RunSuppresses, RunEnds, Pruned, Save
  <2> HIDE DEF P
  <2>4. /\ proposals' \in Seq(Item) /\ Distinct(proposals') /\ Len(proposals') \in Nat
        /\ Len(proposals') <= created
        /\ Ids(proposals') = Ids(proposals) \ P
        /\ \A p \in Proposal, v \in Verdict : Has(proposals', p, v) <=> Has(proposals, p, v)
        /\ Ids(proposals) \cap P = {} => proposals' = proposals
    BY <1>1, <2>2, <2>3
  <2> QED
    BY <1>0, <2>3, <2>4
<1> QED
  BY <1>3, <1>4, <1>5, <1>6 DEF Learn

\* A review starts with proposals of the list; when it remembers an index, it has one target,
\* and the index is its place.
LEMMA StartsWithListed ==
    ASSUME Typed, NEW t \in Review,
           \/ \E p \in Proposal, v \in Verdict : ReviewOne(t, p, v)
           \/ \E P \in SUBSET Visible :
                  DismissSimilar(t, P) \/ \E v \in Verdict : ReviewBatch(t, P, v)
    PROVE  \E P \in SUBSET Ids(proposals), v \in Verdict, i \in 0..MaxCreated :
               /\ Starts(t, P, v, i)
               /\ i > 0 => i \in DOMAIN proposals /\ P = {proposals[i].id}
<1> USE ProposalAssumption
<1>0. /\ proposals \in Seq(Item) /\ Len(proposals) <= created /\ created \in 0..MaxCreated
      /\ MaxCreated \in Nat /\ Distinct(proposals)
  BY DEF Typed, TypeOK
<1>1. Pending \subseteq Ids(proposals)
  BY <1>0, HasUnique DEF Pending
<1>2. Visible \subseteq Ids(proposals) /\ Hidden \subseteq Ids(proposals)
  BY <1>1 DEF Visible, Hidden
<1>3. CASE \E p \in Proposal, v \in Verdict : ReviewOne(t, p, v)
  <2>1. PICK p \in Proposal, v \in Verdict : ReviewOne(t, p, v)
    BY <1>3
  <2>2. p \in Ids(proposals) /\ Starts(t, {p}, v, IndexOf(p))
    BY <2>1 DEF ReviewOne
  <2>3. IndexOf(p) \in DOMAIN proposals /\ proposals[IndexOf(p)].id = p
    BY <2>2 DEF Ids, IndexOf
  <2>4. IndexOf(p) \in 0..MaxCreated
    BY <1>0, <2>3
  <2>5. {p} \in SUBSET Ids(proposals)
    BY <2>2
  <2> QED
    BY <2>2, <2>3, <2>4, <2>5
<1>4. CASE \E P \in SUBSET Visible, v \in Verdict : ReviewBatch(t, P, v)
  <2>1. PICK P \in SUBSET Visible, v \in Verdict : ReviewBatch(t, P, v)
    BY <1>4
  <2>2. P \in SUBSET Ids(proposals) /\ 0 \in 0..MaxCreated
    BY <1>0, <1>2
  <2>3. Starts(t, P, v, 0)
    BY <2>1 DEF ReviewBatch
  <2> QED
    BY <2>2, <2>3
<1>5. CASE \E P \in SUBSET Visible : DismissSimilar(t, P)
  <2>1. PICK P \in SUBSET Visible : DismissSimilar(t, P)
    BY <1>5
  <2> DEFINE All == P \cup (IF \E p \in P : House(p) THEN Hidden ELSE {})
  <2>2. All \in SUBSET Ids(proposals) /\ 0 \in 0..MaxCreated /\ "rejected" \in Verdict
    BY <1>0, <1>2 DEF Verdict
  <2>3. Starts(t, All, "rejected", 0)
    BY <2>1 DEF DismissSimilar
  <2> HIDE DEF All
  <2> QED
    BY <2>2, <2>3
<1> QED
  BY <1>3, <1>4, <1>5

\* A step of a review that has begun changes no list and no other task; its save has been
\* written.
LEMMA Continues ==
    ASSUME Typed, NEW t \in Review, ReviewSaved(t) \/ ReviewRecorded(t) \/ ReviewFlushed(t)
    PROVE  /\ task[t] \in Busy
           /\ task' \in [Task -> Busy \cup {Idle}] /\ \A u \in Task \ {t} : task'[u] = task[u]
           /\ \/ task'[t] = Idle
              \/ /\ task'[t].pc \in {"recording", "flushing"} /\ task'[t].index = task[t].index
                 /\ task'[t].targets = task[t].targets /\ task'[t].verdict = task[t].verdict
           /\ UNCHANGED <<proposals, stored, queued, mishaps, counters>>
           /\ reported' = reported \/ (task'[t] = Idle /\ Finish(t))
           /\ reported' \in [Proposal -> Verdict \cup {NoDecision}]
           /\ waiting' \in Seq(Task) /\ written' \in 0..Len(waiting') /\ Queued'
           /\ ~Unserved(t) /\ \A u \in Task : Unserved(u)' <=> Unserved(u)
<1>0. /\ t \in Task /\ task \in [Task -> Busy \cup {Idle}]
      /\ reported \in [Proposal -> Verdict \cup {NoDecision}]
  BY DEF Task, Typed, TypeOK
<1>1. task[t].pc \in {"saving", "recording", "flushing"}
  <2>1. ReviewSaved(t) => task[t].pc = "saving"
    <3>1. ReviewSaved(t) => \A i \in 1..Len(waiting) : task[waiting[i]].pc = "saving"
      BY DEF Typed, Queued
    <3>2. ReviewSaved(t) => waiting[1] = t /\ Len(waiting) \in Nat \ {0}
      BY DEF ReviewSaved, Returns, Typed, TypeOK
    <3> QED
      BY <3>1, <3>2
  <2> QED
    BY <2>1 DEF ReviewRecorded, ReviewFlushed
<1>2. task[t] \in Busy
  BY <1>0, <1>1, TaskTyped DEF Typed
<1>3. \/ task' = [task EXCEPT ![t] = Idle]
      \/ \E pc \in {"recording", "flushing"} : task' = [task EXCEPT ![t].pc = pc]
  BY DEF ReviewSaved, ReviewRecorded, ReviewFlushed, ToApproval, Finish
<1>4. \A pc \in {"recording", "flushing"} :
          /\ [task[t] EXCEPT !.pc = pc] \in Busy
          /\ [task[t] EXCEPT !.pc = pc].pc = pc
          /\ [task[t] EXCEPT !.pc = pc].targets = task[t].targets
          /\ [task[t] EXCEPT !.pc = pc].verdict = task[t].verdict
          /\ [task[t] EXCEPT !.pc = pc].index = task[t].index
  BY <1>2 DEF Busy
<1>5. \A u \in Task \ {t} : task'[u] = task[u]
  BY <1>0, <1>3
<1>6. \/ task'[t] = Idle
      \/ \E pc \in {"recording", "flushing"} : task'[t] = [task[t] EXCEPT !.pc = pc]
  BY <1>0, <1>3
<1>7. task' \in [Task -> Busy \cup {Idle}]
  BY <1>0, <1>3, <1>4
<1>8. UNCHANGED <<proposals, stored, queued, mishaps, counters>>
  BY DEF ReviewSaved, ReviewRecorded, ReviewFlushed, Returns, storeVars
<1>9. reported' = reported \/ (task'[t] = Idle /\ Finish(t))
  BY <1>0 DEF ReviewSaved, ReviewRecorded, ReviewFlushed, ToApproval, Finish
<1>10. reported' \in [Proposal -> Verdict \cup {NoDecision}]
  <2>1. CASE Finish(t)
    <3>1. task[t] # Idle
      BY <1>0, <1>1, TaskTyped DEF Typed
    <3>2. task[t].verdict \in Verdict
      BY <3>1 DEF Typed, Shaped
    <3> QED
      BY <1>0, <2>1, <3>2 DEF Finish
  <2> QED
    BY <1>0, <1>9, <2>1
<1>11. /\ waiting' \in Seq(Task) /\ written' \in 0..Len(waiting') /\ Queued'
       /\ ~Unserved(t) /\ \A u \in Task : Unserved(u)' <=> Unserved(u)
  <2>1. CASE ReviewSaved(t)
    BY <1>0, <1>5, <2>1, QueueShrinks DEF ReviewSaved
  <2>2. CASE ReviewRecorded(t) \/ ReviewFlushed(t)
    <3>1. task[t].pc # "saving" /\ UNCHANGED <<waiting, written>>
      BY <2>2 DEF ReviewRecorded, ReviewFlushed, storeVars
    <3>2. \A u \in Task : task[u].pc = "saving" => task'[u] = task[u]
      BY <1>5, <3>1
    <3>3. \A i \in (written + 1)..Len(waiting) : waiting[i] # t
      BY <3>1 DEF Typed, TypeOK, Queued
    <3> QED
      BY <3>1, <3>2, <3>3, QueueStays DEF Typed, TypeOK, Unserved
  <2> QED
    BY <2>1, <2>2
<1> QED
  BY <1>2, <1>4, <1>5, <1>6, <1>7, <1>8, <1>9, <1>10, <1>11

\* What a review writes down of its decision.
LEMMA ContinuesRecords ==
    ASSUME Typed, NEW t \in Review, ReviewSaved(t) \/ ReviewRecorded(t) \/ ReviewFlushed(t)
    PROVE  /\ records' \subseteq Proposal /\ records \subseteq records'
           /\ recordsStored' \subseteq Proposal
           /\ approvals' \in [HouseKey -> Verdict \cup {NoDecision}]
           /\ approvalsStored' \in [HouseKey -> Verdict \cup {NoDecision}]
<1>1. /\ records \subseteq Proposal /\ recordsStored \subseteq Proposal
      /\ approvals \in [HouseKey -> Verdict \cup {NoDecision}]
      /\ approvalsStored \in [HouseKey -> Verdict \cup {NoDecision}]
  BY DEF Typed, TypeOK
<1>2. t \in Task /\ task[t] \in Busy
  BY Continues DEF Task
<1>3. task[t].verdict \in Verdict
  BY <1>2, TaskTyped DEF Typed, Shaped, Idle, Busy
<1>4. approvals' = approvals \/ approvals' = Approve(t)
  BY DEF ReviewSaved, ReviewRecorded, ReviewFlushed, ToApproval
<1>5. Approve(t) \in [HouseKey -> Verdict \cup {NoDecision}]
  BY <1>1, <1>3 DEF Approve
<1>6. records' = records \/ records' = records \cup Unmonitored(Saved(t))
  BY DEF ReviewSaved, ReviewRecorded, ReviewFlushed
<1>7. Unmonitored(Saved(t)) \subseteq Proposal
  BY HasUnique DEF Unmonitored, Typed, TypeOK
<1>8. recordsStored' \in {recordsStored, records}
  BY DEF ReviewSaved, ReviewRecorded, ReviewFlushed
<1>9. approvalsStored' \in {approvalsStored, approvals}
  BY DEF ReviewSaved, ReviewRecorded, ReviewFlushed
<1> QED
  BY <1>1, <1>4, <1>5, <1>6, <1>7, <1>8, <1>9

\* A review that starts decides its targets and asks for a save, which no write has served.
LEMMA StartEffect ==
    ASSUME Typed, NEW t \in Review, NEW P \in SUBSET Ids(proposals), NEW v \in Verdict,
           NEW i \in 0..MaxCreated, Starts(t, P, v, i),
           i > 0 => i \in DOMAIN proposals /\ P = {proposals[i].id}
    PROVE  /\ P \subseteq Proposal
           /\ task' \in [Task -> Busy \cup {Idle}] /\ \A u \in Task \ {t} : task'[u] = task[u]
           /\ task'[t].pc = "saving" /\ task'[t].targets = P
           /\ task'[t].verdict = v
           /\ task'[t] \in Busy /\ Shaped'
           /\ waiting' \in Seq(Task) /\ written' \in 0..Len(waiting') /\ Queued'
           /\ \A u \in Task : Unserved(u)' <=> Unserved(u) \/ u = t
           /\ proposals' \in Seq(Item) /\ Len(proposals') = Len(proposals) /\ Distinct(proposals')
           /\ reported' \in [Proposal -> Verdict \cup {NoDecision}]
<1>0. /\ t \in Task /\ task \in [Task -> Busy \cup {Idle}] /\ task[t] = Idle
      /\ proposals \in Seq(Item) /\ Distinct(proposals) /\ Shaped
      /\ reported \in [Proposal -> Verdict \cup {NoDecision}]
  BY DEF Task, Typed, TypeOK, Starts
<1>1. P \subseteq Proposal
  BY <1>0, HasUnique
<1> DEFINE new == [pc |-> "saving", targets |-> P, verdict |-> v, index |-> i]
<1>2. new \in Busy /\ new.pc = "saving" /\ new.verdict = v /\ new.index = i /\ new.targets = P
  BY <1>1 DEF Busy
<1>3. task' = [task EXCEPT ![t] = new]
  BY DEF Starts
<1> HIDE DEF new
<1>4. task' \in [Task -> Busy \cup {Idle}] /\ task'[t] = new
      /\ \A u \in Task \ {t} : task'[u] = task[u]
  BY <1>0, <1>2, <1>3
<1>5. Shaped'
  <2>1. i > 0 => \E p \in Proposal : P = {p}
    BY <1>0, <1>1
  <2>2. \A u \in Review : u \in Task
    BY DEF Task
  <2>3. ASSUME NEW u \in Review, task'[u] # Idle
        PROVE  /\ task'[u].verdict \in Verdict
               /\ task'[u].index > 0 => \E p \in Proposal : task'[u].targets = {p}
    BY <1>0, <1>2, <1>4, <2>1, <2>2, <2>3 DEF Shaped
  <2> QED
    BY <2>3 DEF Shaped
<1>6. /\ waiting' \in Seq(Task) /\ written' \in 0..Len(waiting') /\ Queued'
      /\ \A u \in Task : Unserved(u)' <=> Unserved(u) \/ u = t
  <2>1. task[t].pc # "saving" /\ SaveAs(t)
    BY <1>0 DEF Idle, Starts
  <2> QED
    BY <1>0, <1>2, <1>4, <2>1, QueueGrows
<1>7. proposals' \in Seq(Item) /\ Len(proposals') = Len(proposals) /\ Distinct(proposals')
  BY <1>0, DecideFacts DEF Starts
<1>8. reported' \in [Proposal -> Verdict \cup {NoDecision}]
  BY <1>0 DEF Starts
<1> QED
  BY <1>1, <1>2, <1>4, <1>5, <1>6, <1>7, <1>8

LEMMA InitTyped == Init => Typed
<1> SUFFICES ASSUME Init PROVE Typed
  OBVIOUS
<1> USE ProposalAssumption
<1>1. <<>> \in Seq(Item) /\ <<>> \in Seq(Task) /\ Len(<<>>) = 0
  OBVIOUS
<1>2. Undecided \in [HouseKey -> Verdict \cup {NoDecision}]
  BY DEF Undecided
<1>3. /\ proposals \in Seq(Item) /\ stored \in Seq(Item) /\ waiting \in Seq(Task)
      /\ Len(proposals) = 0 /\ Len(stored) = 0 /\ Len(waiting) = 0
  BY <1>1 DEF Init
<1>4. TypeOK
  <2>1. /\ approvals \in [HouseKey -> Verdict \cup {NoDecision}]
        /\ approvalsStored \in [HouseKey -> Verdict \cup {NoDecision}]
        /\ task \in [Task -> Busy \cup {Idle}]
        /\ reported \in [Proposal -> Verdict \cup {NoDecision}]
    BY <1>2 DEF Init
  <2>2. /\ created \in 0..MaxCreated /\ reviews \in 0..MaxReviews /\ faults \in 0..MaxFaults
        /\ Len(proposals) <= created /\ written \in 0..Len(waiting)
    BY <1>3 DEF Init
  <2>3. /\ queued \in BOOLEAN /\ records \subseteq Proposal /\ recordsStored \subseteq Proposal
        /\ mishaps \subseteq Mishap
    BY DEF Init
  <2> QED
    BY <1>3, <2>1, <2>2, <2>3 DEF TypeOK
<1>5. Queued /\ Distinct(proposals) /\ Distinct(stored) /\ Len(stored) <= created
  BY <1>3 DEF Init, Queued, Distinct
<1>6. Shaped
  BY DEF Init, Shaped, Task
<1> QED
  BY <1>4, <1>5, <1>6 DEF Typed

LEMMA ResetTyped ==
    ASSUME Typed, Reset
    PROVE  /\ Typed' /\ \A t \in Task \ {"reset"} : task'[t] = task[t]
           /\ \A t \in Task \ {"reset"} : Unserved(t)' <=> Unserved(t)
<1> USE ProposalAssumption
<1>0. /\ "reset" \in Task /\ task \in [Task -> Busy \cup {Idle}]
      /\ \A t \in Review : t \in Task /\ t # "reset"
  BY DEF Task, Typed, TypeOK
<1>1. /\ task' \in [Task -> Busy \cup {Idle}]
      /\ \A t \in Task \ {"reset"} : task'[t] = task[t]
  <2>1. \/ task' = [task EXCEPT !["reset"] = Idle]
        \/ \E pc \in {"saving", "recording", "flushing"} : task' = [task EXCEPT !["reset"].pc = pc]
    BY DEF Reset, ResetStarts, ResetSaved, ResetRecorded, ResetFlushed
  <2>2. MaxCreated \in Nat
    OBVIOUS
  <2>3. \A pc \in {"saving", "recording", "flushing"}, r \in Busy \cup {Idle} :
            [r EXCEPT !.pc = pc] \in Busy
    BY <2>2 DEF Busy, Idle
  <2> QED
    BY <1>0, <2>1, <2>3
<1>2. Shaped'
  BY <1>0, <1>1 DEF Typed, Shaped
<1>3. /\ waiting' \in Seq(Task) /\ written' \in 0..Len(waiting') /\ Queued'
      /\ \A t \in Task \ {"reset"} : Unserved(t)' <=> Unserved(t)
  <2>1. CASE ResetStarts
    <3>1. task["reset"].pc # "saving" /\ task'["reset"].pc = "saving" /\ SaveAs("reset")
      BY <1>0, <2>1 DEF ResetStarts, Idle
    <3> QED
      BY <1>0, <1>1, <3>1, QueueGrows
  <2>2. CASE ResetSaved
    BY <1>0, <1>1, <2>2, QueueShrinks DEF ResetSaved
  <2>3. CASE ResetRecorded \/ ResetFlushed
    <3>1. task["reset"].pc # "saving" /\ UNCHANGED <<waiting, written>>
      BY <2>3 DEF ResetRecorded, ResetFlushed, storeVars
    <3> QED
      BY <1>1, <3>1, QueueStays DEF Typed, TypeOK
  <2> QED
    BY <2>1, <2>2, <2>3 DEF Reset
<1>4. /\ stored' = stored /\ created' = created /\ reviews' = reviews
      /\ proposals' = proposals \/ proposals' = <<>>
      /\ queued' = queued \/ queued' = TRUE
      /\ faults' = faults \/ (faults < MaxFaults /\ faults' = faults + 1)
      /\ recordsStored' \in {recordsStored, records} /\ approvalsStored' \in {approvalsStored, approvals}
      /\ records' \in {records, {}} /\ approvals' \in {approvals, Undecided}
  BY DEF Reset, ResetStarts, ResetSaved, ResetRecorded, ResetFlushed, Returns, SaveAs, storeVars,
         counters
<1>5. reported' \in [Proposal -> Verdict \cup {NoDecision}] /\ mishaps' \subseteq Mishap
  BY DEF Reset, ResetStarts, ResetSaved, ResetRecorded, ResetFlushed, Disturbed, Mishap, Typed, TypeOK
<1>6. Undecided \in [HouseKey -> Verdict \cup {NoDecision}]
  BY DEF Undecided
<1>7. /\ proposals' \in Seq(Item) /\ Distinct(proposals') /\ Len(proposals') <= created'
  <2>1. <<>> \in Seq(Item) /\ Len(<<>>) = 0 /\ Distinct(<<>>)
    BY DEF Distinct
  <2>2. created \in Nat /\ created' = created
    BY <1>4 DEF Typed, TypeOK
  <2>3. CASE proposals' = <<>>
    BY <2>1, <2>2, <2>3
  <2>4. CASE proposals' = proposals
    BY <2>2, <2>4 DEF Typed, TypeOK
  <2> QED
    BY <1>4, <2>3, <2>4
<1>8. faults' \in 0..MaxFaults
  BY <1>4 DEF Typed, TypeOK
<1>9. TypeOK'
  BY <1>1, <1>3, <1>4, <1>5, <1>6, <1>7, <1>8 DEF Typed, TypeOK
<1> QED
  BY <1>0, <1>1, <1>2, <1>3, <1>4, <1>7, <1>9 DEF Typed

LEMMA NextTyped == Typed /\ [Next]_vars => Typed'
<1> SUFFICES ASSUME Typed, [Next]_vars PROVE Typed'
  OBVIOUS
<1> USE ProposalAssumption
<1>1. CASE Learn
  <2>1. Queued'
    BY <1>1, LearnEffect, QueueStays
  <2>2. mishaps' \subseteq Mishap
    BY <1>1, LearnEffect DEF Disturbed, Mishap, Typed, TypeOK
  <2>3. Len(stored') <= created'
    <3>1. Len(stored) \in Nat /\ Len(stored) <= created
      BY DEF Typed, TypeOK
    <3>2. stored' = stored /\ created \in Nat /\ created' \in Nat /\ created <= created'
      BY <1>1, LearnEffect
    <3> QED
      BY <3>1, <3>2
  <2> QED
    BY <1>1, <2>1, <2>2, <2>3, LearnEffect DEF Typed, TypeOK, Shaped
<1>2. CASE Write
  <2>1. /\ stored' = proposals /\ queued' = FALSE /\ written' = Len(waiting)
        /\ UNCHANGED <<proposals, waiting, records, recordsStored, approvals, approvalsStored,
                       task, reported, mishaps, created, reviews, faults>>
    BY <1>2 DEF Write, counters
  <2>2. Len(waiting) \in 0..Len(waiting)
    BY DEF Typed, TypeOK
  <2> QED
    BY <2>1, <2>2 DEF Typed, TypeOK, Queued, Shaped
<1>3. ASSUME NEW t \in Review,
             \/ \E p \in Proposal, v \in Verdict : ReviewOne(t, p, v)
             \/ \E P \in SUBSET Visible :
                    DismissSimilar(t, P) \/ \E v \in Verdict : ReviewBatch(t, P, v)
      PROVE  Typed'
  <2>1. PICK P \in SUBSET Ids(proposals), v \in Verdict, i \in 0..MaxCreated :
            /\ Starts(t, P, v, i)
            /\ i > 0 => i \in DOMAIN proposals /\ P = {proposals[i].id}
    BY <1>3, StartsWithListed
  <2>2. /\ task' \in [Task -> Busy \cup {Idle}] /\ Shaped'
        /\ waiting' \in Seq(Task) /\ written' \in 0..Len(waiting') /\ Queued'
        /\ proposals' \in Seq(Item) /\ Len(proposals') = Len(proposals) /\ Distinct(proposals')
        /\ reported' \in [Proposal -> Verdict \cup {NoDecision}]
    BY <2>1, StartEffect
  <2>3. /\ queued' = TRUE /\ reviews < MaxReviews /\ reviews' = reviews + 1
        /\ mishaps' \subseteq mishaps \cup {"contended", "reset"}
        /\ UNCHANGED <<stored, records, recordsStored, approvals, approvalsStored, created, faults>>
    BY <2>1 DEF Starts, SaveAs
  <2>4. reviews' \in 0..MaxReviews /\ mishaps' \subseteq Mishap
    BY <2>3 DEF Typed, TypeOK, Mishap
  <2> QED
    BY <2>2, <2>3, <2>4 DEF Typed, TypeOK
<1>4. ASSUME NEW t \in Review, ReviewSaved(t) \/ ReviewRecorded(t) \/ ReviewFlushed(t)
      PROVE  Typed'
  <2>1. Shaped'
    <3> SUFFICES ASSUME NEW u \in Review, task'[u] # Idle
                 PROVE  /\ task'[u].verdict \in Verdict
                        /\ task'[u].index > 0 => \E p \in Proposal : task'[u].targets = {p}
      BY DEF Shaped
    <3>1. u \in Task /\ t \in Task /\ task[t] # Idle
      BY <1>4, Continues, TaskTyped DEF Task, Typed, Idle, Busy
    <3> QED
      BY <1>4, <3>1, Continues DEF Typed, Shaped
  <2>2. UNCHANGED <<proposals, stored, queued, mishaps, created, reviews, faults>>
    BY <1>4, Continues DEF counters
  <2>3. /\ task' \in [Task -> Busy \cup {Idle}]
        /\ waiting' \in Seq(Task) /\ written' \in 0..Len(waiting') /\ Queued'
        /\ reported' \in [Proposal -> Verdict \cup {NoDecision}]
    BY <1>4, Continues
  <2>4. /\ records' \subseteq Proposal /\ recordsStored' \subseteq Proposal
        /\ approvals' \in [HouseKey -> Verdict \cup {NoDecision}]
        /\ approvalsStored' \in [HouseKey -> Verdict \cup {NoDecision}]
    BY <1>4, ContinuesRecords
  <2> QED
    BY <2>1, <2>2, <2>3, <2>4 DEF Typed, TypeOK
<1>5. CASE Reset
  BY <1>5, ResetTyped
<1>6. CASE Restart
  <2>1. /\ proposals' = stored /\ queued' = FALSE /\ waiting' = <<>> /\ written' = 0
        /\ approvals' = approvalsStored /\ task' = [t \in Task |-> Idle]
        /\ faults < MaxFaults /\ faults' = faults + 1
        /\ UNCHANGED <<stored, approvalsStored, reported, created, reviews>>
    BY <1>6 DEF Restart
  <2>2. records' \subseteq Proposal /\ recordsStored' \subseteq Proposal /\ mishaps' \subseteq Mishap
    BY <1>6 DEF Restart, Typed, TypeOK, Mishap
  <2>3. <<>> \in Seq(Task) /\ Len(<<>>) = 0 /\ faults' \in 0..MaxFaults
    BY <2>1 DEF Typed, TypeOK
  <2>4. Queued' /\ Shaped'
    BY <2>1, <2>3 DEF Queued, Shaped, Task
  <2>5. /\ proposals' \in Seq(Item) /\ Distinct(proposals') /\ Len(proposals') <= created'
        /\ stored' \in Seq(Item) /\ Distinct(stored') /\ Len(stored') <= created'
    BY <2>1 DEF Typed, TypeOK
  <2>6. waiting' \in Seq(Task) /\ written' \in 0..Len(waiting')
    BY <2>1, <2>3
  <2>7. task' \in [Task -> Busy \cup {Idle}]
    BY <2>1
  <2> QED
    BY <2>1, <2>2, <2>3, <2>4, <2>5, <2>6, <2>7 DEF Typed, TypeOK
<1>7. CASE UNCHANGED vars
  BY <1>7 DEF vars, storeVars, counters, Typed, TypeOK, Queued, Shaped
<1> QED
  BY <1>1, <1>2, <1>3, <1>4, <1>5, <1>6, <1>7 DEF Next, ReviewStep

\* The list, its file, the queue of the saves, the records, the approvals and the tasks are well
\* typed whatever runs, reviews, resets and restarts overlap.
THEOREM TypeCorrect == Spec => []TypeOK
<1>1. Typed => TypeOK
  BY DEF Typed
<1> QED
  BY <1>1, InitTyped, NextTyped, PTL DEF Spec

\* One identity waits once in the review queue, whatever changes the list between two saves.
THEOREM OnePendingStays == Spec => []OnePendingPerIdentity
<1>1. Typed => OnePendingPerIdentity
  BY DEF Typed, Distinct, OnePendingPerIdentity
<1> QED
  BY <1>1, InitTyped, NextTyped, PTL DEF Spec

\* Runs, submissions and withdrawals neither reopen nor remove a decided proposal.
THEOREM DecisionsStay == Spec => DecisionsKept
<1>1. Typed /\ [Next]_vars =>
          [Learn => \A p \in Proposal, v \in Verdict :
               Has(proposals, p, v) => Has(proposals', p, v)]_vars
  BY LearnEffect
<1> QED
  BY <1>1, InitTyped, NextTyped, PTL DEF Spec, DecisionsKept

-----------------------------------------------------------------------------
(* Reported decisions are durable *)

\* A decision is in the file, unless a review of the proposal waits for a write.
Durable ==
    \A p \in Proposal, v \in Verdict :
        /\ Has(proposals, p, v)
        /\ \A t \in Review : Unserved(t) => p \notin task[t].targets
        => Has(stored, p, v)

\* A reported decision is the proposal's, in memory and in the file.
Reported ==
    \A p \in Proposal : reported[p] # NoDecision =>
        Has(proposals, p, reported[p]) /\ Has(stored, p, reported[p])

LEMMA NextDurable == Typed /\ Durable /\ Reported /\ [Next]_vars => Durable' /\ Reported'
<1> SUFFICES ASSUME Typed, Durable, Reported, [Next]_vars PROVE Durable' /\ Reported'
  OBVIOUS
<1>0. /\ \A t \in Review : t \in Task /\ t # "reset"
      /\ proposals \in Seq(Item) /\ Distinct(proposals)
      /\ reported \in [Proposal -> Verdict \cup {NoDecision}]
  BY ProposalAssumption DEF Task, Typed, TypeOK
<1>1. CASE Learn
  <2>1. UNCHANGED <<stored, waiting, written, task, reported>>
    BY <1>1, LearnEffect
  <2>2. \A p \in Proposal, v \in Verdict : Has(proposals', p, v) <=> Has(proposals, p, v)
    BY <1>1, LearnEffect
  <2>3. \A p \in Proposal : reported[p] # NoDecision => reported[p] \in Verdict
    BY <1>0
  <2> QED
    BY <2>1, <2>2, <2>3 DEF Durable, Reported, Unserved
<1>2. CASE Write
  BY <1>2 DEF Write, Durable, Reported
<1>3. ASSUME NEW t \in Review,
             \/ \E p \in Proposal, v \in Verdict : ReviewOne(t, p, v)
             \/ \E P \in SUBSET Visible :
                    DismissSimilar(t, P) \/ \E v \in Verdict : ReviewBatch(t, P, v)
      PROVE  Durable' /\ Reported'
  <2>1. PICK P \in SUBSET Ids(proposals), v \in Verdict, i \in 0..MaxCreated :
            /\ Starts(t, P, v, i)
            /\ i > 0 => i \in DOMAIN proposals /\ P = {proposals[i].id}
    BY <1>3, StartsWithListed
  <2>2. /\ \A u \in Task \ {t} : task'[u] = task[u]
        /\ task'[t].targets = P
        /\ \A u \in Task : Unserved(u)' <=> Unserved(u) \/ u = t
    BY <2>1, StartEffect
  <2>3. /\ proposals' = Decide(proposals, P, v) /\ stored' = stored /\ task[t] = Idle
        /\ reported' = [p \in Proposal |-> IF p \in P THEN NoDecision ELSE reported[p]]
    BY <2>1 DEF Starts, SaveAs
  <2>4. \A p, s : p \notin P => (Has(proposals', p, s) <=> Has(proposals, p, s))
    BY <1>0, <2>3, DecideFacts
  <2>5. Durable'
    <3> SUFFICES ASSUME NEW p \in Proposal, NEW w \in Verdict, Has(proposals', p, w),
                        \A u \in Review : Unserved(u)' => p \notin task'[u].targets
                 PROVE  Has(stored', p, w)
      BY DEF Durable
    <3>1. p \notin P
      BY <1>0, <2>2
    <3>2. \A u \in Review : Unserved(u) => p \notin task[u].targets
      BY <1>0, <2>2, <2>3 DEF Idle
    <3> QED
      BY <2>3, <2>4, <3>1, <3>2 DEF Durable
  <2>6. Reported'
    BY <2>3, <2>4 DEF Reported
  <2> QED
    BY <2>5, <2>6
<1>4. ASSUME NEW t \in Review, ReviewSaved(t) \/ ReviewRecorded(t) \/ ReviewFlushed(t)
      PROVE  Durable' /\ Reported'
  <2>1. /\ \A u \in Task \ {t} : task'[u] = task[u]
        /\ proposals' = proposals /\ stored' = stored
        /\ ~Unserved(t) /\ \A u \in Task : Unserved(u)' <=> Unserved(u)
        /\ reported' = reported \/ Finish(t)
    BY <1>4, Continues
  <2>2. Durable'
    <3> SUFFICES ASSUME NEW p \in Proposal, NEW w \in Verdict, Has(proposals', p, w),
                        \A u \in Review : Unserved(u)' => p \notin task'[u].targets
                 PROVE  Has(stored', p, w)
      BY DEF Durable
    <3>1. \A u \in Review : Unserved(u) => p \notin task[u].targets
      BY <1>0, <2>1
    <3> QED
      BY <2>1, <3>1 DEF Durable
  <2>3. CASE reported' = reported
    BY <2>1, <2>2, <2>3 DEF Reported
  <2>4. CASE Finish(t)
    <3> SUFFICES ASSUME NEW p \in Proposal, reported'[p] # NoDecision
                 PROVE  Has(proposals, p, reported'[p]) /\ Has(stored, p, reported'[p])
      <4>1. \A p, w : /\ Has(proposals', p, w) <=> Has(proposals, p, w)
                      /\ Has(stored', p, w) <=> Has(stored, p, w)
        BY <2>1
      <4> QED
        BY <2>2, <4>1 DEF Reported
    <3>1. CASE /\ p \in task[t].targets /\ Has(proposals, p, task[t].verdict)
               /\ \A u \in Review \ {t} : p \notin task[u].targets
      <4>1. reported'[p] = task[t].verdict
        BY <2>4, <3>1 DEF Finish
      <4>2. task[t].verdict \in Verdict
        BY <1>0, <3>1, TaskTyped DEF Typed, Shaped
      <4> QED
        BY <2>1, <3>1, <4>1, <4>2 DEF Durable
    <3>2. CASE reported'[p] = reported[p]
      BY <3>2 DEF Reported
    <3> QED
      BY <2>4, <3>1, <3>2 DEF Finish
  <2> QED
    BY <2>1, <2>2, <2>3, <2>4
<1>5. CASE Reset
  <2>1. /\ \A u \in Task \ {"reset"} : task'[u] = task[u]
        /\ \A u \in Task \ {"reset"} : Unserved(u)' <=> Unserved(u)
    BY <1>5, ResetTyped
  <2>2. /\ stored' = stored
        /\ \/ proposals' = proposals /\ reported' = reported
           \/ proposals' = <<>> /\ reported' = [p \in Proposal |-> NoDecision]
    BY <1>5 DEF Reset, ResetStarts, ResetSaved, ResetRecorded, ResetFlushed, Returns, SaveAs,
                storeVars
  <2>3. \A p, v : ~Has(<<>>, p, v)
    BY DEF Has
  <2> QED
    BY <1>0, <2>1, <2>2, <2>3 DEF Durable, Reported
<1>6. CASE Restart
  BY <1>6 DEF Restart, Durable, Reported
<1>7. CASE UNCHANGED vars
  BY <1>7 DEF vars, storeVars, Durable, Reported, Unserved
<1> QED
  BY <1>1, <1>2, <1>3, <1>4, <1>5, <1>6, <1>7 DEF Next, ReviewStep

\* A decision that was reported as done is in the file, so that no stop of the program loses it,
\* however the saves of overlapping reviews were merged.
THEOREM ReportedStaysDurable == Spec => []ReportedDurable
<1>1. Init => Durable /\ Reported
  BY DEF Init, Durable, Reported, Has
<1>2. Reported => ReportedDurable
  BY DEF Reported, ReportedDurable
<1> QED
  BY <1>1, <1>2, InitTyped, NextTyped, NextDurable, PTL DEF Spec

-----------------------------------------------------------------------------
(* Accepted proposals are monitored *)

\* While no entry has moved under a review, the index it remembers is its proposal's.
Indexed ==
    "moved" \notin mishaps =>
        \A t \in Review : task[t].pc = "saving" /\ task[t].index > 0 =>
            /\ task[t].index \in DOMAIN proposals
            /\ task[t].targets = {proposals[task[t].index].id}

\* A reset that meets no review clears the records of an undecided list.
ResetClean ==
    task["reset"] # Idle /\ "reset" \notin mishaps =>
        /\ \A t \in Review : task[t] = Idle
        /\ \A p \in Proposal, v \in Verdict : ~Has(proposals, p, v)

\* An accepted house-state proposal has its record, or its review still waits for its save.
Monitored ==
    \A p \in Proposal :
        House(p) /\ Has(proposals, p, "accepted") /\ mishaps \cap {"moved", "reset"} = {} =>
            p \in records \/ \E t \in Review : task[t].pc = "saving" /\ p \in task[t].targets

\* The steps that begin a review, as StartsWithListed and StartEffect describe them.
Begins(t, P, v, i) ==
    /\ Starts(t, P, v, i)
    /\ i > 0 => i \in DOMAIN proposals /\ P = {proposals[i].id}

LEMMA BeginEffect ==
    ASSUME Typed, NEW t \in Review, NEW P \in SUBSET Ids(proposals), NEW v \in Verdict,
           NEW i \in 0..MaxCreated, Begins(t, P, v, i)
    PROVE  /\ P \subseteq Proposal /\ task[t] = Idle
           /\ \A w \in Task \ {t} : task'[w] = task[w]
           /\ task'[t].pc = "saving" /\ task'[t].targets = P
           /\ task'[t].verdict = v /\ task'[t].index = i
           /\ \A p, s : p \notin P => (Has(proposals', p, s) <=> Has(proposals, p, s))
           /\ \A p, s : p \in P => (Has(proposals', p, s) <=> s = v)
           /\ mishaps \subseteq mishaps'
           /\ UNCHANGED <<stored, records, recordsStored, approvals, approvalsStored>>
<1>1. Starts(t, P, v, i) /\ (i > 0 => i \in DOMAIN proposals /\ P = {proposals[i].id})
  BY DEF Begins
<1>2. /\ P \subseteq Proposal
      /\ \A w \in Task \ {t} : task'[w] = task[w]
      /\ task'[t].pc = "saving" /\ task'[t].targets = P
      /\ task'[t].verdict = v
  BY <1>1, StartEffect
<1>3. proposals' = Decide(proposals, P, v) /\ proposals \in Seq(Item)
  BY <1>1 DEF Starts, Typed, TypeOK
<1>4. /\ \A p, s : p \notin P => (Has(proposals', p, s) <=> Has(proposals, p, s))
      /\ \A p, s : p \in P => (Has(proposals', p, s) <=> s = v)
  BY <1>3, DecideFacts
<1>5. task'[t].index = i
  <2>1. t \in Task /\ task \in [Task -> Busy \cup {Idle}]
    BY DEF Task, Typed, TypeOK
  <2>2. task' = [task EXCEPT ![t] = [pc |-> "saving", targets |-> P, verdict |-> v, index |-> i]]
    BY <1>1 DEF Starts
  <2> QED
    BY <2>1, <2>2
<1> QED
  BY <1>1, <1>2, <1>4, <1>5 DEF Starts, SaveAs

\* The mishaps only grow, except that a restart forgets the moves.
LEMMA MishapsGrow ==
    ASSUME Typed, [Next]_vars, ~Restart
    PROVE  mishaps \subseteq mishaps'
<1>1. CASE Learn
  BY <1>1, LearnEffect DEF Disturbed
<1>2. CASE Reset
  BY <1>2 DEF Reset, ResetStarts, ResetSaved, ResetRecorded, ResetFlushed, Disturbed
<1>3. CASE Write
  BY <1>3 DEF Write
<1>4. ASSUME NEW t \in Review, ReviewStep(t)
      PROVE  mishaps \subseteq mishaps'
  BY <1>4 DEF ReviewStep, ReviewOne, ReviewBatch, DismissSimilar, Starts, ReviewSaved,
              ReviewRecorded, ReviewFlushed
<1>5. CASE UNCHANGED vars
  BY <1>5 DEF vars
<1> QED
  BY <1>1, <1>2, <1>3, <1>4, <1>5 DEF Next

LEMMA NextIndexed == Typed /\ Indexed /\ [Next]_vars => Indexed'
<1> SUFFICES ASSUME Typed, Indexed, [Next]_vars, "moved" \notin mishaps',
                    NEW u \in Review, task'[u].pc = "saving", task'[u].index > 0
             PROVE  /\ task'[u].index \in DOMAIN proposals'
                    /\ task'[u].targets = {proposals'[task'[u].index].id}
  BY DEF Indexed
<1>0. /\ \A t \in Review : t \in Task /\ t # "reset"
      /\ proposals \in Seq(Item) /\ Idle.pc # "saving" /\ Idle.index = 0
      /\ task \in [Task -> Busy \cup {Idle}]
  BY ProposalAssumption DEF Task, Typed, TypeOK, Idle
<1>1. CASE Learn
  <2>1. task' = task
    BY <1>1, LearnEffect
  <2>2. CASE mishaps' = Disturbed
    <3>1. task[u].pc = "saving" /\ task[u].index > 0
      BY <2>1
    <3> QED
      BY <2>2, <3>1 DEF Disturbed
  <2>3. CASE /\ mishaps' = mishaps
             /\ \A i \in DOMAIN proposals : i \in DOMAIN proposals'
                                            /\ proposals'[i] = proposals[i]
    BY <2>1, <2>3 DEF Indexed
  <2> QED
    BY <1>1, <2>2, <2>3, LearnEffect
<1>2. CASE Write
  BY <1>2 DEF Write, Indexed
<1>3. ASSUME NEW t \in Review, NEW P \in SUBSET Ids(proposals), NEW v \in Verdict,
             NEW i \in 0..MaxCreated, Begins(t, P, v, i)
      PROVE  /\ task'[u].index \in DOMAIN proposals'
             /\ task'[u].targets = {proposals'[task'[u].index].id}
  <2>1. /\ \A w \in Task \ {t} : task'[w] = task[w]
        /\ task'[t].targets = P /\ task'[t].index = i
    BY <1>3, BeginEffect
  <2>2. proposals' = Decide(proposals, P, v) /\ mishaps \subseteq mishaps'
    BY <1>3 DEF Begins, Starts
  <2>3. /\ DOMAIN proposals' = DOMAIN proposals
        /\ \A j \in DOMAIN proposals : proposals'[j].id = proposals[j].id
    BY <1>0, <2>2, DecideFacts
  <2>4. CASE u = t
    BY <1>3, <2>1, <2>3, <2>4 DEF Begins
  <2>5. CASE u # t
    BY <1>0, <2>1, <2>2, <2>3, <2>5 DEF Indexed
  <2> QED
    BY <2>4, <2>5
<1>4. ASSUME NEW t \in Review, ReviewSaved(t) \/ ReviewRecorded(t) \/ ReviewFlushed(t)
      PROVE  /\ task'[u].index \in DOMAIN proposals'
             /\ task'[u].targets = {proposals'[task'[u].index].id}
  <2>1. /\ \A w \in Task \ {t} : task'[w] = task[w]
        /\ task'[t].pc # "saving" /\ proposals' = proposals /\ mishaps' = mishaps
    BY <1>0, <1>4, Continues
  <2> QED
    BY <1>0, <2>1 DEF Indexed
<1>5. CASE Reset
  <2>1. task'[u] = task[u]
    BY <1>0, <1>5, ResetTyped
  <2>2. CASE ResetStarts
    <3>1. task[u] # Idle /\ task[u].pc = "saving" /\ task[u].index > 0
      BY <1>0, <2>1
    <3>2. mishaps' = Disturbed \cup {"reset"}
      BY <2>2, <3>1 DEF ResetStarts
    <3> QED
      BY <3>1, <3>2 DEF Disturbed
  <2>3. CASE ~ResetStarts
    <3>1. proposals' = proposals /\ mishaps' = mishaps
      BY <1>5, <2>3 DEF Reset, ResetSaved, ResetRecorded, ResetFlushed
    <3> QED
      BY <2>1, <3>1 DEF Indexed
  <2> QED
    BY <2>2, <2>3
<1>6. CASE Restart
  BY <1>0, <1>6 DEF Restart
<1>7. CASE UNCHANGED vars
  BY <1>7 DEF vars, Indexed
<1> QED
  BY <1>1, <1>2, <1>3, <1>4, <1>5, <1>6, <1>7, StartsWithListed DEF Next, ReviewStep, Begins

LEMMA NextResetClean == Typed /\ ResetClean /\ [Next]_vars => ResetClean'
<1> SUFFICES ASSUME Typed, ResetClean, [Next]_vars, task'["reset"] # Idle,
                    "reset" \notin mishaps'
             PROVE  /\ \A t \in Review : task'[t] = Idle
                    /\ \A p \in Proposal, v \in Verdict : ~Has(proposals', p, v)
  BY DEF ResetClean
<1>0. /\ \A t \in Review : t \in Task /\ t # "reset"
      /\ "reset" \in Task /\ Idle.pc = "idle"
      /\ task \in [Task -> Busy \cup {Idle}]
  BY ProposalAssumption DEF Task, Typed, TypeOK, Idle
<1>a. ~Restart => "reset" \notin mishaps
  BY MishapsGrow
<1>1. CASE Learn
  <2>1. /\ task' = task /\ mishaps \subseteq mishaps'
        /\ \A p \in Proposal, v \in Verdict : Has(proposals', p, v) <=> Has(proposals, p, v)
    BY <1>1, LearnEffect DEF Disturbed
  <2> QED
    BY <2>1 DEF ResetClean
<1>2. CASE Write
  BY <1>2 DEF Write, ResetClean
<1>3. ASSUME NEW t \in Review, NEW P \in SUBSET Ids(proposals), NEW v \in Verdict,
             NEW i \in 0..MaxCreated, Begins(t, P, v, i)
      PROVE  FALSE
  <2>1. task'["reset"] = task["reset"]
    BY <1>0, <1>3, StartEffect DEF Begins
  <2> QED
    BY <1>3, <2>1 DEF Begins, Starts
<1>4. ASSUME NEW t \in Review, ReviewSaved(t) \/ ReviewRecorded(t) \/ ReviewFlushed(t)
      PROVE  FALSE
  <2>1. task[t] \in Busy /\ task'["reset"] = task["reset"] /\ mishaps' = mishaps
    BY <1>0, <1>4, Continues
  <2>2. task[t] = Idle
    BY <2>1 DEF ResetClean
  <2> QED
    BY <1>0, <2>1, <2>2 DEF Busy
<1>5. CASE Reset
  <2>1. \A t \in Review : task'[t] = task[t]
    BY <1>0, <1>5, ResetTyped
  <2>2. CASE ResetStarts
    <3>1. \A t \in Review : task[t] = Idle
      BY <2>2 DEF ResetStarts
    <3>2. \A p, v : ~Has(<<>>, p, v)
      BY DEF Has
    <3> QED
      BY <2>1, <2>2, <3>1, <3>2 DEF ResetStarts
  <2>3. CASE ~ResetStarts
    <3>1. proposals' = proposals /\ mishaps' = mishaps
      BY <1>5, <2>3 DEF Reset, ResetSaved, ResetRecorded, ResetFlushed
    <3>2. CASE ResetSaved
      <4>1. \A i \in 1..Len(waiting) : task[waiting[i]].pc = "saving"
        BY DEF Typed, Queued
      <4>2. waiting[1] = "reset" /\ Len(waiting) \in Nat \ {0}
        BY <3>2 DEF ResetSaved, Returns, Typed, TypeOK
      <4>3. task["reset"].pc = "saving"
        BY <4>1, <4>2
      <4> QED
        BY <1>0, <2>1, <3>1, <4>3 DEF ResetClean
    <3>3. CASE ResetRecorded \/ ResetFlushed
      <4>1. task["reset"] # Idle
        BY <1>0, <3>3 DEF ResetRecorded, ResetFlushed
      <4> QED
        BY <2>1, <3>1, <4>1 DEF ResetClean
    <3> QED
      BY <1>5, <2>3, <3>2, <3>3 DEF Reset
  <2> QED
    BY <2>2, <2>3
<1>6. CASE Restart
  BY <1>0, <1>6 DEF Restart
<1>7. CASE UNCHANGED vars
  BY <1>7 DEF vars, ResetClean
<1> QED
  BY <1>1, <1>2, <1>3, <1>4, <1>5, <1>6, <1>7, StartsWithListed DEF Next, ReviewStep, Begins

\* A review whose save returns while no entry has moved looks at its own targets, and does
\* not raise.
LEMMA SavedIsTargets ==
    ASSUME Typed, Indexed, "moved" \notin mishaps, NEW t \in Review, task[t].pc = "saving"
    PROVE  task[t].index <= Len(proposals) /\ Saved(t) = task[t].targets
<1>1. task[t] \in Busy
  BY TaskTyped DEF Task, Typed, Idle
<1>2. task[t].index \in Nat /\ proposals \in Seq(Item) /\ Len(proposals) \in Nat
  BY <1>1, ProposalAssumption DEF Busy, Typed, TypeOK
<1>3. CASE task[t].index = 0
  BY <1>2, <1>3 DEF Saved
<1>4. CASE task[t].index > 0
  <2>1. /\ task[t].index \in DOMAIN proposals
        /\ task[t].targets = {proposals[task[t].index].id}
    BY <1>4 DEF Indexed
  <2> QED
    BY <1>2, <1>4, <2>1 DEF Saved
<1> QED
  BY <1>2, <1>3, <1>4

LEMMA NextMonitored ==
    Typed /\ Indexed /\ ResetClean /\ Monitored /\ [Next]_vars => Monitored'
<1> SUFFICES ASSUME Typed, Indexed, ResetClean, Monitored, [Next]_vars,
                    NEW p \in Proposal, House(p), Has(proposals', p, "accepted"),
                    mishaps' \cap {"moved", "reset"} = {}
             PROVE  p \in records' \/ \E t \in Review : task'[t].pc = "saving"
                                                        /\ p \in task'[t].targets
  BY DEF Monitored, House
<1>0. /\ \A t \in Review : t \in Task /\ t # "reset"
      /\ Idle.pc = "idle" /\ "accepted" \in Verdict
  BY ProposalAssumption DEF Task, Idle, Verdict
<1>a. ~Restart => mishaps \cap {"moved", "reset"} = {}
  BY MishapsGrow
<1>1. CASE Learn
  <2>1. task' = task /\ records' = records /\ Has(proposals, p, "accepted")
    BY <1>0, <1>1, LearnEffect
  <2>2. mishaps \subseteq mishaps'
    BY <1>1, LearnEffect DEF Disturbed
  <2> QED
    BY <2>1, <2>2 DEF Monitored
<1>2. CASE Write
  BY <1>2 DEF Write, Monitored
<1>3. ASSUME NEW t \in Review, NEW P \in SUBSET Ids(proposals), NEW v \in Verdict,
             NEW i \in 0..MaxCreated, Begins(t, P, v, i)
      PROVE  p \in records' \/ \E u \in Review : task'[u].pc = "saving" /\ p \in task'[u].targets
  <2>1. /\ task[t] = Idle /\ \A w \in Task \ {t} : task'[w] = task[w]
        /\ task'[t].pc = "saving" /\ task'[t].targets = P
        /\ p \notin P => Has(proposals, p, "accepted")
        /\ mishaps \subseteq mishaps' /\ records' = records
    BY <1>3, BeginEffect
  <2>2. CASE p \in P
    BY <2>1, <2>2
  <2>3. CASE p \notin P
    <3>1. p \in records \/ \E u \in Review : task[u].pc = "saving" /\ p \in task[u].targets
      BY <2>1, <2>3 DEF Monitored
    <3>2. \A u \in Review : task[u].pc = "saving" => task'[u] = task[u]
      BY <1>0, <2>1
    <3> QED
      BY <2>1, <3>1, <3>2
  <2> QED
    BY <2>2, <2>3
<1>4. ASSUME NEW t \in Review, ReviewSaved(t) \/ ReviewRecorded(t) \/ ReviewFlushed(t)
      PROVE  p \in records' \/ \E u \in Review : task'[u].pc = "saving" /\ p \in task'[u].targets
  <2>1. /\ \A w \in Task \ {t} : task'[w] = task[w]
        /\ proposals' = proposals /\ mishaps' = mishaps
    BY <1>4, Continues
  <2>2. records \subseteq records'
    BY <1>4, ContinuesRecords
  <2>3. p \in records \/ \E u \in Review : task[u].pc = "saving" /\ p \in task[u].targets
    BY <2>1 DEF Monitored
  <2>4. CASE task[t].pc = "saving" /\ p \in task[t].targets
    <3>1. ReviewSaved(t)
      BY <1>4, <2>4 DEF ReviewRecorded, ReviewFlushed
    <3>2. task[t].index <= Len(proposals) /\ Saved(t) = task[t].targets
      BY <2>1, <2>4, SavedIsTargets
    <3>3. task[t].index \in Int /\ Len(proposals) \in Int
      <4>1. task[t] \in Busy /\ MaxCreated \in Nat
        BY <2>4, <1>0, TaskTyped, ProposalAssumption DEF Typed
      <4> QED
        BY <4>1 DEF Busy, Typed, TypeOK
    <3>4. p \in records \/ p \in Unmonitored(Saved(t))
      BY <2>1, <2>4, <3>2 DEF Unmonitored
    <3> QED
      BY <3>1, <3>2, <3>3, <3>4 DEF ReviewSaved
  <2> QED
    BY <1>0, <2>1, <2>2, <2>3, <2>4
<1>5. CASE Reset
  <2>1. \A t \in Review : task'[t] = task[t]
    BY <1>0, <1>5, ResetTyped
  <2>2. ~ResetStarts
    BY DEF ResetStarts, Has
  <2>3. proposals' = proposals /\ mishaps' = mishaps
    BY <1>5, <2>2 DEF Reset, ResetSaved, ResetRecorded, ResetFlushed
  <2>4. ~ResetSaved
    <3> SUFFICES ASSUME ResetSaved PROVE FALSE
      OBVIOUS
    <3>1. \A i \in 1..Len(waiting) : task[waiting[i]].pc = "saving"
      BY DEF Typed, Queued
    <3>2. waiting[1] = "reset" /\ Len(waiting) \in Nat \ {0}
      BY DEF ResetSaved, Returns, Typed, TypeOK
    <3>3. task["reset"] # Idle
      BY <1>0, <3>1, <3>2
    <3> QED
      BY <1>0, <2>3, <3>3 DEF ResetClean
  <2>5. records' = records
    BY <1>5, <2>2, <2>4 DEF Reset, ResetRecorded, ResetFlushed
  <2> QED
    BY <2>1, <2>3, <2>5 DEF Monitored
<1>6. CASE Restart
  BY <1>6 DEF Restart
<1>7. CASE UNCHANGED vars
  BY <1>7 DEF vars, Monitored
<1> QED
  BY <1>1, <1>2, <1>3, <1>4, <1>5, <1>6, <1>7, StartsWithListed DEF Next, ReviewStep, Begins

\* Every accepted house-state proposal has its lifecycle record or a review under way, as long
\* as no entry moved under a review and no reset met one.
THEOREM MonitoringStays == Spec => []AcceptedMonitored
<1>1. Init => Indexed /\ ResetClean /\ Monitored
  <2>1. Init => \A p, v : ~Has(proposals, p, v)
    BY DEF Init, Has
  <2>2. Init => \A t \in Task : task[t] = Idle
    BY DEF Init
  <2>3. "reset" \in Task /\ (\A t \in Review : t \in Task) /\ Idle.pc = "idle"
    BY DEF Task, Idle
  <2> QED
    BY <2>1, <2>2, <2>3 DEF Indexed, ResetClean, Monitored
<1>2. Monitored => AcceptedMonitored
  BY DEF Monitored, AcceptedMonitored, InFlight
<1> QED
  BY <1>1, <1>2, InitTyped, NextTyped, NextIndexed, NextResetClean, NextMonitored, PTL DEF Spec

-----------------------------------------------------------------------------
(* The approvals agree with the decisions *)

\* A review decided its targets, and no other review has them.
Exclusive ==
    \A t \in Review : \A p \in task[t].targets :
        /\ Has(proposals, p, task[t].verdict)
        /\ \A u \in Review : p \in task[u].targets => u = t

\* The approval of a decided proposal is the decision, unless its review still has to say so.
Obeyed ==
    \A p \in Proposal, v \in Verdict : House(p) /\ Has(proposals, p, v) =>
        \/ approvals[KeyOf[p]] = v
        \/ \E t \in Review : task[t].pc \in {"saving", "recording"} /\ p \in task[t].targets

\* So is the approval in the file, for the decisions in the file.
ObeyedInFile ==
    task["reset"] = Idle =>
        \A p \in Proposal, v \in Verdict : House(p) /\ Has(stored, p, v) =>
            approvalsStored[KeyOf[p]] = v \/ InFlight(p)

DecidedInFile ==
    task["reset"] = Idle =>
        \A p \in Proposal, v \in Verdict : Has(stored, p, v) =>
            Has(proposals, p, v) \/ InFlight(p)

\* A reset whose save was written has left no decision in the file.
Cleared ==
    task["reset"] # Idle /\ ~Unserved("reset") =>
        \A p \in Proposal, v \in Verdict : ~Has(stored, p, v)

Calm == mishaps = {} =>
            Exclusive /\ Obeyed /\ ObeyedInFile /\ DecidedInFile /\ Cleared

\* A decided proposal that no review has any more is decided alike in the file.
LEMMA SettledInFile ==
    ASSUME Typed, Durable, Exclusive, NEW t \in Review, NEW p \in task[t].targets, ~Unserved(t)
    PROVE  /\ p \in Proposal /\ task[t].verdict \in Verdict
           /\ \A v : Has(stored, p, v) => v = task[t].verdict
<1>1. p \in Proposal /\ task[t].verdict \in Verdict
  BY TaskTyped DEF Task, Typed, Shaped
<1>2. Has(stored, p, task[t].verdict)
  BY <1>1 DEF Durable, Exclusive
<1>3. stored \in Seq(Item) /\ Distinct(stored)
  BY DEF Typed, TypeOK
<1> QED
  BY <1>1, <1>2, <1>3, HasUnique

\* A review that begins.
LEMMA BeginsCalmly ==
    ASSUME Typed, Calm, mishaps' = {}, NEW t \in Review, NEW P \in SUBSET Ids(proposals),
           NEW v \in Verdict, NEW i \in 0..MaxCreated, Begins(t, P, v, i)
    PROVE  Calm'
<1>0. \A u \in Review : u \in Task /\ u # "reset"
  BY ProposalAssumption DEF Task
<1>1. /\ P \subseteq Proposal /\ task[t] = Idle
      /\ \A w \in Task \ {t} : task'[w] = task[w]
      /\ task'[t].pc = "saving" /\ task'[t].targets = P /\ task'[t].verdict = v
      /\ \A p, s : p \notin P => (Has(proposals', p, s) <=> Has(proposals, p, s))
      /\ \A p, s : p \in P => (Has(proposals', p, s) <=> s = v)
      /\ mishaps \subseteq mishaps'
      /\ UNCHANGED <<stored, records, recordsStored, approvals, approvalsStored>>
  BY BeginEffect
<1>2. Exclusive /\ Obeyed /\ ObeyedInFile /\ DecidedInFile
  BY <1>1 DEF Calm
<1>3. task["reset"] = Idle /\ \A p \in P : \A u \in Review : p \notin task[u].targets
  BY DEF Begins, Starts, InFlight
<1>4. "reset" \in Task /\ task'["reset"] = Idle
  BY <1>0, <1>1, <1>3 DEF Task
<1>5. Idle.targets = {} /\ Idle.pc = "idle"
  BY DEF Idle
<1>6. \A p : InFlight(p)' <=> InFlight(p) \/ p \in P
  BY <1>0, <1>1, <1>5 DEF InFlight
<1>7. Exclusive'
  <2> SUFFICES ASSUME NEW u \in Review, NEW p \in task'[u].targets
               PROVE  /\ Has(proposals', p, task'[u].verdict)
                      /\ \A w \in Review : p \in task'[w].targets => w = u
    BY DEF Exclusive
  <2>1. CASE u = t
    BY <1>0, <1>1, <1>3, <2>1
  <2>2. CASE u # t
    <3>1. task'[u] = task[u] /\ p \in task[u].targets /\ p \notin P
      BY <1>0, <1>1, <1>3, <2>2
    <3> QED
      BY <1>0, <1>1, <1>2, <3>1 DEF Exclusive
  <2> QED
    BY <2>1, <2>2
<1>8. Obeyed'
  <2> SUFFICES ASSUME NEW p \in Proposal, NEW w \in Verdict, House(p), Has(proposals', p, w)
               PROVE  \/ approvals'[KeyOf[p]] = w
                      \/ \E u \in Review : task'[u].pc \in {"saving", "recording"}
                                           /\ p \in task'[u].targets
    BY DEF Obeyed, House
  <2>1. CASE p \in P
    BY <1>1, <2>1
  <2>2. CASE p \notin P
    <3>1. Has(proposals, p, w)
      BY <1>1, <2>2
    <3>2. \A u \in Review : task[u].pc \in {"saving", "recording"} => task'[u] = task[u]
      BY <1>0, <1>1, <1>5
    <3> QED
      BY <1>1, <1>2, <3>1, <3>2 DEF Obeyed
  <2> QED
    BY <2>1, <2>2
<1>9. ObeyedInFile'
  BY <1>1, <1>2, <1>3, <1>6 DEF ObeyedInFile, House
<1>10. DecidedInFile'
  <2> SUFFICES ASSUME NEW p \in Proposal, NEW w \in Verdict, Has(stored, p, w), p \notin P
               PROVE  Has(proposals', p, w) \/ InFlight(p)
    BY <1>1, <1>6 DEF DecidedInFile
  <2> QED
    BY <1>1, <1>2, <1>3 DEF DecidedInFile
<1>11. Cleared'
  BY <1>4 DEF Cleared
<1> QED
  BY <1>7, <1>8, <1>9, <1>10, <1>11 DEF Calm

\* A review that goes on: it approves what it decided before it lets its targets go.
LEMMA ContinuesCalmly ==
    ASSUME Typed, Indexed, ResetClean, Durable, Calm, mishaps = {}, NEW t \in Review,
           ReviewSaved(t) \/ ReviewRecorded(t) \/ ReviewFlushed(t)
    PROVE  Calm'
<1>0. /\ \A u \in Review : u \in Task /\ u # "reset"
      /\ "reset" \in Task /\ Idle.targets = {} /\ Idle.pc = "idle"
      /\ approvals \in [HouseKey -> Verdict \cup {NoDecision}]
  BY ProposalAssumption DEF Task, Idle, Typed, TypeOK
<1>1. /\ task[t] \in Busy /\ task \in [Task -> Busy \cup {Idle}]
      /\ \A w \in Task \ {t} : task'[w] = task[w]
      /\ \/ task'[t] = Idle
         \/ /\ task'[t].pc \in {"recording", "flushing"}
            /\ task'[t].targets = task[t].targets /\ task'[t].verdict = task[t].verdict
      /\ proposals' = proposals /\ stored' = stored /\ mishaps' = mishaps
      /\ ~Unserved(t)
  BY <1>0, Continues DEF Typed, TypeOK
<1>2. Exclusive /\ Obeyed /\ ObeyedInFile /\ DecidedInFile
  BY DEF Calm
<1>3. task["reset"] = Idle /\ task'["reset"] = Idle
  <2>1. task[t] # Idle
    BY <1>0, <1>1, TaskTyped DEF Typed
  <2>2. task["reset"] = Idle
    BY <2>1 DEF ResetClean
  <2> QED
    BY <1>0, <1>1, <2>2
<1>4. \A u \in Review : /\ task'[u].targets \subseteq task[u].targets
                        /\ task'[u].targets # {} => task'[u].verdict = task[u].verdict
                        /\ u # t => task'[u] = task[u]
  BY <1>0, <1>1
<1>5. \A p : InFlight(p) => InFlight(p)' \/ (p \in task[t].targets /\ task'[t] = Idle)
  BY <1>0, <1>1, <1>4 DEF InFlight
\* It does not raise, and does not finish before its house-state targets are approved.
<1>6. ASSUME NEW p \in task[t].targets, House(p)
      PROVE  \/ task'[t].pc \in {"saving", "recording"} /\ UNCHANGED <<approvals, approvalsStored>>
             \/ /\ approvals' = Approve(t) /\ task'[t].pc = "flushing"
                /\ UNCHANGED approvalsStored
             \/ ReviewFlushed(t)
  <2>1. ASSUME ToApproval(t)
        PROVE  approvals' = Approve(t) /\ task'[t].pc = "flushing"
    <3>1. approvals' = Approve(t) /\ task' = [task EXCEPT ![t].pc = "flushing"]
      BY <1>6, <2>1 DEF ToApproval
    <3>2. t \in Task /\ task'[t] = [task[t] EXCEPT !.pc = "flushing"]
      BY <1>0, <1>1, <3>1
    <3>3. [task[t] EXCEPT !.pc = "flushing"].pc = "flushing"
      BY <1>1 DEF Busy
    <3> QED
      BY <3>1, <3>2, <3>3
  <2>2. CASE ReviewSaved(t)
    <3>1. task[t].pc = "saving"
      BY <1>0, <1>1, <2>2, QueueShrinks DEF ReviewSaved
    <3>2. task[t].index <= Len(proposals)
      BY <3>1, SavedIsTargets
    <3>3. task[t].index \in Int /\ Len(proposals) \in Int
      BY <1>1, ProposalAssumption DEF Busy, Typed, TypeOK
    <3>4. task' = [task EXCEPT ![t].pc = "recording"] => task'[t].pc = "recording"
      BY <1>0, <1>1 DEF Busy
    <3> QED
      BY <2>1, <2>2, <3>2, <3>3, <3>4 DEF ReviewSaved
  <2>3. CASE ReviewRecorded(t)
    BY <2>1, <2>3 DEF ReviewRecorded
  <2> QED
    BY <2>2, <2>3
<1>7. Exclusive'
  <2> SUFFICES ASSUME NEW u \in Review, NEW p \in task'[u].targets
               PROVE  /\ Has(proposals', p, task'[u].verdict)
                      /\ \A w \in Review : p \in task'[w].targets => w = u
    BY DEF Exclusive
  <2>1. p \in task[u].targets /\ task'[u].verdict = task[u].verdict
    BY <1>4
  <2> QED
    BY <1>1, <1>2, <1>4, <2>1 DEF Exclusive
<1>8. Obeyed'
  <2> SUFFICES ASSUME NEW p \in Proposal, NEW v \in Verdict, House(p), Has(proposals, p, v)
               PROVE  \/ approvals'[KeyOf[p]] = v
                      \/ \E u \in Review : task'[u].pc \in {"saving", "recording"}
                                           /\ p \in task'[u].targets
    BY <1>1 DEF Obeyed, House
  <2>1. \A q \in task[t].targets : KeyOf[q] = KeyOf[p] => q = p /\ task[t].verdict = v
    <3>1. proposals \in Seq(Item) /\ Distinct(proposals) /\ KeyOf[p] \notin LearnedKey
      BY ProposalAssumption DEF Typed, TypeOK, House
    <3>2. \A q \in task[t].targets : Has(proposals, q, task[t].verdict)
      BY <1>2 DEF Exclusive
    <3> QED
      BY <3>1, <3>2, HasUnique
  <2>2. KeyOf[p] \in HouseKey
    BY DEF House
  <2>3. Approve(t)[KeyOf[p]] = IF p \in task[t].targets THEN v ELSE approvals[KeyOf[p]]
    BY <2>1, <2>2 DEF Approve
  <2>4. approvals' = approvals \/ approvals' = Approve(t)
    BY DEF ReviewSaved, ReviewRecorded, ReviewFlushed, ToApproval
  <2>5. CASE approvals[KeyOf[p]] = v
    BY <2>3, <2>4, <2>5
  <2>6. CASE \E u \in Review : task[u].pc \in {"saving", "recording"} /\ p \in task[u].targets
    <3>1. PICK u \in Review : task[u].pc \in {"saving", "recording"} /\ p \in task[u].targets
      BY <2>6
    <3>2. CASE u # t
      BY <1>4, <3>1, <3>2
    <3>3. CASE u = t
      <4>1. ~ReviewFlushed(t)
        BY <3>1, <3>3 DEF ReviewFlushed
      <4>2. task'[t].pc # "idle"
        BY <1>6, <3>1, <3>3, <4>1
      <4>3. task'[t].targets = task[t].targets
        BY <1>0, <1>1, <4>2
      <4> QED
        BY <1>6, <2>3, <3>1, <3>3, <4>1, <4>3
    <3> QED
      BY <3>2, <3>3
  <2> QED
    BY <1>2, <2>5, <2>6 DEF Obeyed
\* A decision in the file is the one of the list, when no other review has its proposal.
<1>9. ASSUME NEW p \in Proposal, NEW v \in Verdict, Has(stored, p, v), ~InFlight(p)'
      PROVE  /\ Has(proposals, p, v)
             /\ \A u \in Review : p \in task[u].targets => u = t
  <2>1. \A u \in Review : p \in task[u].targets => u = t
    BY <1>4, <1>9 DEF InFlight
  <2>2. CASE p \in task[t].targets
    BY <1>1, <1>2, <1>9, <2>1, <2>2, SettledInFile DEF Exclusive
  <2>3. CASE p \notin task[t].targets
    BY <1>2, <1>3, <1>9, <2>1, <2>3 DEF DecidedInFile, InFlight
  <2> QED
    BY <2>1, <2>2, <2>3
<1>10. DecidedInFile'
  BY <1>1, <1>9 DEF DecidedInFile
<1>11. ObeyedInFile'
  <2> SUFFICES ASSUME NEW p \in Proposal, NEW v \in Verdict, House(p), Has(stored, p, v),
                      ~InFlight(p)'
               PROVE  approvalsStored'[KeyOf[p]] = v
    BY <1>1 DEF ObeyedInFile, House
  <2>1. Has(proposals, p, v) /\ \A u \in Review : p \in task[u].targets => u = t
    BY <1>9
  <2>2. CASE ReviewFlushed(t)
    <3>1. task[t].pc = "flushing" /\ approvalsStored' = approvals
      BY <2>2 DEF ReviewFlushed
    <3> QED
      BY <1>2, <2>1, <3>1 DEF Obeyed
  <2>3. CASE ~ReviewFlushed(t)
    <3>1. approvalsStored' = approvalsStored
      BY <2>3 DEF ReviewSaved, ReviewRecorded
    <3>2. p \notin task[t].targets
      BY <1>0, <1>1, <1>6, <2>3 DEF InFlight
    <3> QED
      BY <1>2, <1>3, <2>1, <3>1, <3>2 DEF ObeyedInFile, InFlight
  <2> QED
    BY <2>2, <2>3
<1>12. Cleared'
  BY <1>3 DEF Cleared
<1> QED
  BY <1>7, <1>8, <1>10, <1>11, <1>12 DEF Calm

\* The steps of a reset, which meets no review.
LEMMA ResetsCalmly ==
    ASSUME Typed, ResetClean, Calm, mishaps = {}, mishaps' = {}, Reset
    PROVE  Calm'
<1>0. /\ \A u \in Review : u \in Task /\ u # "reset"
      /\ "reset" \in Task /\ Idle.targets = {} /\ Idle.pc = "idle"
      /\ task \in [Task -> Busy \cup {Idle}]
  BY ProposalAssumption DEF Task, Idle, Typed, TypeOK
<1>1. stored' = stored
  BY DEF Reset, ResetStarts, ResetSaved, ResetRecorded, ResetFlushed, Returns, SaveAs, storeVars
<1>2. CASE ResetStarts
  <2>1. \A u \in Review : task'[u] = Idle
    BY <1>0, <1>2 DEF ResetStarts
  <2>2. \A p, v : ~Has(proposals', p, v)
    BY <1>2 DEF ResetStarts, Has
  <2>3. task["reset"] = Idle /\ task'["reset"].pc = "saving" /\ SaveAs("reset")
        /\ \A u \in Task \ {"reset"} : task'[u] = task[u]
    BY <1>0, <1>2 DEF ResetStarts, Idle
  <2>4. Unserved("reset")'
    BY <1>0, <2>3, QueueGrows
  <2> QED
    BY <1>0, <2>1, <2>2, <2>3, <2>4
    DEF Calm, Exclusive, Obeyed, ObeyedInFile, DecidedInFile, Cleared
<1>3. CASE ~ResetStarts
  <2>1. /\ \A u \in Review : task'[u] = task[u]
        /\ \A u \in Task \ {"reset"} : task'[u] = task[u]
    BY <1>0, ResetTyped
  <2>2. /\ task["reset"].pc # "idle" /\ ~Unserved("reset")
        /\ Unserved("reset")' <=> Unserved("reset")
    <3>1. CASE ResetSaved
      BY <1>0, <2>1, <3>1, QueueShrinks DEF ResetSaved
    <3>2. CASE ResetRecorded \/ ResetFlushed
      <4>1. task["reset"].pc \in {"recording", "flushing"} /\ UNCHANGED <<waiting, written>>
        BY <3>2 DEF ResetRecorded, ResetFlushed, storeVars
      <4>2. ~Unserved("reset")
        BY <4>1 DEF Typed, TypeOK, Queued, Unserved
      <4> QED
        BY <4>1, <4>2 DEF Unserved
    <3> QED
      BY <1>3, <3>1, <3>2 DEF Reset
  <2>3. /\ proposals' = proposals
        /\ \A u \in Review : task[u] = Idle
        /\ \A p \in Proposal, v \in Verdict : ~Has(proposals, p, v)
    BY <1>0, <1>3, <2>2 DEF ResetClean, Reset, ResetSaved, ResetRecorded, ResetFlushed
  <2>4. \A p \in Proposal, v \in Verdict : ~Has(stored, p, v)
    BY <1>0, <2>2 DEF Calm, Cleared
  <2> QED
    BY <1>0, <1>1, <2>1, <2>2, <2>3, <2>4
    DEF Calm, Exclusive, Obeyed, ObeyedInFile, DecidedInFile, Cleared
<1> QED
  BY <1>2, <1>3

LEMMA NextCalm ==
    Typed /\ Indexed /\ ResetClean /\ Durable /\ Calm /\ [Next]_vars => Calm'
<1> SUFFICES ASSUME Typed, Indexed, ResetClean, Durable, Calm, [Next]_vars, mishaps' = {}
             PROVE  Calm'
  BY DEF Calm
<1>0. /\ \A u \in Review : u \in Task
      /\ "reset" \in Task /\ Idle.targets = {}
  BY DEF Task, Idle
<1>a. ~Restart => mishaps = {}
  BY MishapsGrow
<1>1. CASE Learn
  <2>1. /\ mishaps = {}
        /\ UNCHANGED <<stored, waiting, written, approvals, approvalsStored, task>>
    BY <1>1, LearnEffect DEF Disturbed
  <2>2. \A p \in Proposal, v \in Verdict : Has(proposals', p, v) <=> Has(proposals, p, v)
    BY <1>1, LearnEffect
  <2>3. \A t \in Review : \A p \in task[t].targets : p \in Proposal /\ task[t].verdict \in Verdict
    BY <1>0, TaskTyped DEF Typed, Shaped
  <2>4. Exclusive'
    BY <2>1, <2>2, <2>3 DEF Calm, Exclusive
  <2>5. Obeyed'
    BY <2>1, <2>2 DEF Calm, Obeyed, House
  <2>6. ObeyedInFile' /\ DecidedInFile' /\ Cleared'
    BY <2>1, <2>2 DEF Calm, ObeyedInFile, DecidedInFile, Cleared, InFlight, Unserved, House
  <2> QED
    BY <2>4, <2>5, <2>6 DEF Calm
<1>2. CASE Write
  <2>1. /\ mishaps = {} /\ stored' = proposals
        /\ UNCHANGED <<proposals, approvals, approvalsStored, task>>
    BY <1>2 DEF Write
  <2>2. Exclusive' /\ Obeyed'
    BY <2>1 DEF Calm, Exclusive, Obeyed, House
  <2>3. ObeyedInFile'
    <3> SUFFICES ASSUME task["reset"] = Idle, NEW p \in Proposal, NEW v \in Verdict, House(p),
                        Has(proposals, p, v), ~InFlight(p)
                 PROVE  approvalsStored[KeyOf[p]] = v
      BY <2>1 DEF ObeyedInFile, InFlight, House
    <3>1. Has(stored, p, v)
      BY DEF Durable, InFlight
    <3> QED
      BY <2>1, <3>1 DEF Calm, ObeyedInFile
  <2>4. DecidedInFile'
    BY <2>1 DEF DecidedInFile
  <2>5. Cleared'
    BY <2>1 DEF Cleared, ResetClean
  <2> QED
    BY <2>2, <2>3, <2>4, <2>5 DEF Calm
<1>3. ASSUME NEW t \in Review, NEW P \in SUBSET Ids(proposals), NEW v \in Verdict,
             NEW i \in 0..MaxCreated, Begins(t, P, v, i)
      PROVE  Calm'
  BY <1>3, BeginsCalmly
<1>4. ASSUME NEW t \in Review, ReviewSaved(t) \/ ReviewRecorded(t) \/ ReviewFlushed(t)
      PROVE  Calm'
  <2>1. mishaps = {}
    BY <1>4, Continues
  <2> QED
    BY <1>4, <2>1, ContinuesCalmly
<1>5. CASE Reset
  <2>1. mishaps = {}
    BY <1>5 DEF Reset, ResetStarts, ResetSaved, ResetRecorded, ResetFlushed
  <2> QED
    BY <1>5, <2>1, ResetsCalmly
<1>6. CASE Restart
  <2>1. /\ proposals' = stored /\ approvals' = approvalsStored
        /\ stored' = stored /\ approvalsStored' = approvalsStored
        /\ \A t \in Task : task'[t] = Idle
    BY <1>6 DEF Restart
  <2>2. mishaps = {} /\ \A t \in Task : task[t] = Idle
    BY <1>6 DEF Restart, Typed, TypeOK
  <2>3. \A p : ~InFlight(p)
    BY <1>0, <2>2 DEF InFlight
  <2>4. Exclusive' /\ DecidedInFile' /\ Cleared'
    BY <1>0, <2>1 DEF Exclusive, DecidedInFile, Cleared
  <2>5. \A p \in Proposal, v \in Verdict : House(p) /\ Has(stored, p, v) =>
            approvalsStored[KeyOf[p]] = v
    BY <1>0, <2>2, <2>3 DEF Calm, ObeyedInFile
  <2>6. Obeyed' /\ ObeyedInFile'
    BY <2>1, <2>5 DEF Obeyed, ObeyedInFile, House
  <2> QED
    BY <2>4, <2>6 DEF Calm
<1>7. CASE UNCHANGED vars
  BY <1>7 DEF vars, storeVars, Calm, Exclusive, Obeyed, ObeyedInFile, DecidedInFile, Cleared,
              InFlight, Unserved, House
<1> QED
  BY <1>1, <1>2, <1>3, <1>4, <1>5, <1>6, <1>7, StartsWithListed DEF Next, ReviewStep, Begins

\* What inference obeys is what was decided, as long as no review was cut off, overtaken by a
\* review of the same proposal, or met by a reset.
THEOREM ApprovalsAgree == Spec => []ApprovalAgrees
<1>1. Init => Indexed /\ ResetClean /\ Calm /\ Durable /\ Reported
  <2>1. Init => /\ \A p, v : ~Has(proposals, p, v) /\ ~Has(stored, p, v)
                /\ \A p \in Proposal : reported[p] = NoDecision
    BY DEF Init, Has
  <2>2. Init => \A t \in Task : task[t] = Idle
    BY DEF Init
  <2>3. /\ "reset" \in Task /\ \A t \in Review : t \in Task
        /\ Idle.pc = "idle" /\ Idle.targets = {}
    BY DEF Task, Idle
  <2> QED
    BY <2>1, <2>2, <2>3 DEF Indexed, ResetClean, Calm, Durable, Reported, Exclusive, Obeyed,
                            ObeyedInFile, DecidedInFile, Cleared
<1>2. Calm => ApprovalAgrees
  BY DEF Calm, Obeyed, ApprovalAgrees, InFlight
<1> QED
  BY <1>1, <1>2, InitTyped, NextTyped, NextIndexed, NextResetClean, NextDurable, NextCalm, PTL
  DEF Spec

=============================================================================
