----------------------- MODULE PromotionReview_proofs -----------------------
(***************************************************************************)
(* Proofs about PromotionReview, for any reactions, thresholds and         *)
(* cooldowns and any number of options flows.                              *)
(***************************************************************************)
EXTENDS PromotionReview, FiniteSetTheorems, TLAPS

-----------------------------------------------------------------------------
(* A pending review is earned, in the entry's options and in the copy that *)
(* an options flow may write back at any time.                             *)

EarnedIn(reactions) ==
    \A a \in Reaction : reactions[a].mode # "absent" => Earned(reactions[a])

Holds ==
    /\ opts \in [Reaction -> Entry] /\ EarnedIn(opts)
    /\ flow # Closed => flow \in [Reaction -> Entry] /\ EarnedIn(flow)
    /\ now \in Time

\* _updated_runtime_promotion_reviews offers only what is eligible and revokes the rest.
LEMMA UpdatedEarned ==
    ASSUME NEW e \in Entry
    PROVE  /\ UpdatedReview(e) \in Review
           /\ UpdatedReview(e).status = "pending" => Eligible(e)
<1>1. NoReview \in Review
  BY PromotionAssumption DEF NoReview, Review, Time
<1>2. e.review \in Review
  BY DEF Entry
<1>3. ASSUME NEW s \in {"pending", "revoked"}, NEW v \in Review
      PROVE  [v EXCEPT !.status = s] \in Review /\ [v EXCEPT !.status = s].status = s
  BY DEF Review
<1> QED
  BY <1>1, <1>2, <1>3 DEF UpdatedReview

\* The clock stays within its bounds.
LEMMA Clock == now \in Time /\ now < MaxTime => now + 1 \in Time
BY PromotionAssumption DEF Time

\* An answer: the evidence grows and the review is brought in line with it.
LEMMA RecordHolds ==
    ASSUME Holds, NEW a \in Reaction, NEW o \in Explicit, Record(a, o)
    PROVE  Holds'
<1> DEFINE e == [opts[a] EXCEPT !.answers = @ \cup {[at |-> now, outcome |-> o]}]
           n == [e EXCEPT !.review = UpdatedReview(e)]
<1>1. e \in Entry
  <2>1. opts[a] \in Entry /\ [at |-> now, outcome |-> o] \in Answer
    BY DEF Holds, Answer
  <2> QED
    BY <2>1 DEF Entry
<1>2. opts' = [opts EXCEPT ![a] = n] /\ now' = now + 1 /\ now < MaxTime /\ UNCHANGED flow
  BY DEF Record
<1> HIDE DEF e
<1>3. n \in Entry
  BY <1>1, UpdatedEarned DEF Entry
<1>4. Earned(n)
  <2>1. n.prompts = e.prompts /\ n.answers = e.answers /\ n.review = UpdatedReview(e)
    BY <1>1 DEF Entry
  <2> QED
    BY <1>1, <2>1, UpdatedEarned DEF Earned, Eligible
<1> HIDE DEF n
<1>5. opts' \in [Reaction -> Entry] /\ EarnedIn(opts')
  BY <1>2, <1>3, <1>4 DEF Holds, EarnedIn
<1> QED
  BY <1>2, <1>5, Clock DEF Holds, EarnedIn, Earned, Convincing

\* A decision of the admin leaves no pending review behind.
LEMMA DecideHolds ==
    ASSUME Holds, NEW a \in Reaction, NEW d \in Decision, Decide(a, d)
    PROVE  Holds'
<1> DEFINE e == opts[a]
           n == Decided(e, d)
<1>1. e \in Entry /\ now \in Time /\ e.review.count \in Nat
  BY DEF Holds, Entry, Review
<1>2. opts' = [opts EXCEPT ![a] = n] /\ now' = now + 1 /\ now < MaxTime /\ UNCHANGED flow
  BY DEF Decide
<1>3. n \in Entry /\ n.review.status # "pending"
  <2>1. CASE d = "approve_auto_apply"
    BY <1>1, <2>1 DEF Decided, Entry, Review
  <2>2. CASE d = "dismiss_not_now"
    <3> DEFINE v == [status |-> "not_now", count |-> e.review.count + 1, since |-> now]
    <3>1. v \in Review /\ v.status # "pending"
      BY <1>1 DEF Review
    <3>2. n = [e EXCEPT !.review = v]
      BY <2>2 DEF Decided
    <3> HIDE DEF v
    <3> QED
      BY <1>1, <3>1, <3>2 DEF Entry
  <2>3. CASE d = "disable_future_prompts"
    BY <1>1, <2>3 DEF Decided, Entry, Review
  <2> QED
    BY <2>1, <2>2, <2>3 DEF Decision
<1> HIDE DEF n
<1>4. opts' \in [Reaction -> Entry] /\ EarnedIn(opts')
  BY <1>2, <1>3 DEF Holds, EarnedIn, Earned
<1> QED
  BY <1>2, <1>4, Clock DEF Holds

\* Forgetting the evidence forgets the review too.
LEMMA ForgottenEarned ==
    ASSUME NEW e \in Entry
    PROVE  Forgotten(e) \in Entry /\ Earned(Forgotten(e))
<1>1. NoReview \in Review /\ NoReview.status # "pending"
  BY PromotionAssumption DEF NoReview, Review, Time
<1>2. {} \in SUBSET Answer
  OBVIOUS
<1>3. Forgotten(e) \in Entry /\ Forgotten(e).review = NoReview
  BY <1>1, <1>2 DEF Forgotten, Entry
<1> QED
  BY <1>1, <1>3 DEF Earned

\* Writing an earned copy back replaces earned options by earned ones.
LEMMA StoreHolds ==
    ASSUME Holds, NEW reactions \in [Reaction -> Entry], EarnedIn(reactions),
           StoreReactions(reactions)
    PROVE  Holds'
BY DEF Holds, StoreReactions, EarnedIn

\* Editing a policy or deleting a reaction starts from the flow's copy.
LEMMA EditHolds ==
    ASSUME Holds, NEW a \in Reaction,
           Delete(a) \/ \E mode \in {"ask", "auto"} : EditPolicy(a, mode)
    PROVE  Holds'
<1>1. flow \in [Reaction -> Entry] /\ EarnedIn(flow) /\ flow[a] \in Entry /\ flow[a].mode # "absent"
  BY DEF Delete, EditPolicy, Holds
<1>2. CASE Delete(a)
  <2> DEFINE n == [flow[a] EXCEPT !.mode = "absent", !.promoted = FALSE, !.prompts = TRUE]
  <2>1. n \in Entry /\ n.mode = "absent"
    BY <1>1 DEF Entry
  <2>2. StoreReactions([flow EXCEPT ![a] = n])
    BY <1>1, <1>2 DEF Delete, Entry
  <2> HIDE DEF n
  <2>3. [flow EXCEPT ![a] = n] \in [Reaction -> Entry] /\ EarnedIn([flow EXCEPT ![a] = n])
    BY <1>1, <2>1 DEF EarnedIn
  <2> QED
    BY <2>2, <2>3, StoreHolds
<1>3. ASSUME NEW mode \in {"ask", "auto"}, EditPolicy(a, mode) PROVE Holds'
  <2> DEFINE p == flow[a].promoted /\ mode = "auto"
             e == [flow[a] EXCEPT !.mode = mode, !.promoted = p]
             takenBack == flow[a].mode = "auto" /\ flow[a].promoted /\ mode = "ask"
             n == IF takenBack THEN Forgotten(e) ELSE e
  <2>1. e \in Entry /\ Earned(e)
    <3>1. Earned(flow[a])
      BY <1>1 DEF EarnedIn
    <3>2. p \in BOOLEAN
      OBVIOUS
    <3> HIDE DEF p
    <3>3. e \in Entry /\ e.prompts = flow[a].prompts /\ e.answers = flow[a].answers
          /\ e.review = flow[a].review
      BY <1>1, <3>2 DEF Entry
    <3> HIDE DEF e
    <3> QED
      BY <3>1, <3>3 DEF Earned
  <2>2. StoreReactions([flow EXCEPT ![a] = n])
    BY <1>1, <1>3 DEF EditPolicy, Entry
  <2> HIDE DEF e
  <2>3. n \in Entry /\ Earned(n)
    BY <2>1, ForgottenEarned
  <2> HIDE DEF n
  <2>4. [flow EXCEPT ![a] = n] \in [Reaction -> Entry] /\ EarnedIn([flow EXCEPT ![a] = n])
    BY <1>1, <2>3 DEF EarnedIn
  <2> QED
    BY <2>2, <2>4, StoreHolds
<1> QED
  BY <1>2, <1>3

\* The two copies are earned together, since each may replace the other.
LEMMA NextHolds == Holds /\ [Next]_vars => Holds'
<1> SUFFICES ASSUME Holds, [Next]_vars PROVE Holds'
  OBVIOUS
<1>1. ASSUME NEW a \in Reaction, ReactionStep(a), ~Reset(a) PROVE Holds'
  BY <1>1, RecordHolds, DecideHolds, EditHolds DEF ReactionStep
<1>2. ASSUME NEW a \in Reaction, Reset(a) PROVE Holds'
  <2>1. opts' = [opts EXCEPT ![a] = Forgotten(opts[a])] /\ UNCHANGED <<flow, now>>
    BY <1>2 DEF Reset
  <2>2. Forgotten(opts[a]) \in Entry /\ Earned(Forgotten(opts[a]))
    BY ForgottenEarned DEF Holds
  <2> QED
    BY <2>1, <2>2 DEF Holds, EarnedIn
<1>3. CASE Open \/ StoreOther \/ Abandon
  BY <1>3 DEF Open, StoreOther, Abandon, Holds
<1>4. CASE EditSibling
  BY <1>4, StoreHolds DEF EditSibling, StoreReactions, Holds
<1>5. CASE Save
  <2>1. \A a \in Reaction : Forgotten(flow[a]) \in Entry /\ Earned(Forgotten(flow[a]))
    BY <1>5, ForgottenEarned DEF Save, Holds
  <2> QED
    BY <1>5, <2>1 DEF Save, Holds, EarnedIn
<1>6. CASE Tick \/ UNCHANGED vars
  BY <1>6, Clock DEF Tick, vars, Holds
<1> QED
  BY <1>1, <1>2, <1>3, <1>4, <1>5, <1>6 DEF Next, FlowStep

\* The first state: residents are asked and nothing is recorded.
LEMMA InitHolds == Init => Holds
<1> SUFFICES ASSUME Init PROVE Holds
  OBVIOUS
<1>1. NoReview \in Review /\ NoReview.status # "pending"
  BY PromotionAssumption DEF NoReview, Review, Time
<1> DEFINE e == [mode |-> "ask", promoted |-> FALSE, prompts |-> TRUE,
                 answers |-> {}, review |-> NoReview]
<1>2. e \in Entry /\ Earned(e)
  BY <1>1 DEF Entry, Earned
<1>3. opts = [a \in Reaction |-> e] /\ flow = Closed /\ now = 1
  BY DEF Init
<1> HIDE DEF e
<1> QED
  BY <1>2, <1>3, PromotionAssumption DEF Holds, EarnedIn, Time

\* Whatever is answered, decided, reset or written back by an options flow, an admin is
\* offered a promotion only when the recorded answers support it.
THEOREM PendingEarned == Spec => []PendingIsEarned
<1>1. Holds => PendingIsEarned
  BY DEF Holds, EarnedIn, PendingIsEarned
<1> QED
  BY <1>1, InitHolds, NextHolds, PTL DEF Spec

-----------------------------------------------------------------------------
(* Types.                                                                  *)

\* The histories of "not now" and the number of flows, which Holds does not speak of.
LEMMA NextHistory ==
    ASSUME Holds, TypeOK, [Next]_vars
    PROVE  flows' \in 0..MaxFlows /\ notNow' \in [Reaction -> Seq(Time)]
<1>0. MaxFlows \in Nat /\ now \in Time
  BY PromotionAssumption DEF TypeOK
<1>1. ASSUME NEW a \in Reaction, ReactionStep(a) PROVE UNCHANGED flows
  BY <1>1 DEF ReactionStep, Record, Decide, EditPolicy, Reset, Delete, StoreReactions
<1>2. ASSUME NEW a \in Reaction, ReactionStep(a) PROVE notNow' \in [Reaction -> Seq(Time)]
  <2>1. ASSUME NEW d \in Decision, Decide(a, d) PROVE notNow' \in [Reaction -> Seq(Time)]
    <3>1. notNow[a] \in Seq(Time) /\ Append(notNow[a], now) \in Seq(Time)
      BY <1>0 DEF TypeOK
    <3> QED
      BY <2>1, <3>1 DEF Decide, TypeOK
  <2>2. CASE Reset(a)
    BY <2>2 DEF Reset, TypeOK
  <2>3. ASSUME ~Reset(a), ~\E d \in Decision : Decide(a, d) PROVE UNCHANGED notNow
    BY <1>2, <2>3 DEF ReactionStep, Record, EditPolicy, Delete, StoreReactions
  <2> QED
    BY <2>1, <2>2, <2>3 DEF TypeOK
<1>3. CASE FlowStep
  BY <1>0, <1>3 DEF FlowStep, Open, StoreOther, EditSibling, Save, Abandon, StoreReactions, TypeOK
<1>4. CASE Tick \/ UNCHANGED vars
  BY <1>4 DEF Tick, vars, TypeOK
<1> QED
  BY <1>1, <1>2, <1>3, <1>4 DEF Next, TypeOK

\* The types of the options, the copy and the clock.
LEMMA HoldsTypes == Holds => opts \in [Reaction -> Entry] /\ now \in Time
                             /\ flow \in [Reaction -> Entry] \cup {Closed}
BY DEF Holds

\* Initially every variable has its type.
LEMMA InitType == Init => TypeOK
<1> SUFFICES ASSUME Init PROVE TypeOK
  OBVIOUS
<1>1. flows \in 0..MaxFlows /\ notNow \in [Reaction -> Seq(Time)]
  BY PromotionAssumption DEF Init
<1> QED
  BY <1>1, InitHolds, HoldsTypes DEF TypeOK

\* No step leaves the types.
LEMMA NextType == Holds /\ TypeOK /\ [Next]_vars => TypeOK'
<1> SUFFICES ASSUME Holds, TypeOK, [Next]_vars PROVE TypeOK'
  OBVIOUS
<1>1. Holds'
  BY NextHolds
<1>2. (opts \in [Reaction -> Entry] /\ now \in Time /\ flow \in [Reaction -> Entry] \cup {Closed})'
  BY <1>1 DEF Holds
<1> QED
  BY <1>2, NextHistory DEF TypeOK

\* Whatever an options flow writes back is a well-formed record of every reaction.
THEOREM TypeCorrect == Spec => []TypeOK
BY InitHolds, NextHolds, InitType, NextType, PTL DEF Spec

-----------------------------------------------------------------------------
(* After a "not now": the cooldown, and new approvals.                     *)

\* The approvals since a moment, of which no step but a reset makes fewer.
ApprovalsSince(answers, t) == Approvals(Since(answers, t))

\* The admin may be asked again: the first cooldown after a "not now" at t has passed, and
\* residents have approved since.
EarnedAgain(e, t) ==
    /\ now >= t + CooldownOf(1)
    /\ Cardinality(ApprovalsSince(e.answers, t)) >= MinNew

\* A pending review has not been dismissed yet, and what is not pending any more after a
\* "not now" has either kept that status or been asked about again in time.
Waits(e, dismissals) ==
    LET last == dismissals[Len(dismissals)] IN
    dismissals # <<>> =>
        \/ e.review.status = "not_now" /\ e.review.since = last /\ e.review.count = 1
        \/ e.review.status # "not_now" /\ EarnedAgain(e, last)

NoFlowYet ==
    flows = 0 =>
        /\ flow = Closed
        /\ \A a \in Reaction :
              /\ IsFiniteSet(opts[a].answers)
              /\ opts[a].review.status = "pending" => opts[a].review.count = 0
              /\ opts[a].review.status = "not_now" => notNow[a] # <<>>
              /\ Waits(opts[a], notNow[a])

\* The first cooldown is a duration.
LEMMA CooldownType == CooldownOf(1) \in Nat
<1>1. Cooldown \in Seq(Nat) /\ Len(Cooldown) \in Nat /\ Len(Cooldown) >= 1
  BY PromotionAssumption
<1> QED
  BY <1>1 DEF CooldownOf

\* The last dismissal has a time.
LEMMA LastDismissal ==
    ASSUME NEW s \in Seq(Time), s # <<>>
    PROVE  s[Len(s)] \in Nat
<1>1. Len(s) \in DOMAIN s /\ s[Len(s)] \in Time
  OBVIOUS
<1> QED
  BY <1>1, PromotionAssumption DEF Time

\* More answers never mean fewer approvals since a moment.
LEMMA MoreApprovals ==
    ASSUME NEW answers, IsFiniteSet(answers), NEW x, NEW t
    PROVE  LET more == answers \cup {x} IN
           /\ IsFiniteSet(more)
           /\ Cardinality(ApprovalsSince(answers, t)) \in Nat
           /\ Cardinality(ApprovalsSince(more, t)) \in Nat
           /\ Cardinality(ApprovalsSince(answers, t)) <= Cardinality(ApprovalsSince(more, t))
<1> DEFINE more == answers \cup {x}
<1>1. IsFiniteSet(more)
  BY FS_AddElement
<1>2. ApprovalsSince(more, t) \subseteq more /\ ApprovalsSince(answers, t) \subseteq more
      /\ ApprovalsSince(answers, t) \subseteq ApprovalsSince(more, t)
  BY DEF ApprovalsSince, Approvals, Since
<1>3. IsFiniteSet(ApprovalsSince(more, t)) /\ IsFiniteSet(ApprovalsSince(answers, t))
  BY <1>1, <1>2, FS_Subset
<1>4. Cardinality(ApprovalsSince(answers, t)) <= Cardinality(ApprovalsSince(more, t))
  BY <1>2, <1>3, FS_Subset
<1> QED
  BY <1>1, <1>3, <1>4, FS_CardinalityType

\* The answers of a resident: an eligible review has waited for its cooldown.
LEMMA RecordWaits ==
    ASSUME Holds, TypeOK, NoFlowYet, NEW a \in Reaction, NEW o \in Explicit, Record(a, o)
    PROVE  NoFlowYet'
<1> DEFINE x == [at |-> now, outcome |-> o]
           e == [opts[a] EXCEPT !.answers = @ \cup {x}]
           n == [e EXCEPT !.review = UpdatedReview(e)]
           last == notNow[a][Len(notNow[a])]
<1>1. opts' = [opts EXCEPT ![a] = n] /\ now' = now + 1 /\ UNCHANGED <<flow, flows, notNow>>
  BY DEF Record
<1>2. opts[a] \in Entry /\ opts \in [Reaction -> Entry]
  BY DEF TypeOK
<1>3. e.answers = opts[a].answers \cup {x} /\ e.review = opts[a].review
  BY <1>2 DEF Entry
<1>4. n.answers = e.answers /\ n.review = UpdatedReview(e)
  BY <1>2 DEF Entry
<1>5. now \in Nat /\ CooldownOf(1) \in Nat /\ MinNew \in Nat
  BY CooldownType, PromotionAssumption DEF TypeOK, Time
<1> HIDE DEF x, e, n
<1> SUFFICES ASSUME flows = 0 PROVE NoFlowYet'
  BY <1>1 DEF NoFlowYet
<1>6. ASSUME NEW b \in Reaction, b # a
      PROVE  /\ opts'[b] = opts[b] /\ notNow'[b] = notNow[b]
             /\ Waits(opts[b], notNow[b]) => Waits(opts[b], notNow[b])'
  <2>1. opts'[b] = opts[b] /\ notNow'[b] = notNow[b]
    BY <1>1, <1>2, <1>6
  <2>2. notNow[b] # <<>> => notNow[b][Len(notNow[b])] \in Nat
    BY LastDismissal DEF TypeOK
  <2> QED
    BY <1>1, <1>5, <2>1, <2>2 DEF Waits, EarnedAgain
<1>7. IsFiniteSet(n.answers)
  <2>1. IsFiniteSet(opts[a].answers)
    BY DEF NoFlowYet
  <2> QED
    BY <1>3, <1>4, <2>1, FS_AddElement
<1>8. /\ n.review.status = "pending" => n.review.count = 0
      /\ n.review.status = "not_now" => e.review.status = "not_now" /\ n.review = e.review
  BY <1>2, <1>3, <1>4, PromotionAssumption
  DEF NoFlowYet, UpdatedReview, NoReview, Entry, Review
<1>9. opts'[a] = n /\ notNow'[a] = notNow[a]
  BY <1>1, <1>2
<1>10. Waits(opts[a], notNow[a])'
  <2> SUFFICES ASSUME notNow[a] # <<>>
      PROVE  \/ n.review.status = "not_now" /\ n.review.since = last /\ n.review.count = 1
             \/ /\ n.review.status # "not_now" /\ now' >= last + CooldownOf(1)
                /\ Cardinality(ApprovalsSince(n.answers, last)) >= MinNew
    BY <1>9 DEF Waits, EarnedAgain
  <2>0. last \in Nat
    BY LastDismissal DEF TypeOK
  <2>1. /\ Cardinality(ApprovalsSince(opts[a].answers, last)) \in Nat
        /\ Cardinality(ApprovalsSince(n.answers, last)) \in Nat
        /\ Cardinality(ApprovalsSince(opts[a].answers, last))
             <= Cardinality(ApprovalsSince(n.answers, last))
    BY <1>3, <1>4, MoreApprovals DEF NoFlowYet
  <2>2. Waits(opts[a], notNow[a])
    BY DEF NoFlowYet
  <2>3. CASE opts[a].review.status # "not_now"
    <3>1. now >= last + CooldownOf(1) /\ Cardinality(ApprovalsSince(opts[a].answers, last)) >= MinNew
      BY <2>2, <2>3 DEF Waits, EarnedAgain
    <3>2. n.review.status # "not_now"
      BY <1>3, <1>8, <2>3
    <3> QED
      BY <1>1, <1>5, <2>0, <2>1, <3>1, <3>2
  <2>4. CASE opts[a].review.status = "not_now"
    <3>1. e.review.since = last /\ e.review.count = 1
      BY <1>3, <2>2, <2>4 DEF Waits
    <3>2. CASE n.review.status = "not_now"
      BY <1>8, <3>1, <3>2
    <3>3. CASE n.review.status # "not_now"
      <4>1. Eligible(e)
        BY <1>3, <1>4, <2>4, <3>3 DEF UpdatedReview
      <4>2. now >= last + CooldownOf(1) /\ Cardinality(ApprovalsSince(n.answers, last)) >= MinNew
        BY <1>3, <1>4, <2>4, <3>1, <4>1 DEF Eligible, CooldownSatisfied, ApprovalsSince
      <4> QED
        BY <1>1, <1>5, <2>0, <3>3, <4>2
    <3> QED
      BY <3>2, <3>3
  <2> QED
    BY <2>3, <2>4
<1>11. ASSUME NEW b \in Reaction
       PROVE  /\ IsFiniteSet(opts[b].answers)'
              /\ (opts[b].review.status = "pending" => opts[b].review.count = 0)'
              /\ (opts[b].review.status = "not_now" => notNow[b] # <<>>)'
              /\ Waits(opts[b], notNow[b])'
  <2>1. CASE b = a
    BY <1>3, <1>7, <1>8, <1>10, <1>9, <2>1 DEF NoFlowYet
  <2>2. CASE b # a
    BY <1>6, <2>2 DEF NoFlowYet
  <2> QED
    BY <2>1, <2>2
<1> QED
  BY <1>1, <1>11 DEF NoFlowYet

\* Where no entry changes but in status, and the clock only advances, nothing is due sooner.
LEMMA OthersWait ==
    ASSUME Holds, TypeOK, NoFlowYet, NEW b \in Reaction, now' \in Nat, now' >= now, flows = 0,
           opts'[b] = opts[b], notNow'[b] = notNow[b]
    PROVE  Waits(opts[b], notNow[b])'
<1>1. now \in Nat /\ CooldownOf(1) \in Nat /\ MinNew \in Nat
  BY CooldownType, PromotionAssumption DEF TypeOK, Time
<1>2. notNow[b] # <<>> => notNow[b][Len(notNow[b])] \in Nat
  BY LastDismissal DEF TypeOK
<1>3. Waits(opts[b], notNow[b])
  BY DEF NoFlowYet
<1> QED
  BY <1>1, <1>2, <1>3 DEF Waits, EarnedAgain

\* What is appended is last.
LEMMA AppendedIsLast ==
    ASSUME NEW S, NEW s \in Seq(S), NEW t \in S
    PROVE  Append(s, t) # <<>> /\ Append(s, t)[Len(Append(s, t))] = t
<1>1. /\ Len(Append(s, t)) = Len(s) + 1
      /\ Append(s, t)[Len(s) + 1] = t
  OBVIOUS
<1>2. Len(s) \in Nat /\ Len(<<>>) = 0
  OBVIOUS
<1>3. Append(s, t) # <<>>
  BY <1>1, <1>2
<1> QED
  BY <1>1, <1>3

\* A decision ends a pending review, which has not been dismissed before.
LEMMA DecideWaits ==
    ASSUME Holds, TypeOK, NoFlowYet, NEW a \in Reaction, NEW d \in Decision, Decide(a, d)
    PROVE  NoFlowYet'
<1> DEFINE n == Decided(opts[a], d)
<1>1. /\ opts' = [opts EXCEPT ![a] = n] /\ now' = now + 1 /\ UNCHANGED <<flow, flows>>
      /\ opts[a].review.status = "pending"
  BY DEF Decide
<1>2. opts[a] \in Entry /\ opts \in [Reaction -> Entry] /\ now \in Nat /\ now' \in Nat /\ now' >= now
      /\ notNow \in [Reaction -> Seq(Time)] /\ now \in Time
  BY <1>1, PromotionAssumption DEF TypeOK, Time
<1> SUFFICES ASSUME flows = 0 PROVE NoFlowYet'
  BY <1>1 DEF NoFlowYet
<1>3. opts'[a] = n
  BY <1>1, <1>2
<1>4. opts[a].review.count = 0 /\ Waits(opts[a], notNow[a]) /\ IsFiniteSet(opts[a].answers)
  BY <1>1 DEF NoFlowYet
<1>5. CASE d = "dismiss_not_now"
  <2>1. /\ n.answers = opts[a].answers
        /\ n.review = [status |-> "not_now", count |-> 1, since |-> now]
    BY <1>2, <1>4, <1>5 DEF Decided, Entry
  <2>2. notNow'[a] = Append(notNow[a], now)
    BY <1>2, <1>5 DEF Decide
  <2>3. notNow'[a] # <<>> /\ notNow'[a][Len(notNow'[a])] = now
    <3>1. notNow[a] \in Seq(Time)
      BY <1>2
    <3> QED
      BY <1>2, <2>2, <3>1, AppendedIsLast
  <2>4. \A b \in Reaction \ {a} : opts'[b] = opts[b] /\ notNow'[b] = notNow[b]
    BY <1>1, <1>2, <1>5 DEF Decide
  <2> HIDE DEF n
  <2>5. Waits(opts[a], notNow[a])'
    BY <1>3, <2>1, <2>3 DEF Waits
  <2> QED
    BY <1>1, <1>2, <1>3, <1>4, <2>1, <2>3, <2>4, <2>5, OthersWait DEF NoFlowYet
<1>6. CASE d # "dismiss_not_now"
  <2>1. n.answers = opts[a].answers /\ n.review.status \notin {"pending", "not_now"}
    BY <1>2, <1>6 DEF Decided, Decision, Entry, Review
  <2>2. UNCHANGED notNow
    BY <1>6 DEF Decide
  <2>3. \A b \in Reaction \ {a} : opts'[b] = opts[b] /\ notNow'[b] = notNow[b]
    BY <1>1, <1>2, <2>2
  <2> HIDE DEF n
  <2>4. Waits(opts[a], notNow[a])'
    <3>1. CooldownOf(1) \in Nat /\ MinNew \in Nat
      BY CooldownType, PromotionAssumption
    <3>2. notNow[a] # <<>> => notNow[a][Len(notNow[a])] \in Nat
      BY LastDismissal DEF TypeOK
    <3> QED
      BY <1>1, <1>2, <1>3, <1>4, <2>1, <2>2, <3>1, <3>2 DEF Waits, EarnedAgain
  <2> QED
    BY <1>1, <1>2, <1>3, <1>4, <2>1, <2>2, <2>3, <2>4, OthersWait DEF NoFlowYet
<1> QED
  BY <1>5, <1>6

\* Forgetting the evidence forgets the dismissals too.
LEMMA ResetWaits ==
    ASSUME Holds, TypeOK, NoFlowYet, NEW a \in Reaction, Reset(a)
    PROVE  NoFlowYet'
<1>1. /\ opts' = [opts EXCEPT ![a] = Forgotten(opts[a])]
      /\ notNow' = [notNow EXCEPT ![a] = <<>>]
      /\ UNCHANGED <<flow, flows, now>>
  BY DEF Reset
<1>2. opts \in [Reaction -> Entry] /\ notNow \in [Reaction -> Seq(Time)] /\ now \in Nat
  BY PromotionAssumption DEF TypeOK, Time
<1> SUFFICES ASSUME flows = 0 PROVE NoFlowYet'
  BY <1>1 DEF NoFlowYet
<1>3. /\ Forgotten(opts[a]).answers = {} /\ Forgotten(opts[a]).review.status = "none"
  BY <1>2 DEF Forgotten, Entry, NoReview
<1>4. opts'[a] = Forgotten(opts[a]) /\ notNow'[a] = <<>>
  BY <1>1, <1>2
<1>5. \A b \in Reaction \ {a} : opts'[b] = opts[b] /\ notNow'[b] = notNow[b]
  BY <1>1, <1>2
<1>6. Waits(opts[a], notNow[a])'
  BY <1>4 DEF Waits
<1>7. IsFiniteSet(Forgotten(opts[a]).answers)
  BY <1>3, FS_EmptySet
<1>8. ASSUME NEW b \in Reaction
      PROVE  /\ IsFiniteSet(opts[b].answers)'
             /\ (opts[b].review.status = "pending" => opts[b].review.count = 0)'
             /\ (opts[b].review.status = "not_now" => notNow[b] # <<>>)'
             /\ Waits(opts[b], notNow[b])'
  <2>1. CASE b = a
    BY <1>3, <1>4, <1>6, <1>7, <2>1
  <2>2. CASE b # a
    <3>1. opts'[b] = opts[b] /\ notNow'[b] = notNow[b]
      BY <1>5, <2>2
    <3>2. Waits(opts[b], notNow[b])'
      BY <1>1, <1>2, <3>1, OthersWait
    <3> QED
      BY <3>1, <3>2 DEF NoFlowYet
  <2> QED
    BY <2>1, <2>2
<1> QED
  BY <1>1, <1>8 DEF NoFlowYet

\* Until a flow is opened, no step lets a dismissed review come back too early.
LEMMA NextWaits == Holds /\ TypeOK /\ NoFlowYet /\ [Next]_vars => NoFlowYet'
<1> SUFFICES ASSUME Holds, TypeOK, NoFlowYet, [Next]_vars PROVE NoFlowYet'
  OBVIOUS
<1>1. CASE flow # Closed
  <2>1. flows # 0 /\ flows \in Nat
    BY <1>1, PromotionAssumption DEF NoFlowYet, TypeOK
  <2>2. flows' # 0
    <3>1. ASSUME NEW a \in Reaction, ReactionStep(a) PROVE UNCHANGED flows
      BY <3>1 DEF ReactionStep, Record, Decide, EditPolicy, Reset, Delete, StoreReactions
    <3>2. CASE FlowStep \/ Tick \/ UNCHANGED vars
      BY <1>1, <2>1, <3>2
      DEF FlowStep, Open, StoreOther, EditSibling, Save, Abandon, StoreReactions, Tick, vars
    <3> QED
      BY <2>1, <3>1, <3>2 DEF Next
  <2> QED
    BY <2>2 DEF NoFlowYet
<1>2. CASE flow = Closed
  <2>1. ASSUME NEW a \in Reaction, ReactionStep(a) PROVE NoFlowYet'
    BY <1>2, <2>1, RecordWaits, DecideWaits, ResetWaits
    DEF ReactionStep, EditPolicy, Delete
  <2>2. CASE FlowStep
    <3>1. flows' = flows + 1 /\ flows \in Nat
      BY <1>2, <2>2, PromotionAssumption
      DEF FlowStep, Open, StoreOther, EditSibling, Save, Abandon, StoreReactions, TypeOK
    <3> QED
      BY <3>1 DEF NoFlowYet
  <2>3. CASE Tick \/ UNCHANGED vars
    <3>1. UNCHANGED <<opts, flow, flows, notNow>> /\ now' \in Nat /\ now' >= now
      BY <2>3, PromotionAssumption DEF Tick, vars, TypeOK, Time
    <3> QED
      BY <3>1, OthersWait DEF NoFlowYet
  <2> QED
    BY <2>1, <2>2, <2>3 DEF Next
<1> QED
  BY <1>1, <1>2

\* Nothing was dismissed yet.
LEMMA InitWaits == Init => NoFlowYet
<1> SUFFICES ASSUME Init PROVE NoFlowYet
  OBVIOUS
<1>1. \A a \in Reaction : /\ opts[a].answers = {} /\ opts[a].review.status = "none"
                         /\ notNow[a] = <<>>
  BY DEF Init, NoReview
<1>2. \A a \in Reaction : IsFiniteSet(opts[a].answers)
  BY <1>1, FS_EmptySet
<1> QED
  BY <1>1, <1>2 DEF NoFlowYet, Waits, Init

\* As long as no options flow was opened, a "not now" is respected: neither a revocation
\* nor a sequence of answers gets round its cooldown and the new approvals it asks for.
THEOREM NotNowKept == Spec => []NotNowRespected
<1>1. NoFlowYet => NotNowRespected
  BY DEF NoFlowYet, NotNowRespected, Waits, EarnedAgain, ApprovalsSince
<1> QED
  BY <1>1, InitHolds, NextHolds, InitType, NextType, InitWaits, NextWaits, PTL DEF Spec
=============================================================================
